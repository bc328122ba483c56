---------------------------- MODULE ServerProofs ----------------------------
(***************************************************************************)
(* Theorems about the thread cache, for any number of slots and any tasks, *)
(* and about the servers that run on it, for any number of servers and     *)
(* threads.                                                                *)
(***************************************************************************)
EXTENDS Server, TLAPS

-----------------------------------------------------------------------------
(* The thread cache: the inductive invariant.                              *)

(* Types. *)

\* A caller that has locked a slot looks at a slot of the array.
Looking == \A c \in Threads : pc[c] = "got" => pos[c] \in Slots

Typed == PoolTypeOK /\ Looking

\* Every step of the pool keeps the variables in their types, whatever the
\* system does to the calls the pool makes.
LEMMA PoolTyping ==
    Typed /\ [WeakNext]_poolVars => Typed'
<1> SUFFICES ASSUME Typed, [WeakNext]_poolVars
             PROVE  Typed'
  OBVIOUS
<1>0. 1 \in 1 .. NrSlots + 1 /\ \A n \in Slots : n + 1 \in 1 .. NrSlots + 1
  BY PoolAssumption DEF Slots
<1> USE <1>0 DEF Typed, Looking, PoolTypeOK, Goto, NoSlot, Free, NoMutex, slotVars, callerVars
<1>1. ASSUME NEW c \in Threads, NEW t \in Tasks, Assign(c, t)
      PROVE  Typed'
  BY <1>1 DEF Assign, CallerPCs
<1>2. ASSUME NEW c \in Threads, CallerStep(c)
      PROVE  Typed'
  <2> USE DEF CallerPCs
  <2>1. CASE SkipLocked(c) \/ LockSlot(c)  BY <2>1 DEF SkipLocked, LockSlot
  <2>2. CASE TakeIdle(c)  BY <2>2 DEF TakeIdle
  <2>3. CASE KeepFirst(c)  BY <2>3 DEF KeepFirst
  <2>4. CASE GiveBack(c)  BY <2>4 DEF GiveBack
  <2>5. CASE Refuse(c) \/ AllocateKept(c)  BY <2>5 DEF Refuse, AllocateKept, Return
  <2>6. CASE InitMutexAndCond(c)  BY <2>6 DEF InitMutexAndCond
  <2>7. CASE CreateThread(c)  BY <2>7 DEF CreateThread, WorkerPCs
  <2>8. CASE SpinUntilReady(c)  BY <2>8 DEF SpinUntilReady
  <2>9. CASE Fill(c)  BY <2>9 DEF Fill
  <2>10. CASE LockMutex(c)  BY <2>10 DEF LockMutex
  <2>11. CASE UnlockMutex(c)  BY <2>11 DEF UnlockMutex
  <2>12. CASE Signal(c)  BY <2>12 DEF Signal, Return, WorkerPCs
  <2> QED BY <1>2, <2>1, <2>2, <2>3, <2>4, <2>5, <2>6, <2>7, <2>8, <2>9, <2>10,
             <2>11, <2>12 DEF CallerStep
<1>3. ASSUME NEW s \in Slots, WorkerStep(s) \/ TaskReturns(s) \/ SpuriousWakeup(s)
      PROVE  Typed'
  <2> USE DEF WorkerPCs, Threads, Slots
  <2>1. CASE WorkerStart(s)  BY <2>1 DEF WorkerStart
  <2>2. CASE WorkerWait(s)  BY <2>2 DEF WorkerWait
  <2>3. CASE WorkerWake(s)  BY <2>3 DEF WorkerWake
  <2>4. CASE UnlockSlot(s)  BY <2>4 DEF UnlockSlot
  <2>5. CASE TaskReturns(s)  BY <2>5 DEF TaskReturns
  <2>6. CASE SpuriousWakeup(s)  BY <2>6 DEF SpuriousWakeup
  <2> QED BY <1>3, <2>1, <2>2, <2>3, <2>4, <2>5, <2>6 DEF WorkerStep
<1>4. ASSUME NEW c \in Threads, AllocationFails(c)
      PROVE  Typed'
  BY <1>4 DEF AllocationFails, InitFails, CreateFails, ResetSlot, LockNoMutex, CallerPCs
<1>5. CASE UNCHANGED poolVars
  BY <1>5 DEF poolVars
<1> QED BY <1>1, <1>2, <1>3, <1>4, <1>5 DEF WeakNext, PoolNext

LEMMA PoolInitTyped == PoolInit => Typed
  BY PoolAssumption DEF Typed, Looking, PoolInit, PoolTypeOK, Slots, Threads, WorkerPCs,
     CallerPCs, NoSlot, Free, NoMutex

\* Type correctness of the pool: every field and every local variable of
\* assign_task stays what the code declares it to be, p_slot never leaves the
\* array.
THEOREM PoolTypeCorrect == PoolSpec => []PoolTypeOK
<1>1. [PoolNext]_poolVars => [WeakNext]_poolVars
  BY DEF WeakNext
<1> QED BY <1>1, PoolTyping, PoolInitTyped, PTL DEF PoolSpec, Typed

-----------------------------------------------------------------------------
(* The inductive invariant.                                                *)

\* The program counters at which p_slot is the slot the task goes to.
Chosen == {"alloc", "create", "spin", "fill", "lock", "unlock", "signal"}

\* The slot a caller keeps is behind its scan, and not the one it looks at.
ScanInv ==
    \A c \in Threads :
        /\ pc[c] = "idle" => kept[c] = NoSlot
        /\ pc[c] # "idle" => arg[c] \in Tasks
        /\ pc[c] \in {"scan", "got"} => kept[c] < pos[c]
        /\ pc[c] \in Chosen => kept[c] \in Slots

\* What the fields of a slot say about its thread.
SlotInv ==
    \A s \in Slots :
        /\ ~allocated[s] => worker[s] = "none"
        /\ ready[s] <=> worker[s] \notin {"none", "start"}
        /\ allocated[s] /\ ~ready[s] =>
             \E c \in Threads : pc[c] \in {"create", "spin"} /\ kept[c] = s
        /\ worker[s] \in {"loop", "run", "ret"} => mutex[s] = s
        /\ Busy(s) => task[s] \in Tasks

\* How far a caller has come with the slot it keeps.
PlacingInv ==
    \A c \in Threads :
        /\ pc[c] \in {"scan", "got", "alloc"} /\ kept[c] # NoSlot => ~allocated[kept[c]]
        /\ pc[c] = "create" => allocated[kept[c]] /\ worker[kept[c]] = "none"
        /\ pc[c] = "spin" => allocated[kept[c]] /\ worker[kept[c]] \in {"start", "loop", "wait"}
        /\ pc[c] \in {"fill", "lock"} => allocated[kept[c]] /\ worker[kept[c]] \in {"loop", "wait"}
        /\ pc[c] \in {"unlock", "signal"} => allocated[kept[c]] /\ worker[kept[c]] = "wait"
        /\ pc[c] \in {"lock", "unlock", "signal"} => task[kept[c]] = arg[c]

PoolInv ==
    /\ Typed /\ OneOwner /\ NoSlotLeaked /\ OwnedIsLocked
    /\ ScanInv /\ SlotInv /\ PlacingInv

LEMMA PoolInitInv == PoolInit => PoolInv
<1> SUFFICES ASSUME PoolInit PROVE PoolInv
  OBVIOUS
<1> QED
  BY PoolInitTyped, PoolAssumption DEF PoolInit, PoolInv, OneOwner, NoSlotLeaked,
     OwnedIsLocked, ScanInv, SlotInv, PlacingInv, Chosen, Holds, Busy, Slots, Threads, NoSlot

\* A step of a caller keeps the invariant.
LEMMA CallerKeepsInv ==
    ASSUME PoolInv, Typed', NEW c \in Threads,
           CallerStep(c) \/ \E t \in Tasks : Assign(c, t)
    PROVE  PoolInv'
<1> USE PoolAssumption DEF PoolInv, Typed, PoolTypeOK, Goto, Return, NoSlot, Free, NoMutex,
        slotVars, callerVars, Holds, Busy
<1>1. ASSUME NEW t \in Tasks, Assign(c, t) PROVE PoolInv'
  <2>1. OneOwner'
    BY <1>1 DEF OneOwner, ScanInv, SlotInv, PlacingInv, Chosen, Slots, Threads, Assign, MayCall
  <2>2. NoSlotLeaked'
    BY <1>1 DEF NoSlotLeaked, OneOwner, ScanInv, Assign, MayCall
  <2>3. OwnedIsLocked'
    BY <1>1 DEF OneOwner, OwnedIsLocked, ScanInv, Assign, MayCall
  <2>4. ScanInv'
    BY <1>1 DEF ScanInv, Chosen, Slots, Threads, Assign, MayCall
  <2>5. SlotInv'
    BY <1>1 DEF OneOwner, ScanInv, SlotInv, PlacingInv, Chosen, Assign, MayCall, Slots, Threads
  <2>6. PlacingInv'
    BY <1>1 DEF OneOwner, ScanInv, SlotInv, PlacingInv, Chosen, Assign, MayCall, Slots, Threads
  <2> QED BY <2>1, <2>2, <2>3, <2>4, <2>5, <2>6
<1>2. CASE SkipLocked(c)
  <2>1. OneOwner'
    BY <1>2 DEF OneOwner, ScanInv, SkipLocked
  <2>2. NoSlotLeaked'
    BY <1>2 DEF NoSlotLeaked, OneOwner, ScanInv, SkipLocked
  <2>3. OwnedIsLocked'
    BY <1>2 DEF OneOwner, OwnedIsLocked, ScanInv, SkipLocked
  <2>4. ScanInv'
    BY <1>2 DEF ScanInv, Chosen, Slots, SkipLocked
  <2>5. SlotInv'
    BY <1>2 DEF OneOwner, ScanInv, SlotInv, PlacingInv, Chosen, SkipLocked, Slots, Threads
  <2>6. PlacingInv'
    BY <1>2 DEF OneOwner, ScanInv, SlotInv, PlacingInv, Chosen, SkipLocked, Slots, Threads
  <2> QED BY <2>1, <2>2, <2>3, <2>4, <2>5, <2>6
<1>3. CASE LockSlot(c)
  <2>1. OneOwner'
    BY <1>3 DEF OneOwner, OwnedIsLocked, ScanInv, LockSlot
  <2>2. NoSlotLeaked'
    BY <1>3 DEF NoSlotLeaked, OneOwner, ScanInv, LockSlot
  <2>3. OwnedIsLocked'
    BY <1>3 DEF OneOwner, OwnedIsLocked, ScanInv, LockSlot
  <2>4. ScanInv'
    BY <1>3 DEF ScanInv, Chosen, Slots, Threads, LockSlot
  <2>5. SlotInv'
    BY <1>3 DEF OneOwner, ScanInv, SlotInv, PlacingInv, Chosen, LockSlot, Slots, Threads
  <2>6. PlacingInv'
    BY <1>3 DEF OneOwner, ScanInv, SlotInv, PlacingInv, Chosen, LockSlot, Slots, Threads
  <2> QED BY <2>1, <2>2, <2>3, <2>4, <2>5, <2>6
<1>4. CASE TakeIdle(c)
  <2>1. OneOwner'
    BY <1>4 DEF OneOwner, ScanInv, TakeIdle
  <2>2. NoSlotLeaked'
    BY <1>4 DEF NoSlotLeaked, OneOwner, ScanInv, TakeIdle
  <2>3. OwnedIsLocked'
    BY <1>4 DEF OneOwner, OwnedIsLocked, ScanInv, TakeIdle
  <2>4. ScanInv'
    BY <1>4 DEF ScanInv, Chosen, Slots, Threads, TakeIdle
  <2>5. SlotInv'
    BY <1>4 DEF OneOwner, ScanInv, SlotInv, PlacingInv, Chosen, TakeIdle, Slots, Threads
  <2>6. PlacingInv'
    <3>1. ~Busy(pos[c]) /\ pos[c] \in Slots
      BY <1>4 DEF OneOwner, Looking, TakeIdle
    <3>2. ready[pos[c]]
      <4>1. SUFFICES ASSUME ~ready[pos[c]] PROVE FALSE
        OBVIOUS
      <4>2. PICK d \in Threads : pc[d] \in {"create", "spin"} /\ kept[d] = pos[c]
        BY <1>4, <3>1, <4>1 DEF SlotInv, TakeIdle
      <4> QED BY <1>4, <3>1, <4>2 DEF OneOwner, TakeIdle
    <3>3. worker[pos[c]] \in {"loop", "wait"}
      BY <3>1, <3>2 DEF SlotInv, WorkerPCs
    <3> QED BY <1>4, <3>1, <3>3 DEF PlacingInv, TakeIdle
  <2> QED BY <2>1, <2>2, <2>3, <2>4, <2>5, <2>6
<1>5. CASE KeepFirst(c)
  <2>1. OneOwner'
    BY <1>5 DEF OneOwner, ScanInv, KeepFirst
  <2>2. NoSlotLeaked'
    <3> SUFFICES ASSUME NEW s \in Slots, locked[s], ~Busy(s)
                 PROVE  \E d \in Threads : Holds(d, s)'
      BY <1>5 DEF NoSlotLeaked, KeepFirst
    <3>1. PICK d \in Threads : Holds(d, s)
      BY DEF NoSlotLeaked
    <3>2. Holds(d, s)'
      BY <1>5, <3>1 DEF KeepFirst, Slots
    <3> QED BY <3>2
  <2>3. OwnedIsLocked'
    BY <1>5 DEF OneOwner, OwnedIsLocked, ScanInv, KeepFirst
  <2>4. ScanInv'
    BY <1>5 DEF ScanInv, Chosen, Slots, Threads, KeepFirst
  <2>5. SlotInv'
    BY <1>5 DEF OneOwner, ScanInv, SlotInv, PlacingInv, Chosen, KeepFirst, Slots, Threads
  <2>6. PlacingInv'
    BY <1>5 DEF OneOwner, ScanInv, SlotInv, PlacingInv, Chosen, KeepFirst, Slots, Threads
  <2> QED BY <2>1, <2>2, <2>3, <2>4, <2>5, <2>6
<1>6. CASE GiveBack(c)
  <2>1. OneOwner'
    BY <1>6 DEF OneOwner, ScanInv, GiveBack
  <2>2. NoSlotLeaked'
    BY <1>6 DEF NoSlotLeaked, OneOwner, ScanInv, GiveBack
  <2>3. OwnedIsLocked'
    BY <1>6 DEF OneOwner, OwnedIsLocked, ScanInv, GiveBack
  <2>4. ScanInv'
    BY <1>6 DEF ScanInv, Chosen, Slots, Threads, GiveBack
  <2>5. SlotInv'
    BY <1>6 DEF OneOwner, ScanInv, SlotInv, PlacingInv, Chosen, GiveBack, Slots, Threads
  <2>6. PlacingInv'
    BY <1>6 DEF OneOwner, ScanInv, SlotInv, PlacingInv, Chosen, GiveBack, Slots, Threads
  <2> QED BY <2>1, <2>2, <2>3, <2>4, <2>5, <2>6
<1>7. CASE Refuse(c)
  <2>1. OneOwner'
    BY <1>7 DEF OneOwner, ScanInv, SlotInv, PlacingInv, Chosen, Slots, Threads, Refuse
  <2>2. NoSlotLeaked'
    BY <1>7 DEF NoSlotLeaked, OneOwner, ScanInv, Refuse
  <2>3. OwnedIsLocked'
    BY <1>7 DEF OneOwner, OwnedIsLocked, ScanInv, Refuse
  <2>4. ScanInv'
    BY <1>7 DEF ScanInv, Chosen, Slots, Threads, Refuse
  <2>5. SlotInv'
    BY <1>7 DEF OneOwner, ScanInv, SlotInv, PlacingInv, Chosen, Refuse, Slots, Threads
  <2>6. PlacingInv'
    BY <1>7 DEF OneOwner, ScanInv, SlotInv, PlacingInv, Chosen, Refuse, Slots, Threads
  <2> QED BY <2>1, <2>2, <2>3, <2>4, <2>5, <2>6
<1>8. CASE AllocateKept(c)
  <2>1. OneOwner'
    BY <1>8 DEF OneOwner, ScanInv, SlotInv, PlacingInv, Chosen, Slots, Threads, AllocateKept
  <2>2. NoSlotLeaked'
    BY <1>8 DEF NoSlotLeaked, OneOwner, ScanInv, AllocateKept
  <2>3. OwnedIsLocked'
    BY <1>8 DEF OneOwner, OwnedIsLocked, ScanInv, AllocateKept
  <2>4. ScanInv'
    BY <1>8 DEF ScanInv, Chosen, Slots, Threads, AllocateKept
  <2>5. SlotInv'
    BY <1>8 DEF OneOwner, ScanInv, SlotInv, PlacingInv, Chosen, AllocateKept, Slots, Threads
  <2>6. PlacingInv'
    BY <1>8 DEF OneOwner, ScanInv, SlotInv, PlacingInv, Chosen, AllocateKept, Slots, Threads
  <2> QED BY <2>1, <2>2, <2>3, <2>4, <2>5, <2>6
<1>9. CASE InitMutexAndCond(c)
  <2>1. OneOwner'
    BY <1>9 DEF OneOwner, ScanInv, InitMutexAndCond
  <2>2. NoSlotLeaked'
    BY <1>9 DEF NoSlotLeaked, OneOwner, ScanInv, InitMutexAndCond
  <2>3. OwnedIsLocked'
    BY <1>9 DEF OneOwner, OwnedIsLocked, ScanInv, InitMutexAndCond
  <2>4. ScanInv'
    BY <1>9 DEF ScanInv, Chosen, Slots, Threads, InitMutexAndCond
  <2>5. SlotInv'
    BY <1>9 DEF OneOwner, ScanInv, SlotInv, PlacingInv, Chosen, InitMutexAndCond, Slots, Threads
  <2>6. PlacingInv'
    BY <1>9 DEF OneOwner, ScanInv, SlotInv, PlacingInv, Chosen, InitMutexAndCond, Slots, Threads
  <2> QED BY <2>1, <2>2, <2>3, <2>4, <2>5, <2>6
<1>10. CASE CreateThread(c)
  <2>1. OneOwner'
    BY <1>10 DEF OneOwner, ScanInv, SlotInv, PlacingInv, Chosen, Slots, Threads, CreateThread
  <2>2. NoSlotLeaked'
    BY <1>10 DEF NoSlotLeaked, OneOwner, ScanInv, CreateThread
  <2>3. OwnedIsLocked'
    BY <1>10 DEF OneOwner, OwnedIsLocked, ScanInv, CreateThread
  <2>4. ScanInv'
    BY <1>10 DEF ScanInv, Chosen, Slots, Threads, CreateThread
  <2>5. SlotInv'
    <3>1. /\ kept[c] \in Slots /\ allocated[kept[c]] /\ worker[kept[c]] = "none"
          /\ ~ready[kept[c]]
      BY <1>10 DEF ScanInv, SlotInv, PlacingInv, Chosen, CreateThread
    <3>2. pc'[c] = "spin" /\ \A d \in Threads : d # c => pc'[d] = pc[d]
      BY <1>10 DEF CreateThread
    <3>3. worker'[kept[c]] = "start" /\ \A s \in Slots : s # kept[c] => worker'[s] = worker[s]
      BY <1>10, <3>1 DEF CreateThread
    <3>4. /\ allocated' = allocated /\ ready' = ready /\ mutex' = mutex
          /\ task' = task /\ kept' = kept
      BY <1>10 DEF CreateThread
    <3> SUFFICES ASSUME NEW s \in Slots
                 PROVE  /\ ~allocated[s] => worker'[s] = "none"
                        /\ ready[s] <=> worker'[s] \notin {"none", "start"}
                        /\ allocated[s] /\ ~ready[s] =>
                             \E d \in Threads : pc'[d] \in {"create", "spin"} /\ kept[d] = s
                        /\ worker'[s] \in {"loop", "run", "ret"} => mutex[s] = s
                        /\ worker'[s] \in {"woken", "run", "ret"} => task[s] \in Tasks
      BY <3>4 DEF SlotInv, Busy
    <3>5. CASE s = kept[c]
      BY <3>1, <3>2, <3>3, <3>5
    <3>6. CASE s # kept[c]
      BY <3>2, <3>3, <3>6 DEF SlotInv, Busy
    <3> QED BY <3>5, <3>6
  <2>6. PlacingInv'
    BY <1>10 DEF OneOwner, ScanInv, SlotInv, PlacingInv, Chosen, CreateThread, Slots, Threads
  <2> QED BY <2>1, <2>2, <2>3, <2>4, <2>5, <2>6
<1>11. CASE SpinUntilReady(c)
  <2>1. OneOwner'
    BY <1>11 DEF OneOwner, ScanInv, SlotInv, PlacingInv, Chosen, Slots, Threads, SpinUntilReady
  <2>2. NoSlotLeaked'
    BY <1>11 DEF NoSlotLeaked, OneOwner, ScanInv, SpinUntilReady
  <2>3. OwnedIsLocked'
    BY <1>11 DEF OneOwner, OwnedIsLocked, ScanInv, SpinUntilReady
  <2>4. ScanInv'
    BY <1>11 DEF ScanInv, Chosen, Slots, Threads, SpinUntilReady
  <2>5. SlotInv'
    BY <1>11 DEF OneOwner, ScanInv, SlotInv, PlacingInv, Chosen, SpinUntilReady, Slots, Threads
  <2>6. PlacingInv'
    BY <1>11 DEF OneOwner, ScanInv, SlotInv, PlacingInv, Chosen, SpinUntilReady, Slots, Threads
  <2> QED BY <2>1, <2>2, <2>3, <2>4, <2>5, <2>6
<1>12. CASE Fill(c)
  <2>1. OneOwner'
    BY <1>12 DEF OneOwner, ScanInv, SlotInv, PlacingInv, Chosen, Slots, Threads, Fill
  <2>2. NoSlotLeaked'
    BY <1>12 DEF NoSlotLeaked, OneOwner, ScanInv, Fill
  <2>3. OwnedIsLocked'
    BY <1>12 DEF OneOwner, OwnedIsLocked, ScanInv, Fill
  <2>4. ScanInv'
    BY <1>12 DEF ScanInv, Chosen, Slots, Threads, Fill
  <2>5. SlotInv'
    BY <1>12 DEF OneOwner, ScanInv, SlotInv, PlacingInv, Chosen, Fill, Slots, Threads
  <2>6. PlacingInv'
    BY <1>12 DEF OneOwner, ScanInv, SlotInv, PlacingInv, Chosen, Fill, Slots, Threads
  <2> QED BY <2>1, <2>2, <2>3, <2>4, <2>5, <2>6
<1>13. CASE LockMutex(c)
  <2>1. OneOwner'
    BY <1>13 DEF OneOwner, ScanInv, SlotInv, PlacingInv, Chosen, Slots, Threads, LockMutex
  <2>2. NoSlotLeaked'
    BY <1>13 DEF NoSlotLeaked, OneOwner, ScanInv, LockMutex
  <2>3. OwnedIsLocked'
    BY <1>13 DEF OneOwner, OwnedIsLocked, ScanInv, LockMutex
  <2>4. ScanInv'
    BY <1>13 DEF ScanInv, Chosen, Slots, Threads, LockMutex
  <2>5. SlotInv'
    BY <1>13 DEF OneOwner, ScanInv, SlotInv, PlacingInv, Chosen, LockMutex, Slots, Threads
  <2>6. PlacingInv'
    BY <1>13 DEF OneOwner, ScanInv, SlotInv, PlacingInv, Chosen, LockMutex, Slots, Threads
  <2> QED BY <2>1, <2>2, <2>3, <2>4, <2>5, <2>6
<1>14. CASE UnlockMutex(c)
  <2>1. OneOwner'
    BY <1>14 DEF OneOwner, ScanInv, SlotInv, PlacingInv, Chosen, Slots, Threads, UnlockMutex
  <2>2. NoSlotLeaked'
    BY <1>14 DEF NoSlotLeaked, OneOwner, ScanInv, UnlockMutex
  <2>3. OwnedIsLocked'
    BY <1>14 DEF OneOwner, OwnedIsLocked, ScanInv, UnlockMutex
  <2>4. ScanInv'
    BY <1>14 DEF ScanInv, Chosen, Slots, Threads, UnlockMutex
  <2>5. SlotInv'
    BY <1>14 DEF OneOwner, ScanInv, SlotInv, PlacingInv, Chosen, UnlockMutex, Slots, Threads
  <2>6. PlacingInv'
    BY <1>14 DEF OneOwner, ScanInv, SlotInv, PlacingInv, Chosen, UnlockMutex, Slots, Threads
  <2> QED BY <2>1, <2>2, <2>3, <2>4, <2>5, <2>6
<1>15. CASE Signal(c)
  <2>1. OneOwner'
    BY <1>15 DEF OneOwner, ScanInv, SlotInv, PlacingInv, Chosen, Slots, Threads, Signal
  <2>2. NoSlotLeaked'
    BY <1>15 DEF NoSlotLeaked, OneOwner, ScanInv, PlacingInv, Signal
  <2>3. OwnedIsLocked'
    <3>1. kept[c] \in Slots /\ locked[kept[c]]
      BY <1>15 DEF OwnedIsLocked, ScanInv, Chosen, Signal
    <3>2. \A d \in Threads, s \in Slots : Holds(d, s)' => Holds(d, s)
      BY <1>15 DEF Signal, Slots
    <3> QED BY <1>15, <3>1, <3>2 DEF OwnedIsLocked, Signal
  <2>4. ScanInv'
    BY <1>15 DEF ScanInv, Chosen, Slots, Threads, Signal
  <2>5. SlotInv'
    BY <1>15 DEF OneOwner, ScanInv, SlotInv, PlacingInv, Chosen, Signal, Slots, Threads
  <2>6. PlacingInv'
    BY <1>15 DEF OneOwner, ScanInv, SlotInv, PlacingInv, Chosen, Signal, Slots, Threads
  <2> QED BY <2>1, <2>2, <2>3, <2>4, <2>5, <2>6
<1> QED BY <1>1, <1>2, <1>3, <1>4, <1>5, <1>6, <1>7, <1>8, <1>9, <1>10, <1>11, <1>12, <1>13, <1>14, <1>15 DEF CallerStep

\* So does a step of a cached thread.
LEMMA WorkerKeepsInv ==
    ASSUME PoolInv, Typed', NEW s \in Slots, WorkerStep(s) \/ TaskReturns(s)
    PROVE  PoolInv'
<1> USE PoolAssumption DEF PoolInv, Typed, PoolTypeOK, Goto, Return, NoSlot, Free, NoMutex,
        slotVars, callerVars, Holds, Busy
<1>1. CASE WorkerStart(s)
  <2>1. OneOwner'
    BY <1>1 DEF OneOwner, ScanInv, SlotInv, PlacingInv, Chosen, Slots, Threads, WorkerStart
  <2>2. NoSlotLeaked'
    BY <1>1 DEF NoSlotLeaked, OneOwner, ScanInv, WorkerStart
  <2>3. OwnedIsLocked'
    BY <1>1 DEF OneOwner, OwnedIsLocked, ScanInv, WorkerStart
  <2>4. ScanInv'
    BY <1>1 DEF ScanInv, Chosen, Slots, Threads, WorkerStart
  <2>5. SlotInv'
    BY <1>1 DEF OneOwner, ScanInv, SlotInv, PlacingInv, Chosen, WorkerStart, Slots, Threads
  <2>6. PlacingInv'
    BY <1>1 DEF OneOwner, ScanInv, SlotInv, PlacingInv, Chosen, WorkerStart, Slots, Threads
  <2> QED BY <2>1, <2>2, <2>3, <2>4, <2>5, <2>6
<1>2. CASE WorkerWait(s)
  <2>1. OneOwner'
    BY <1>2 DEF OneOwner, ScanInv, SlotInv, PlacingInv, Chosen, Slots, Threads, WorkerWait
  <2>2. NoSlotLeaked'
    BY <1>2 DEF NoSlotLeaked, OneOwner, ScanInv, WorkerWait
  <2>3. OwnedIsLocked'
    BY <1>2 DEF OneOwner, OwnedIsLocked, ScanInv, WorkerWait
  <2>4. ScanInv'
    BY <1>2 DEF ScanInv, Chosen, Slots, Threads, WorkerWait
  <2>5. SlotInv'
    BY <1>2 DEF OneOwner, ScanInv, SlotInv, PlacingInv, Chosen, WorkerWait, Slots, Threads
  <2>6. PlacingInv'
    BY <1>2 DEF OneOwner, ScanInv, SlotInv, PlacingInv, Chosen, WorkerWait, Slots, Threads
  <2> QED BY <2>1, <2>2, <2>3, <2>4, <2>5, <2>6
<1>3. CASE WorkerWake(s)
  <2>1. OneOwner'
    BY <1>3 DEF OneOwner, ScanInv, SlotInv, PlacingInv, Chosen, Slots, Threads, WorkerWake
  <2>2. NoSlotLeaked'
    BY <1>3 DEF NoSlotLeaked, OneOwner, ScanInv, WorkerWake
  <2>3. OwnedIsLocked'
    BY <1>3 DEF OneOwner, OwnedIsLocked, ScanInv, WorkerWake
  <2>4. ScanInv'
    BY <1>3 DEF ScanInv, Chosen, Slots, Threads, WorkerWake
  <2>5. SlotInv'
    BY <1>3 DEF OneOwner, ScanInv, SlotInv, PlacingInv, Chosen, WorkerWake, Slots, Threads
  <2>6. PlacingInv'
    BY <1>3 DEF OneOwner, ScanInv, SlotInv, PlacingInv, Chosen, WorkerWake, Slots, Threads
  <2> QED BY <2>1, <2>2, <2>3, <2>4, <2>5, <2>6
<1>4. CASE UnlockSlot(s)
  <2>1. OneOwner'
    BY <1>4 DEF OneOwner, ScanInv, SlotInv, PlacingInv, Chosen, Slots, Threads, UnlockSlot
  <2>2. NoSlotLeaked'
    BY <1>4 DEF NoSlotLeaked, OneOwner, ScanInv, UnlockSlot
  <2>3. OwnedIsLocked'
    BY <1>4 DEF OneOwner, OwnedIsLocked, ScanInv, UnlockSlot
  <2>4. ScanInv'
    BY <1>4 DEF ScanInv, Chosen, Slots, Threads, UnlockSlot
  <2>5. SlotInv'
    BY <1>4 DEF OneOwner, ScanInv, SlotInv, PlacingInv, Chosen, UnlockSlot, Slots, Threads
  <2>6. PlacingInv'
    BY <1>4 DEF OneOwner, ScanInv, SlotInv, PlacingInv, Chosen, UnlockSlot, Slots, Threads
  <2> QED BY <2>1, <2>2, <2>3, <2>4, <2>5, <2>6
<1>5. CASE TaskReturns(s)
  <2>1. OneOwner'
    BY <1>5 DEF OneOwner, ScanInv, SlotInv, PlacingInv, Chosen, Slots, Threads, TaskReturns
  <2>2. NoSlotLeaked'
    BY <1>5 DEF NoSlotLeaked, OneOwner, ScanInv, TaskReturns
  <2>3. OwnedIsLocked'
    BY <1>5 DEF OneOwner, OwnedIsLocked, ScanInv, TaskReturns
  <2>4. ScanInv'
    BY <1>5 DEF ScanInv, Chosen, Slots, Threads, TaskReturns
  <2>5. SlotInv'
    BY <1>5 DEF OneOwner, ScanInv, SlotInv, PlacingInv, Chosen, TaskReturns, Slots, Threads
  <2>6. PlacingInv'
    BY <1>5 DEF OneOwner, ScanInv, SlotInv, PlacingInv, Chosen, TaskReturns, Slots, Threads
  <2> QED BY <2>1, <2>2, <2>3, <2>4, <2>5, <2>6
<1> QED BY <1>1, <1>2, <1>3, <1>4, <1>5 DEF WorkerStep

LEMMA PoolNextKeepsInv == PoolInv /\ [PoolNext]_poolVars => PoolInv'
<1> SUFFICES ASSUME PoolInv, [PoolNext]_poolVars PROVE PoolInv'
  OBVIOUS
<1>1. Typed'
  BY PoolTyping DEF PoolInv, WeakNext
<1>2. CASE UNCHANGED poolVars
  BY <1>1, <1>2 DEF PoolInv, poolVars, OneOwner, NoSlotLeaked, OwnedIsLocked, ScanInv,
     SlotInv, PlacingInv, Holds, Busy
<1> QED BY <1>1, <1>2, CallerKeepsInv, WorkerKeepsInv DEF PoolNext

THEOREM PoolInvariant == PoolSpec => []PoolInv
  BY PoolInitInv, PoolNextKeepsInv, PTL DEF PoolSpec

\* A slot has one owner at a time and is locked exactly as long as it has one.
THEOREM SlotOwnership == PoolSpec => [](OneOwner /\ NoSlotLeaked /\ OwnedIsLocked)
  BY PoolInvariant, PTL DEF PoolInv

\* No wakeup is lost: whoever signals finds the thread waiting, with its task.
THEOREM NoLostWakeup == PoolSpec => []SignalIsHeard
<1>1. PoolInv => SignalIsHeard
  BY DEF PoolInv, PlacingInv, SignalIsHeard
<1> QED BY <1>1, PoolInvariant, PTL

-----------------------------------------------------------------------------
(* The pool implements TaskCache.                                          *)

\* A step of a caller is a call, an answer, or nothing to TaskCache.
LEMMA CallerImplements ==
    ASSUME PoolInv, NEW c \in Threads,
           CallerStep(c) \/ \E t \in Tasks : Assign(c, t)
    PROVE  [Cache!Next]_(Cache!vars)
<1> USE DEF PoolInv, Typed, PoolTypeOK, Goto, slotVars, AskedOf, WorkOf
<1> DEFINE SameAsked == \A d \in Threads : AskedOf(d)' = AskedOf(d)
           SameWork  == \A s \in Slots : WorkOf(s)' = WorkOf(s)
<1>1. SameAsked /\ SameWork /\ UNCHANGED answer => UNCHANGED Cache!vars
  BY DEF Cache!vars
<1>2. ASSUME NEW t \in Tasks, Assign(c, t)
      PROVE  Cache!Ask(c, t)
  BY <1>2 DEF Assign, MayCall, Cache!Ask, Cache!Idle, Cache!Request
<1>3. CASE SkipLocked(c) \/ LockSlot(c) \/ TakeIdle(c) \/ KeepFirst(c) \/ GiveBack(c)
  <2>1. SameWork
    BY <1>3 DEF SkipLocked, LockSlot, TakeIdle, KeepFirst, GiveBack
  <2>2. SameAsked /\ UNCHANGED answer
    BY <1>3 DEF SkipLocked, LockSlot, TakeIdle, KeepFirst, GiveBack
  <2> QED BY <1>1, <2>1, <2>2
<1>4. CASE Refuse(c)
  BY <1>4 DEF Refuse, Return, Cache!Next, Cache!Answer, Cache!Refuse, Cache!Idle
<1>5. CASE AllocateKept(c) \/ InitMutexAndCond(c) \/ CreateThread(c) \/ SpinUntilReady(c)
  <2>1. SameWork
    BY <1>5 DEF AllocateKept, InitMutexAndCond, CreateThread, SpinUntilReady, PlacingInv
  <2>2. SameAsked /\ UNCHANGED answer
    BY <1>5 DEF AllocateKept, InitMutexAndCond, CreateThread, SpinUntilReady
  <2> QED BY <1>1, <2>1, <2>2
<1>6. CASE Fill(c) \/ LockMutex(c) \/ UnlockMutex(c)
  <2>1. SameWork
    BY <1>6 DEF Fill, LockMutex, UnlockMutex, PlacingInv
  <2>2. SameAsked /\ UNCHANGED answer
    BY <1>6 DEF Fill, LockMutex, UnlockMutex
  <2> QED BY <1>1, <2>1, <2>2
<1>7. CASE Signal(c)
  <2>1. PICK s \in Slots : s = kept[c]
    BY <1>7 DEF Signal, ScanInv, Chosen
  <2>2. arg[c] \in Tasks /\ worker[s] = "wait" /\ task[s] = arg[c]
    BY <1>7, <2>1 DEF Signal, ScanInv, PlacingInv, Chosen
  <2>3. AskedOf(c) = Cache!Request(arg[c]) /\ WorkOf(s) = Cache!Idle
    BY <1>7, <2>2 DEF Signal, Cache!Request, Cache!Idle
  <2>4. /\ AskedOf(c)' = Cache!Idle
        /\ \A d \in Threads \ {c} : AskedOf(d)' = AskedOf(d)
    BY <1>7 DEF Signal, Return, Cache!Idle
  <2>5. /\ WorkOf(s)' = Cache!Accepted(arg[c])
        /\ \A r \in Slots \ {s} : WorkOf(r)' = WorkOf(r)
    BY <1>7, <2>1, <2>2 DEF Signal, Cache!Accepted
  <2>6. answer' = [answer EXCEPT ![c] = TRUE]
    BY <1>7 DEF Signal, Return
  <2>7. Cache!Accept(c, s)
    <3> HIDE DEF AskedOf, WorkOf
    <3> QED BY <2>2, <2>3, <2>4, <2>5, <2>6 DEF Cache!Accept
  <2>8. Cache!Answer(c)
    BY <2>7 DEF Cache!Answer
  <2> QED BY <2>8 DEF Cache!Next
<1> QED BY <1>2, <1>3, <1>4, <1>5, <1>6, <1>7 DEF CallerStep, Cache!Next

\* A step of a cached thread is the start or the end of a task, or nothing.
LEMMA WorkerImplements ==
    ASSUME PoolInv, NEW s \in Slots, WorkerStep(s) \/ TaskReturns(s)
    PROVE  [Cache!Next]_(Cache!vars)
<1> USE DEF PoolInv, Typed, PoolTypeOK, callerVars, AskedOf, WorkOf
<1>1. CASE WorkerStart(s) \/ WorkerWait(s) \/ UnlockSlot(s)
  <2>1. \A r \in Slots : WorkOf(r)' = WorkOf(r)
    BY <1>1 DEF WorkerStart, WorkerWait, UnlockSlot
  <2>2. UNCHANGED answer /\ \A d \in Threads : AskedOf(d)' = AskedOf(d)
    BY <1>1 DEF WorkerStart, WorkerWait, UnlockSlot
  <2> QED BY <2>1, <2>2 DEF Cache!vars
<1>2. CASE WorkerWake(s)
  <2>1. task[s] \in Tasks
    BY <1>2 DEF WorkerWake, SlotInv, Busy
  <2>2. Cache!Start(s)
    BY <1>2, <2>1, PoolAssumption DEF WorkerWake, Cache!Start, Cache!Accepted, Cache!Running
  <2> QED BY <2>2 DEF Cache!Next
<1>3. CASE TaskReturns(s)
  <2>1. task[s] \in Tasks
    BY <1>3 DEF TaskReturns, SlotInv, Busy
  <2>2. Cache!Finish(s)
    BY <1>3, <2>1 DEF TaskReturns, Cache!Finish, Cache!Running, Cache!Idle
  <2> QED BY <2>2 DEF Cache!Next
<1> QED BY <1>1, <1>2, <1>3 DEF WorkerStep

\* With a well-behaved system a cached thread runs what it was called for, once
\* per accepted call, and nothing else.
THEOREM PoolImplementsCache == PoolSpec => RunsWhatItIsCalledFor
<1>1. PoolInit => Cache!Init
  BY DEF PoolInit, AskedOf, WorkOf, Cache!Init, Cache!Idle
<1>2. PoolInv /\ [PoolNext]_poolVars => [Cache!Next]_(Cache!vars)
  <2> SUFFICES ASSUME PoolInv, [PoolNext]_poolVars PROVE [Cache!Next]_(Cache!vars)
    OBVIOUS
  <2>1. CASE UNCHANGED poolVars
    BY <2>1 DEF poolVars, AskedOf, WorkOf, Cache!vars
  <2> QED BY <2>1, CallerImplements, WorkerImplements DEF PoolNext
<1> QED BY <1>1, <1>2, PoolInvariant, PTL DEF PoolSpec, RunsWhatItIsCalledFor, Cache!SafeSpec

-----------------------------------------------------------------------------
(***************************************************************************)
(* What is left of the thread cache when pthread_cond_wait returns for     *)
(* nothing and mutexes and threads cannot always be made: tasks are lost   *)
(* and a slot may have two owners, but no slot stays locked with nobody to *)
(* unlock it.                                                              *)
(***************************************************************************)

\* c has locked s, which has no thread yet, to allocate it.
Early(c, s) ==
    \/ pc[c] = "got" /\ pos[c] = s /\ ~allocated[s]
    \/ pc[c] \in {"scan", "got", "alloc", "create"} /\ kept[c] = s

\* Whoever allocates a slot is alone with it, and finds it as reset.
EarlyInv ==
    \A c \in Threads, s \in Slots : Early(c, s) =>
        /\ locked[s] /\ worker[s] = "none"
        /\ \A d \in Threads : Early(d, s) => d = c
        /\ pc[c] = "got" /\ pos[c] = s => kept[c] # s
        /\ IF pc[c] = "create" THEN allocated[s] /\ mutex[s] # NoMutex ELSE ~allocated[s]

\* The thread of a slot and its mutex.
WorkerInv ==
    \A s \in Slots :
        /\ ~allocated[s] => worker[s] = "none"
        /\ allocated[s] /\ ~locked[s] => worker[s] \notin {"none", "start"}
        /\ ready[s] => worker[s] \notin {"none", "start"}
        /\ worker[s] # "none" => mutex[s] # NoMutex
        /\ worker[s] \in {"loop", "run", "ret"} => mutex[s] = s

\* A caller that finds a slot allocated finds its thread; a cached thread calls
\* from within its task, and cannot get past the mutex of its own slot.
CallInv ==
    \A c \in Threads :
        /\ pc[c] = "got" /\ allocated[pos[c]] => worker[pos[c]] \notin {"none", "start"}
        /\ c # Main /\ pc[c] # "idle" => worker[c] = "run"
        /\ pc[c] = "unlock" => kept[c] # c
        /\ pc[c] = "idle" => kept[c] = NoSlot
        /\ pc[c] \notin {"idle", "scan", "got"} => kept[c] \in Slots

\* c has locked s, and will either wake its thread or unlock it.
Answers(c, s) ==
    /\ Holds(c, s)
    /\ pc[c] \in {"fill", "lock"} => worker[s] \notin {"none", "start"}
    /\ pc[c] \in {"unlock", "signal"} => worker[s] = "wait"

LeakInv == \A s \in Slots : locked[s] => Busy(s) \/ \E c \in Threads : Answers(c, s)

WeakInv == Typed /\ EarlyInv /\ WorkerInv /\ CallInv /\ LeakInv

LEMMA WeakInitInv == PoolInit => WeakInv
<1> SUFFICES ASSUME PoolInit PROVE WeakInv
  OBVIOUS
<1> QED
  BY PoolInitTyped, PoolAssumption DEF PoolInit, WeakInv, EarlyInv, Early, WorkerInv, CallInv,
     LeakInv, Slots, Threads, Main, NoSlot

\* A step of a caller keeps the invariant.
LEMMA CallerKeepsWeakInv ==
    ASSUME WeakInv, Typed', NEW c \in Threads,
           CallerStep(c) \/ AllocationFails(c) \/ \E t \in Tasks : Assign(c, t)
    PROVE  WeakInv'
<1> USE PoolAssumption DEF WeakInv, Typed, PoolTypeOK, Goto, NoSlot, Free, NoMutex, Main,
        slotVars, callerVars, Slots, Threads
<1>1. CASE \E t \in Tasks : Assign(c, t)
  <2>1. EarlyInv'
    BY <1>1 DEF EarlyInv, Early, WorkerInv, CallInv, Assign, MayCall
  <2>2. WorkerInv'
    BY <1>1 DEF EarlyInv, Early, WorkerInv, CallInv, Assign, MayCall
  <2>3. CallInv'
    BY <1>1 DEF EarlyInv, Early, WorkerInv, CallInv, Assign, MayCall
  <2>4. LeakInv'
    <3> SUFFICES ASSUME NEW s \in Slots, locked'[s], ~Busy(s)'
                 PROVE  \E d \in Threads : Answers(d, s)'
      BY DEF LeakInv
    <3>1. PICK d \in Threads : Answers(d, s)
      BY <1>1 DEF LeakInv, Busy, Assign, MayCall
    <3> QED BY <1>1, <3>1 DEF Answers, Holds, Busy, EarlyInv, Early, WorkerInv, WorkerPCs, CallInv, Assign, MayCall
  <2> QED BY <2>1, <2>2, <2>3, <2>4
<1>2. CASE SkipLocked(c)
  <2>1. EarlyInv'
    BY <1>2 DEF EarlyInv, Early, WorkerInv, CallInv, SkipLocked
  <2>2. WorkerInv'
    BY <1>2 DEF EarlyInv, Early, WorkerInv, CallInv, SkipLocked
  <2>3. CallInv'
    BY <1>2 DEF EarlyInv, Early, WorkerInv, CallInv, SkipLocked
  <2>4. LeakInv'
    <3> SUFFICES ASSUME NEW s \in Slots, locked'[s], ~Busy(s)'
                 PROVE  \E d \in Threads : Answers(d, s)'
      BY DEF LeakInv
    <3>1. PICK d \in Threads : Answers(d, s)
      BY <1>2 DEF LeakInv, Busy, SkipLocked
    <3> QED BY <1>2, <3>1 DEF Answers, Holds, Busy, EarlyInv, Early, WorkerInv, WorkerPCs, CallInv, SkipLocked
  <2> QED BY <2>1, <2>2, <2>3, <2>4
<1>3. CASE LockSlot(c)
  <2>1. EarlyInv'
    BY <1>3 DEF EarlyInv, Early, WorkerInv, CallInv, LockSlot
  <2>2. WorkerInv'
    BY <1>3 DEF EarlyInv, Early, WorkerInv, CallInv, LockSlot
  <2>3. CallInv'
    BY <1>3 DEF EarlyInv, Early, WorkerInv, CallInv, LockSlot
  <2>4. LeakInv'
    <3> SUFFICES ASSUME NEW s \in Slots, locked'[s], ~Busy(s)'
                 PROVE  \E d \in Threads : Answers(d, s)'
      BY DEF LeakInv
    <3>1. CASE s = pos[c]
      BY <1>3, <3>1 DEF Answers, Holds, LockSlot
    <3>2. CASE s # pos[c]
      <4>1. PICK d \in Threads : Answers(d, s)
        BY <1>3, <3>2 DEF LeakInv, Busy, LockSlot
      <4> QED BY <1>3, <3>2, <4>1 DEF Answers, Holds, LockSlot
    <3> QED BY <3>1, <3>2
  <2> QED BY <2>1, <2>2, <2>3, <2>4
<1>4. CASE TakeIdle(c)
  <2>1. EarlyInv'
    BY <1>4 DEF EarlyInv, Early, WorkerInv, CallInv, TakeIdle
  <2>2. WorkerInv'
    BY <1>4 DEF EarlyInv, Early, WorkerInv, CallInv, TakeIdle
  <2>3. CallInv'
    BY <1>4 DEF EarlyInv, Early, WorkerInv, CallInv, TakeIdle
  <2>4. LeakInv'
    <3> SUFFICES ASSUME NEW s \in Slots, locked'[s], ~Busy(s)'
                 PROVE  \E d \in Threads : Answers(d, s)'
      BY DEF LeakInv
    <3>1. CASE s = pos[c]
      BY <1>4, <3>1 DEF CallInv, Answers, Holds, TakeIdle
    <3>2. CASE s # pos[c]
      <4>1. PICK d \in Threads : Answers(d, s)
        BY <1>4, <3>2 DEF LeakInv, Busy, TakeIdle
      <4> QED BY <1>4, <3>2, <4>1 DEF Answers, Holds, TakeIdle
    <3> QED BY <3>1, <3>2
  <2> QED BY <2>1, <2>2, <2>3, <2>4
<1>5. CASE KeepFirst(c)
  <2>1. EarlyInv'
    BY <1>5 DEF EarlyInv, Early, WorkerInv, CallInv, KeepFirst
  <2>2. WorkerInv'
    BY <1>5 DEF EarlyInv, Early, WorkerInv, CallInv, KeepFirst
  <2>3. CallInv'
    BY <1>5 DEF EarlyInv, Early, WorkerInv, CallInv, KeepFirst
  <2>4. LeakInv'
    <3> SUFFICES ASSUME NEW s \in Slots, locked'[s], ~Busy(s)'
                 PROVE  \E d \in Threads : Answers(d, s)'
      BY DEF LeakInv
    <3>1. PICK d \in Threads : Answers(d, s)
      BY <1>5 DEF LeakInv, Busy, KeepFirst
    <3> QED BY <1>5, <3>1 DEF Answers, Holds, Busy, EarlyInv, Early, WorkerInv, WorkerPCs, CallInv, KeepFirst
  <2> QED BY <2>1, <2>2, <2>3, <2>4
<1>6. CASE GiveBack(c)
  <2>1. EarlyInv'
    <3>1. Early(c, pos[c]) /\ pos[c] # kept[c] /\ pos[c] \in Slots
      BY <1>6 DEF EarlyInv, Early, Looking, GiveBack
    <3>2. \A d \in Threads, s \in Slots : Early(d, s)' => Early(d, s) /\ s # pos[c]
      BY <1>6, <3>1 DEF EarlyInv, Early, GiveBack
    <3> QED BY <1>6, <3>1, <3>2 DEF EarlyInv, Early, GiveBack
  <2>2. WorkerInv'
    BY <1>6 DEF EarlyInv, Early, WorkerInv, CallInv, GiveBack
  <2>3. CallInv'
    BY <1>6 DEF EarlyInv, Early, WorkerInv, CallInv, GiveBack
  <2>4. LeakInv'
    <3> SUFFICES ASSUME NEW s \in Slots, locked'[s], ~Busy(s)'
                 PROVE  \E d \in Threads : Answers(d, s)'
      BY DEF LeakInv
    <3>1. PICK d \in Threads : Answers(d, s)
      BY <1>6 DEF LeakInv, Busy, GiveBack
    <3> QED BY <1>6, <3>1 DEF Answers, Holds, Busy, EarlyInv, Early, WorkerInv, WorkerPCs, CallInv, GiveBack
  <2> QED BY <2>1, <2>2, <2>3, <2>4
<1>7. CASE Refuse(c)
  <2>1. EarlyInv'
    BY <1>7 DEF EarlyInv, Early, WorkerInv, CallInv, Refuse, Return
  <2>2. WorkerInv'
    BY <1>7 DEF EarlyInv, Early, WorkerInv, CallInv, Refuse, Return
  <2>3. CallInv'
    BY <1>7 DEF EarlyInv, Early, WorkerInv, CallInv, Refuse, Return
  <2>4. LeakInv'
    <3> SUFFICES ASSUME NEW s \in Slots, locked'[s], ~Busy(s)'
                 PROVE  \E d \in Threads : Answers(d, s)'
      BY DEF LeakInv
    <3>1. PICK d \in Threads : Answers(d, s)
      BY <1>7 DEF LeakInv, Busy, Refuse, Return
    <3> QED BY <1>7, <3>1 DEF Answers, Holds, Busy, EarlyInv, Early, WorkerInv, WorkerPCs, CallInv, Refuse, Return
  <2> QED BY <2>1, <2>2, <2>3, <2>4
<1>8. CASE AllocateKept(c)
  <2>1. EarlyInv'
    BY <1>8 DEF EarlyInv, Early, WorkerInv, CallInv, AllocateKept
  <2>2. WorkerInv'
    BY <1>8 DEF EarlyInv, Early, WorkerInv, CallInv, AllocateKept
  <2>3. CallInv'
    BY <1>8 DEF EarlyInv, Early, WorkerInv, CallInv, AllocateKept
  <2>4. LeakInv'
    <3> SUFFICES ASSUME NEW s \in Slots, locked'[s], ~Busy(s)'
                 PROVE  \E d \in Threads : Answers(d, s)'
      BY DEF LeakInv
    <3>1. PICK d \in Threads : Answers(d, s)
      BY <1>8 DEF LeakInv, Busy, AllocateKept
    <3> QED BY <1>8, <3>1 DEF Answers, Holds, Busy, EarlyInv, Early, WorkerInv, WorkerPCs, CallInv, AllocateKept
  <2> QED BY <2>1, <2>2, <2>3, <2>4
<1>9. CASE InitMutexAndCond(c)
  <2>1. EarlyInv'
    BY <1>9 DEF EarlyInv, Early, WorkerInv, CallInv, InitMutexAndCond
  <2>2. WorkerInv'
    BY <1>9 DEF EarlyInv, Early, WorkerInv, CallInv, InitMutexAndCond
  <2>3. CallInv'
    BY <1>9 DEF EarlyInv, Early, WorkerInv, CallInv, InitMutexAndCond
  <2>4. LeakInv'
    <3> SUFFICES ASSUME NEW s \in Slots, locked'[s], ~Busy(s)'
                 PROVE  \E d \in Threads : Answers(d, s)'
      BY DEF LeakInv
    <3>1. PICK d \in Threads : Answers(d, s)
      BY <1>9 DEF LeakInv, Busy, InitMutexAndCond
    <3> QED BY <1>9, <3>1 DEF Answers, Holds, Busy, EarlyInv, Early, WorkerInv, WorkerPCs, CallInv, InitMutexAndCond
  <2> QED BY <2>1, <2>2, <2>3, <2>4
<1>10. CASE CreateThread(c)
  <2>1. EarlyInv'
    BY <1>10 DEF EarlyInv, Early, WorkerInv, CallInv, CreateThread
  <2>2. WorkerInv'
    BY <1>10 DEF EarlyInv, Early, WorkerInv, CallInv, CreateThread
  <2>3. CallInv'
    BY <1>10 DEF EarlyInv, Early, WorkerInv, CallInv, CreateThread
  <2>4. LeakInv'
    <3> SUFFICES ASSUME NEW s \in Slots, locked'[s], ~Busy(s)'
                 PROVE  \E d \in Threads : Answers(d, s)'
      BY DEF LeakInv
    <3>1. CASE s = kept[c]
      BY <1>10, <3>1 DEF Answers, Holds, CreateThread
    <3>2. CASE s # kept[c]
      <4>1. PICK d \in Threads : Answers(d, s)
        BY <1>10, <3>2 DEF LeakInv, Busy, CreateThread
      <4> QED BY <1>10, <3>2, <4>1 DEF Answers, Holds, CreateThread
    <3> QED BY <3>1, <3>2
  <2> QED BY <2>1, <2>2, <2>3, <2>4
<1>11. CASE SpinUntilReady(c)
  <2>1. EarlyInv'
    BY <1>11 DEF EarlyInv, Early, WorkerInv, CallInv, SpinUntilReady
  <2>2. WorkerInv'
    BY <1>11 DEF EarlyInv, Early, WorkerInv, CallInv, SpinUntilReady
  <2>3. CallInv'
    BY <1>11 DEF EarlyInv, Early, WorkerInv, CallInv, SpinUntilReady
  <2>4. LeakInv'
    <3> SUFFICES ASSUME NEW s \in Slots, locked'[s], ~Busy(s)'
                 PROVE  \E d \in Threads : Answers(d, s)'
      BY DEF LeakInv
    <3>1. PICK d \in Threads : Answers(d, s)
      BY <1>11 DEF LeakInv, Busy, SpinUntilReady
    <3> QED BY <1>11, <3>1 DEF Answers, Holds, Busy, EarlyInv, Early, WorkerInv, WorkerPCs, CallInv, SpinUntilReady
  <2> QED BY <2>1, <2>2, <2>3, <2>4
<1>12. CASE Fill(c)
  <2>1. EarlyInv'
    BY <1>12 DEF EarlyInv, Early, WorkerInv, CallInv, Fill
  <2>2. WorkerInv'
    BY <1>12 DEF EarlyInv, Early, WorkerInv, CallInv, Fill
  <2>3. CallInv'
    BY <1>12 DEF EarlyInv, Early, WorkerInv, CallInv, Fill
  <2>4. LeakInv'
    <3> SUFFICES ASSUME NEW s \in Slots, locked'[s], ~Busy(s)'
                 PROVE  \E d \in Threads : Answers(d, s)'
      BY DEF LeakInv
    <3>1. PICK d \in Threads : Answers(d, s)
      BY <1>12 DEF LeakInv, Busy, Fill
    <3> QED BY <1>12, <3>1 DEF Answers, Holds, Busy, EarlyInv, Early, WorkerInv, WorkerPCs, CallInv, Fill
  <2> QED BY <2>1, <2>2, <2>3, <2>4
<1>13. CASE LockMutex(c)
  <2>1. EarlyInv'
    BY <1>13 DEF EarlyInv, Early, WorkerInv, CallInv, LockMutex
  <2>2. WorkerInv'
    BY <1>13 DEF EarlyInv, Early, WorkerInv, CallInv, LockMutex
  <2>3. CallInv'
    BY <1>13 DEF EarlyInv, Early, WorkerInv, CallInv, LockMutex
  <2>4. LeakInv'
    <3> SUFFICES ASSUME NEW s \in Slots, locked'[s], ~Busy(s)'
                 PROVE  \E d \in Threads : Answers(d, s)'
      BY DEF LeakInv
    <3>1. PICK d \in Threads : Answers(d, s)
      BY <1>13 DEF LeakInv, Busy, LockMutex
    <3> QED BY <1>13, <3>1 DEF Answers, Holds, Busy, EarlyInv, Early, WorkerInv, WorkerPCs, CallInv, LockMutex
  <2> QED BY <2>1, <2>2, <2>3, <2>4
<1>14. CASE UnlockMutex(c)
  <2>1. EarlyInv'
    BY <1>14 DEF EarlyInv, Early, WorkerInv, CallInv, UnlockMutex
  <2>2. WorkerInv'
    BY <1>14 DEF EarlyInv, Early, WorkerInv, CallInv, UnlockMutex
  <2>3. CallInv'
    BY <1>14 DEF EarlyInv, Early, WorkerInv, CallInv, UnlockMutex
  <2>4. LeakInv'
    <3> SUFFICES ASSUME NEW s \in Slots, locked'[s], ~Busy(s)'
                 PROVE  \E d \in Threads : Answers(d, s)'
      BY DEF LeakInv
    <3>1. PICK d \in Threads : Answers(d, s)
      BY <1>14 DEF LeakInv, Busy, UnlockMutex
    <3> QED BY <1>14, <3>1 DEF Answers, Holds, Busy, EarlyInv, Early, WorkerInv, WorkerPCs, CallInv, UnlockMutex
  <2> QED BY <2>1, <2>2, <2>3, <2>4
<1>15. CASE Signal(c)
  <2>1. EarlyInv'
    BY <1>15 DEF EarlyInv, Early, WorkerInv, CallInv, Signal, Return
  <2>2. WorkerInv'
    BY <1>15 DEF EarlyInv, Early, WorkerInv, CallInv, Signal, Return
  <2>3. CallInv'
    BY <1>15 DEF EarlyInv, Early, WorkerInv, CallInv, Signal, Return
  <2>4. LeakInv'
    <3> SUFFICES ASSUME NEW s \in Slots, locked'[s], ~Busy(s)'
                 PROVE  \E d \in Threads : Answers(d, s)'
      BY DEF LeakInv
    <3>1. PICK d \in Threads : Answers(d, s)
      BY <1>15 DEF LeakInv, Busy, Signal, Return
    <3> QED BY <1>15, <3>1 DEF Answers, Holds, Busy, EarlyInv, Early, WorkerInv, WorkerPCs, CallInv, Signal, Return
  <2> QED BY <2>1, <2>2, <2>3, <2>4
<1>16. CASE InitFails(c)
  <2>1. EarlyInv'
    BY <1>16 DEF EarlyInv, Early, WorkerInv, CallInv, InitFails, ResetSlot
  <2>2. WorkerInv'
    BY <1>16 DEF EarlyInv, Early, WorkerInv, CallInv, InitFails, ResetSlot
  <2>3. CallInv'
    BY <1>16 DEF EarlyInv, Early, WorkerInv, CallInv, InitFails, ResetSlot
  <2>4. LeakInv'
    <3> SUFFICES ASSUME NEW s \in Slots, locked'[s], ~Busy(s)'
                 PROVE  \E d \in Threads : Answers(d, s)'
      BY DEF LeakInv
    <3>1. PICK d \in Threads : Answers(d, s)
      BY <1>16 DEF LeakInv, Busy, InitFails, ResetSlot
    <3> QED BY <1>16, <3>1 DEF Answers, Holds, Busy, EarlyInv, Early, WorkerInv, WorkerPCs, CallInv, InitFails, ResetSlot
  <2> QED BY <2>1, <2>2, <2>3, <2>4
<1>17. CASE CreateFails(c)
  <2>1. EarlyInv'
    <3>1. Early(c, kept[c]) /\ kept[c] \in Slots
      BY <1>17 DEF Early, CallInv, CreateFails
    <3>2. \A d \in Threads, s \in Slots : Early(d, s)' => Early(d, s) /\ s # kept[c]
      BY <1>17, <3>1 DEF EarlyInv, Early, CallInv, CreateFails, ResetSlot
    <3>3. ASSUME NEW d \in Threads, NEW s \in Slots, Early(d, s)'
          PROVE  /\ locked'[s] /\ worker'[s] = "none"
                 /\ pc'[d] = "got" /\ pos'[d] = s => kept'[d] # s
                 /\ IF pc'[d] = "create" THEN allocated'[s] /\ mutex'[s] # NoMutex
                    ELSE ~allocated'[s]
      <4>1. Early(d, s) /\ s # kept[c]
        BY <3>2, <3>3
      <4>2. d # c
        BY <1>17, <4>1 DEF Early, CreateFails
      <4>3. /\ locked'[s] = locked[s] /\ worker'[s] = worker[s]
            /\ allocated'[s] = allocated[s] /\ mutex'[s] = mutex[s]
            /\ pc'[d] = pc[d] /\ pos'[d] = pos[d] /\ kept'[d] = kept[d]
        BY <1>17, <3>1, <4>1, <4>2 DEF CreateFails, ResetSlot
      <4> QED BY <4>1, <4>3 DEF EarlyInv
    <3>4. \A d, e \in Threads, s \in Slots : Early(d, s)' /\ Early(e, s)' => d = e
      BY <3>2 DEF EarlyInv
    <3> QED BY <3>3, <3>4 DEF EarlyInv
  <2>2. WorkerInv'
    BY <1>17 DEF EarlyInv, Early, WorkerInv, CallInv, CreateFails, ResetSlot
  <2>3. CallInv'
    BY <1>17 DEF EarlyInv, Early, WorkerInv, CallInv, CreateFails, ResetSlot
  <2>4. LeakInv'
    <3> SUFFICES ASSUME NEW s \in Slots, locked'[s], ~Busy(s)'
                 PROVE  \E d \in Threads : Answers(d, s)'
      BY DEF LeakInv
    <3>1. PICK d \in Threads : Answers(d, s)
      BY <1>17 DEF LeakInv, Busy, CreateFails, ResetSlot
    <3> QED BY <1>17, <3>1 DEF Answers, Holds, Busy, EarlyInv, Early, WorkerInv, WorkerPCs, CallInv, CreateFails, ResetSlot
  <2> QED BY <2>1, <2>2, <2>3, <2>4
<1>18. CASE LockNoMutex(c)
  <2>1. EarlyInv'
    <3>1. \A d \in Threads, s \in Slots : Early(d, s)' <=> Early(d, s)
      BY <1>18 DEF Early, LockNoMutex
    <3> QED BY <1>18, <3>1 DEF EarlyInv, Early, LockNoMutex
  <2>2. WorkerInv'
    BY <1>18 DEF EarlyInv, Early, WorkerInv, CallInv, LockNoMutex
  <2>3. CallInv'
    BY <1>18 DEF EarlyInv, Early, WorkerInv, CallInv, LockNoMutex
  <2>4. LeakInv'
    <3> SUFFICES ASSUME NEW s \in Slots, locked'[s], ~Busy(s)'
                 PROVE  \E d \in Threads : Answers(d, s)'
      BY DEF LeakInv
    <3>1. PICK d \in Threads : Answers(d, s)
      BY <1>18 DEF LeakInv, Busy, LockNoMutex
    <3> QED BY <1>18, <3>1 DEF Answers, Holds, Busy, EarlyInv, Early, WorkerInv, WorkerPCs, CallInv, LockNoMutex
  <2> QED BY <2>1, <2>2, <2>3, <2>4
<1> QED BY <1>1, <1>2, <1>3, <1>4, <1>5, <1>6, <1>7, <1>8, <1>9,
     <1>10, <1>11, <1>12, <1>13, <1>14, <1>15, <1>16, <1>17, <1>18 DEF CallerStep, AllocationFails

\* A step of a cached thread keeps it.
LEMMA WorkerKeepsWeakInv ==
    ASSUME WeakInv, Typed', NEW s \in Slots,
           WorkerStep(s) \/ TaskReturns(s) \/ SpuriousWakeup(s)
    PROVE  WeakInv'
<1> USE PoolAssumption DEF WeakInv, Typed, PoolTypeOK, NoSlot, Free, NoMutex, Main,
        slotVars, callerVars, Slots, Threads
<1>1. CASE WorkerStart(s)
  <2>1. EarlyInv' /\ WorkerInv' /\ CallInv'
    BY <1>1 DEF EarlyInv, Early, WorkerInv, CallInv, WorkerStart
  <2>2. LeakInv'
    <3> SUFFICES ASSUME NEW x \in Slots, locked'[x], ~Busy(x)'
                 PROVE  \E d \in Threads : Answers(d, x)'
      BY DEF LeakInv
    <3>1. PICK d \in Threads : Answers(d, x)
      BY <1>1 DEF LeakInv, Busy, WorkerStart
    <3> QED BY <1>1, <3>1 DEF Answers, Holds, Busy, WorkerPCs, WorkerStart
  <2> QED BY <2>1, <2>2
<1>2. CASE WorkerWait(s)
  <2>1. EarlyInv' /\ WorkerInv' /\ CallInv'
    BY <1>2 DEF EarlyInv, Early, WorkerInv, CallInv, WorkerWait
  <2>2. LeakInv'
    BY <1>2 DEF WorkerInv, CallInv, LeakInv, Answers, Holds, Busy, WorkerPCs, WorkerWait
  <2> QED BY <2>1, <2>2
<1>3. CASE WorkerWake(s)
  <2>1. EarlyInv' /\ WorkerInv' /\ CallInv'
    BY <1>3 DEF EarlyInv, Early, WorkerInv, CallInv, WorkerWake
  <2>2. LeakInv'
    BY <1>3 DEF WorkerInv, CallInv, LeakInv, Answers, Holds, Busy, WorkerPCs, WorkerWake
  <2> QED BY <2>1, <2>2
<1>4. CASE UnlockSlot(s)
  <2>1. EarlyInv' /\ WorkerInv' /\ CallInv'
    BY <1>4 DEF EarlyInv, Early, WorkerInv, CallInv, UnlockSlot
  <2>2. LeakInv'
    BY <1>4 DEF WorkerInv, CallInv, LeakInv, Answers, Holds, Busy, WorkerPCs, UnlockSlot
  <2> QED BY <2>1, <2>2
<1>5. CASE TaskReturns(s)
  <2>1. EarlyInv' /\ WorkerInv' /\ CallInv'
    BY <1>5 DEF EarlyInv, Early, WorkerInv, CallInv, TaskReturns
  <2>2. LeakInv'
    BY <1>5 DEF WorkerInv, CallInv, LeakInv, Answers, Holds, Busy, WorkerPCs, TaskReturns
  <2> QED BY <2>1, <2>2
<1>6. CASE SpuriousWakeup(s)
  <2>1. EarlyInv' /\ WorkerInv' /\ CallInv'
    BY <1>6 DEF EarlyInv, Early, WorkerInv, CallInv, SpuriousWakeup
  <2>2. LeakInv'
    <3> SUFFICES ASSUME NEW x \in Slots, locked'[x], ~Busy(x)'
                 PROVE  \E d \in Threads : Answers(d, x)'
      BY DEF LeakInv
    <3>1. PICK d \in Threads : Answers(d, x)
      BY <1>6 DEF LeakInv, Busy, SpuriousWakeup
    <3> QED BY <1>6, <3>1 DEF Answers, Holds, Busy, WorkerPCs, SpuriousWakeup
  <2> QED BY <2>1, <2>2
<1> QED BY <1>1, <1>2, <1>3, <1>4, <1>5, <1>6 DEF WorkerStep

LEMMA WeakNextKeepsInv == WeakInv /\ [WeakNext]_poolVars => WeakInv'
<1> SUFFICES ASSUME WeakInv, [WeakNext]_poolVars PROVE WeakInv'
  OBVIOUS
<1>1. Typed'
  BY PoolTyping DEF WeakInv
<1>2. CASE UNCHANGED poolVars
  BY <1>1, <1>2 DEF WeakInv, EarlyInv, Early, WorkerInv, CallInv, LeakInv, Answers, Holds, Busy,
     poolVars, slotVars, callerVars
<1> QED BY <1>1, <1>2, CallerKeepsWeakInv, WorkerKeepsWeakInv DEF WeakNext, PoolNext

\* Spurious wakeups and failing allocations, which let a task be lost and a slot
\* have two owners, never leave a slot locked with nobody to unlock it.
THEOREM WeakNeverLeaks == WeakSpec => []NoSlotLeaked
<1>1. WeakInv => NoSlotLeaked
  BY DEF WeakInv, LeakInv, Answers, NoSlotLeaked
<1> QED BY <1>1, WeakInitInv, WeakNextKeepsInv, PTL DEF WeakSpec

\* The fields keep their types on such a system too.
THEOREM WeakTypeCorrect == WeakSpec => []PoolTypeOK
  BY PoolTyping, PoolInitTyped, PTL DEF WeakSpec, Typed

-----------------------------------------------------------------------------
(* The servers: the inductive invariant.                                   *)

Accepting == {"bind", "setbound", "create", "accept", "delegate"}

\* Where a thread is in server_entry agrees with where it is in the pool.
StageInv ==
    /\ stage[Main] \in {"off", "delegating"}
    /\ stage[Main] = "delegating" => srv[Main] \in Servers \ (toStart \cup started)
    /\ started \cap toStart = {}
    /\ \A c \in Threads : pc[c] # "idle" => stage[c] = "delegating" /\ arg[c] = srv[c]
    /\ \A s \in Slots :
        /\ stage[s] # "off" <=> worker[s] = "run"
        /\ stage[s] \notin {"off", "entry"} => srv[s] = task[s]

\* Servers that main() has not come to have nobody, the others at most one.
DutyInv ==
    /\ \A v \in toStart, c \in Threads : ~Responsible(c, v)
    /\ NobodyElseAccepts

\* A server whose first task was accepted, even if main() does not know yet.
Wanted(v) ==
    \/ v \in started
    \/ stage[Main] = "delegating" /\ srv[Main] = v /\ pc[Main] = "idle" /\ answer[Main]

AcceptInv == \A v \in Modular : Wanted(v) => \E c \in Threads : Responsible(c, v)

ServerInv == PoolInv /\ ServerTypeOK /\ StageInv /\ DutyInv /\ AcceptInv

-----------------------------------------------------------------------------
(* What a step of the servers is to the pool.                              *)

LEMMA Ids == Threads = Slots \cup {Main} /\ Main \notin Slots
  BY PoolAssumption DEF Slots, Threads, Main

\* A session that goes on runs the task of its slot, which is a server.
LEMMA SessionServer ==
    ASSUME PoolInv, StageInv, NEW s \in Slots, stage[s] # "off"
    PROVE  task[s] \in Servers /\ (stage[s] # "entry" => srv[s] = task[s])
  BY DEF PoolInv, SlotInv, StageInv, Busy, Servers

\* The steps of a session that are none of the pool's.
SessionOnly(s) ==
    \/ BeginSession(s) \/ TestBound(s) \/ SetBound(s) \/ CreateListening(s)
    \/ AcceptClient(s) \/ AcceptFails(s) \/ Delegated(s)
    \/ TestDone(s) \/ ReadRequest(s) \/ ReadFails(s) \/ ReadNothing(s)
    \/ KeepConnection(s) \/ EndConnection(s) \/ ReleaseSession(s)

LEMMA SessionLeavesPool == ASSUME NEW s \in Slots, SessionOnly(s) PROVE UNCHANGED poolVars
  BY DEF SessionOnly, BeginSession, TestBound, SetBound, CreateListening, AcceptClient,
     AcceptFails, Delegated, TestDone, ReadRequest, ReadFails, ReadNothing, KeepConnection,
     EndConnection, ReleaseSession, vars

\* Every step is one of the pool or leaves the pool alone.
LEMMA StepIsPoolStep == PoolInv /\ StageInv /\ [Next]_vars => [PoolNext]_poolVars
<1> SUFFICES ASSUME PoolInv, StageInv, [Next]_vars PROVE [PoolNext]_poolVars
  OBVIOUS
<1>1. CASE UNCHANGED vars
  BY <1>1 DEF vars
<1>2. CASE PoolStep
  BY <1>2 DEF PoolStep, PoolNext, WorkerStep
<1>3. CASE MainStep
  BY <1>3, Ids DEF MainStep, RunReturns, RunServer, PoolNext, Servers
<1>4. ASSUME NEW s \in Slots, SessionStep(s) PROVE [PoolNext]_poolVars
  <2>1. CASE SessionOnly(s)
    BY <2>1, SessionLeavesPool
  <2>2. CASE StartTask(s)
    BY <2>2 DEF StartTask, PoolNext, WorkerStep
  <2>3. CASE Delegate(s)
    BY <2>3, Ids, SessionServer DEF Delegate, PoolNext, Servers
  <2>4. CASE EndTask(s)
    BY <2>4 DEF EndTask, PoolNext
  <2> QED BY <1>4, <2>1, <2>2, <2>3, <2>4 DEF SessionStep, SessionOnly
<1>5. CASE \E v \in Servers : Connect(v)
  BY <1>5 DEF Connect
<1>6. CASE \E s \in Slots : PeerCloses(s)
  BY <1>6 DEF PeerCloses
<1> QED BY <1>1, <1>2, <1>3, <1>4, <1>5, <1>6 DEF Next, PoliteNext

-----------------------------------------------------------------------------
(* Types.                                                                  *)

LEMMA ServerTyping == PoolInv /\ ServerTypeOK /\ StageInv /\ [Next]_vars => ServerTypeOK'
<1> SUFFICES ASSUME PoolInv, ServerTypeOK, StageInv, [Next]_vars PROVE ServerTypeOK'
  OBVIOUS
<1> USE Ids DEF ServerTypeOK, Stages, Enter
<1>1. CASE UNCHANGED vars
  BY <1>1 DEF vars, serverVars
<1>2. CASE PoolStep
  BY <1>2 DEF PoolStep, serverVars
<1>3. CASE MainStep
  <2>1. CASE RunReturns
    <3>1. stage[Main] # "off" /\ srv[Main] \in Servers \cup {NoTask}
      BY <2>1 DEF RunReturns
    <3>2. srv[Main] \in Servers
      BY <2>1 DEF RunReturns, StageInv
    <3> QED BY <2>1, <3>2 DEF RunReturns, sessVars
  <2>2. ASSUME NEW v \in Servers, RunServer(v) PROVE ServerTypeOK'
    BY <2>2 DEF RunServer
  <2> QED BY <1>3, <2>1, <2>2 DEF MainStep
<1>4. ASSUME NEW s \in Slots, SessionStep(s) PROVE ServerTypeOK'
  <2> USE DEF sessVars
  <2>0. task[s] \in Servers \cup {NoTask} /\ answer[s] \in BOOLEAN
    BY DEF PoolInv, Typed, PoolTypeOK, Servers
  <2>1. CASE StartTask(s)  BY <2>1 DEF StartTask
  <2>2. CASE BeginSession(s)  BY <2>0, <2>2 DEF BeginSession, ResetSession
  <2>3. CASE TestBound(s)  BY <2>3 DEF TestBound
  <2>4. CASE SetBound(s)  BY <2>4 DEF SetBound
  <2>5. CASE CreateListening(s)  BY <2>5 DEF CreateListening
  <2>6. CASE AcceptClient(s)
    <3>1. srv[s] \in Servers
      BY <2>6, SessionServer DEF AcceptClient
    <3>2. waiting[srv[s]] - 1 \in 0 .. MaxWaiting
      BY <2>6, <3>1, ServerAssumption DEF AcceptClient
    <3> QED BY <2>6, <3>1, <3>2 DEF AcceptClient
  <2>7. CASE AcceptFails(s)  BY <2>7 DEF AcceptFails
  <2>8. CASE Delegate(s)  BY <2>8 DEF Delegate
  <2>9. CASE Delegated(s)  BY <2>0, <2>9 DEF Delegated
  <2>10. CASE TestDone(s)  BY <2>10 DEF TestDone
  <2>11. CASE ReadRequest(s) \/ ReadFails(s)  BY <2>11 DEF ReadRequest, ReadFails
  <2>12. CASE ReadNothing(s)  BY <2>12 DEF ReadNothing, vars, serverVars
  <2>13. CASE KeepConnection(s) \/ EndConnection(s)
    BY <2>13 DEF KeepConnection, EndConnection
  <2>14. CASE ReleaseSession(s)  BY <2>14 DEF ReleaseSession
  <2>15. CASE EndTask(s)  BY <2>15 DEF EndTask
  <2> QED BY <1>4, <2>1, <2>2, <2>3, <2>4, <2>5, <2>6, <2>7, <2>8, <2>9, <2>10, <2>11,
             <2>12, <2>13, <2>14, <2>15 DEF SessionStep
<1>5. ASSUME NEW v \in Servers, Connect(v) PROVE ServerTypeOK'
  <2>1. waiting[v] + 1 \in 0 .. MaxWaiting
    BY <1>5, ServerAssumption DEF Connect
  <2> QED BY <1>5, <2>1 DEF Connect, sessVars
<1>6. ASSUME NEW s \in Slots, PeerCloses(s) PROVE ServerTypeOK'
  BY <1>6 DEF PeerCloses
<1> QED BY <1>1, <1>2, <1>3, <1>4, <1>5, <1>6 DEF Next, PoliteNext

-----------------------------------------------------------------------------
(* The steps of the pool that are not the servers' own.                    *)

\* No call ends and no thread wakes up in such a step.
QuietPool ==
    \/ \E c \in Threads : CallerStep(c) /\ ~Refuse(c) /\ ~Signal(c)
    \/ \E s \in Slots : WorkerStart(s) \/ WorkerWait(s) \/ UnlockSlot(s)

\* Calls, answers and the tasks of the threads that are called or run stay.
LEMMA QuietPoolKeeps ==
    ASSUME PoolInv, QuietPool
    PROVE  /\ UNCHANGED <<arg, answer>>
           /\ \A c \in Threads : pc[c] = "idle" <=> pc'[c] = "idle"
           /\ \A s \in Slots : /\ worker[s] = "run" <=> worker'[s] = "run"
                               /\ worker[s] = "woken" <=> worker'[s] = "woken"
                               /\ worker[s] \in {"run", "woken"} => task'[s] = task[s]
<1> USE DEF PoolInv, Typed, PoolTypeOK, Goto, slotVars, callerVars
<1>1. ASSUME NEW c \in Threads, CallerStep(c), ~Refuse(c), ~Signal(c)
      PROVE  /\ UNCHANGED <<arg, answer>>
             /\ \A d \in Threads : pc[d] = "idle" <=> pc'[d] = "idle"
             /\ \A s \in Slots : /\ worker[s] = "run" <=> worker'[s] = "run"
                                 /\ worker[s] = "woken" <=> worker'[s] = "woken"
                                 /\ worker[s] \in {"run", "woken"} => task'[s] = task[s]
  <2>1. CASE SkipLocked(c) \/ LockSlot(c) \/ TakeIdle(c) \/ KeepFirst(c) \/ GiveBack(c)
    BY <2>1 DEF SkipLocked, LockSlot, TakeIdle, KeepFirst, GiveBack
  <2>2. CASE AllocateKept(c) \/ InitMutexAndCond(c) \/ SpinUntilReady(c) \/ LockMutex(c) \/ UnlockMutex(c)
    BY <2>2 DEF AllocateKept, InitMutexAndCond, SpinUntilReady, LockMutex, UnlockMutex
  <2>3. CASE CreateThread(c)
    BY <2>3 DEF CreateThread, PlacingInv
  <2>4. CASE Fill(c)
    BY <2>4 DEF Fill, PlacingInv
  <2> QED BY <1>1, <2>1, <2>2, <2>3, <2>4 DEF CallerStep
<1>2. ASSUME NEW s \in Slots, WorkerStart(s) \/ WorkerWait(s) \/ UnlockSlot(s)
      PROVE  /\ UNCHANGED <<arg, answer, pc, task>>
             /\ \A r \in Slots : /\ worker[r] = "run" <=> worker'[r] = "run"
                                 /\ worker[r] = "woken" <=> worker'[r] = "woken"
  BY <1>2 DEF WorkerStart, WorkerWait, UnlockSlot
<1> QED BY <1>1, <1>2 DEF QuietPool

\* The signal: a call ends, and the thread it was for is called.
LEMMA SignalCalls ==
    ASSUME PoolInv, StageInv, NEW c \in Threads, Signal(c)
    PROVE  \E k \in Slots :
             /\ worker[k] = "wait" /\ stage[k] = "off" /\ pc[k] = "idle" /\ k # c
             /\ task[k] = arg[c] /\ pc[c] # "idle" /\ stage[c] = "delegating"
             /\ arg[c] = srv[c]
             /\ worker' = [worker EXCEPT ![k] = "woken"]
             /\ pc' = [pc EXCEPT ![c] = "idle"]
             /\ arg' = [arg EXCEPT ![c] = NoTask]
             /\ answer' = [answer EXCEPT ![c] = TRUE]
             /\ UNCHANGED task
<1>1. PICK k \in Slots : k = kept[c]
  BY DEF Signal, PoolInv, ScanInv, Chosen
<1>2. worker[k] = "wait" /\ task[k] = arg[c]
  BY <1>1 DEF Signal, PoolInv, PlacingInv
<1>3. stage[k] = "off" /\ pc[k] = "idle" /\ stage[c] = "delegating" /\ arg[c] = srv[c]
  BY <1>2, Ids DEF StageInv, Signal
<1>4. worker' = [worker EXCEPT ![k] = "woken"]
  BY <1>1, <1>2 DEF Signal
<1> QED BY <1>1, <1>2, <1>3, <1>4 DEF Signal, Return, Goto

-----------------------------------------------------------------------------
(* Where the threads are.                                                  *)

\* A session step of s that neither starts nor ends its task.
LEMMA SessionOnlyStages ==
    ASSUME PoolInv, ServerTypeOK, StageInv, NEW s \in Slots, SessionOnly(s)
    PROVE  /\ UNCHANGED <<toStart, started>>
           /\ stage[s] # "off" /\ stage'[s] # "off"
           /\ pc[s] = "idle"
           /\ stage'[s] \notin {"off", "entry"} => srv'[s] = task[s]
           /\ \A c \in Threads \ {s} : stage'[c] = stage[c] /\ srv'[c] = srv[c]
<1> USE Ids DEF ServerTypeOK, Enter, sessVars
<1>1. stage[s] # "off" => (stage[s] # "entry" => srv[s] = task[s])
  BY DEF StageInv
<1>2. stage[s] # "delegating" => pc[s] = "idle"
  BY DEF StageInv
<1>3. CASE BeginSession(s)
  BY <1>2, <1>3 DEF BeginSession, ResetSession
<1>4. CASE TestBound(s) \/ SetBound(s) \/ CreateListening(s)
  BY <1>1, <1>2, <1>4 DEF TestBound, SetBound, CreateListening
<1>5. CASE AcceptClient(s) \/ AcceptFails(s) \/ Delegated(s)
  BY <1>1, <1>2, <1>5 DEF AcceptClient, AcceptFails, Delegated
<1>6. CASE TestDone(s) \/ ReadRequest(s) \/ ReadFails(s) \/ ReadNothing(s)
  BY <1>1, <1>2, <1>6 DEF TestDone, ReadRequest, ReadFails, ReadNothing, vars, serverVars
<1>7. CASE KeepConnection(s) \/ EndConnection(s) \/ ReleaseSession(s)
  BY <1>1, <1>2, <1>7 DEF KeepConnection, EndConnection, ReleaseSession
<1> QED BY <1>3, <1>4, <1>5, <1>6, <1>7 DEF SessionOnly

LEMMA StageStep == PoolInv /\ ServerTypeOK /\ StageInv /\ [Next]_vars => StageInv'
<1> SUFFICES ASSUME PoolInv, ServerTypeOK, StageInv, [Next]_vars PROVE StageInv'
  OBVIOUS
<1> USE Ids
<1>0. PoolTypeOK
  BY DEF PoolInv, Typed
<1>1. CASE UNCHANGED vars
  BY <1>1 DEF StageInv, vars, poolVars, serverVars
<1>2. CASE PoolStep
  <2>1. UNCHANGED serverVars
    BY <1>2 DEF PoolStep
  <2>2. CASE QuietPool
    BY <2>1, <2>2, QuietPoolKeeps DEF StageInv, serverVars
  <2>3. ASSUME NEW c \in Threads, Refuse(c) PROVE StageInv'
    BY <2>1, <2>3, <1>0 DEF StageInv, serverVars, Refuse, Return, Goto, slotVars, PoolTypeOK
  <2>4. ASSUME NEW c \in Threads, Signal(c) PROVE StageInv'
    <3>1. PICK k \in Slots : /\ worker[k] = "wait" /\ worker' = [worker EXCEPT ![k] = "woken"]
                              /\ pc' = [pc EXCEPT ![c] = "idle"]
                              /\ arg' = [arg EXCEPT ![c] = NoTask]
                              /\ UNCHANGED task
      BY <2>4, SignalCalls
    <3> QED BY <2>1, <3>1, <1>0 DEF StageInv, serverVars, PoolTypeOK
  <2> QED BY <1>2, <2>2, <2>3, <2>4 DEF PoolStep, QuietPool
<1>3. CASE RunReturns
  BY <1>3 DEF RunReturns, StageInv, ServerTypeOK, Enter, poolVars, sessVars
<1>4. ASSUME NEW v \in Servers, RunServer(v) PROVE StageInv'
  <2>1. /\ stage' = [stage EXCEPT ![Main] = "delegating"] /\ srv' = [srv EXCEPT ![Main] = v]
        /\ toStart' = toStart \ {v} /\ v \in toStart /\ started' = started
    BY <1>4 DEF RunServer, Enter
  <2>2. /\ pc' = [pc EXCEPT ![Main] = "scan"] /\ arg' = [arg EXCEPT ![Main] = v]
        /\ UNCHANGED <<worker, task>>
    BY <1>4 DEF RunServer, Assign, Goto, slotVars
  <2> QED BY <2>1, <2>2, <1>0 DEF StageInv, ServerTypeOK, PoolTypeOK
<1>5. ASSUME NEW s \in Slots, SessionStep(s) PROVE StageInv'
  <2>1. CASE SessionOnly(s)
    BY <2>1, SessionOnlyStages, SessionLeavesPool DEF StageInv, poolVars
  <2>2. CASE StartTask(s)
    <3>0. worker[s] = "woken" /\ task[s] # NoTask
      BY <2>2, PoolAssumption DEF StartTask, WorkerWake, PoolInv, SlotInv, Busy
    <3>1. /\ worker[s] = "woken" /\ task[s] # NoTask
          /\ worker' = [worker EXCEPT ![s] = "run"] /\ UNCHANGED <<task, pc, arg>>
      BY <2>2, <3>0 DEF StartTask, WorkerWake, callerVars
    <3>2. /\ stage' = [stage EXCEPT ![s] = "entry"] /\ UNCHANGED <<toStart, started, srv>>
      BY <2>2, <3>1 DEF StartTask, Enter, sessVars
    <3>3. stage[s] = "off" /\ pc[s] = "idle"
      BY <3>1 DEF StageInv
    <3> QED BY <3>1, <3>2, <3>3, <1>0 DEF StageInv, ServerTypeOK, PoolTypeOK
  <2>3. CASE Delegate(s)
    <3>1. /\ pc' = [pc EXCEPT ![s] = "scan"] /\ arg' = [arg EXCEPT ![s] = srv[s]]
          /\ UNCHANGED <<worker, task>>
      BY <2>3 DEF Delegate, Assign, Goto, slotVars
    <3>2. /\ stage[s] = "delegate" /\ stage' = [stage EXCEPT ![s] = "delegating"]
          /\ UNCHANGED <<toStart, started, srv>>
      BY <2>3 DEF Delegate, Enter, sessVars
    <3> QED BY <3>1, <3>2, <1>0 DEF StageInv, ServerTypeOK, PoolTypeOK
  <2>4. CASE EndTask(s)
    <3>1. pc[s] = "idle" /\ worker' = [worker EXCEPT ![s] = "ret"] /\ UNCHANGED <<task, pc, arg>>
      BY <2>4 DEF EndTask, TaskReturns, callerVars
    <3>2. stage' = [stage EXCEPT ![s] = "off"] /\ UNCHANGED <<toStart, started, srv>>
      BY <2>4 DEF EndTask, Enter, sessVars
    <3> QED BY <3>1, <3>2, <1>0 DEF StageInv, ServerTypeOK, PoolTypeOK
  <2> QED BY <1>5, <2>1, <2>2, <2>3, <2>4 DEF SessionStep, SessionOnly
<1>6. ASSUME NEW v \in Servers, Connect(v) PROVE StageInv'
  BY <1>6 DEF Connect, StageInv, poolVars, sessVars
<1>7. ASSUME NEW s \in Slots, PeerCloses(s) PROVE StageInv'
  BY <1>7 DEF PeerCloses, StageInv, poolVars
<1> QED BY <1>1, <1>2, <1>3, <1>4, <1>5, <1>6, <1>7 DEF Next, PoliteNext, MainStep

-----------------------------------------------------------------------------
(* Who accepts.                                                            *)

\* Nobody takes a duty that nobody had.
LEMMA DutyKept ==
    ASSUME DutyInv, toStart' \subseteq toStart,
           \A c \in Threads, v \in Servers : Responsible(c, v)' => Responsible(c, v),
           toStart \subseteq Servers
    PROVE  DutyInv'
  BY DEF DutyInv, NobodyElseAccepts

\* Nobody drops a duty that somebody must have.
LEMMA AcceptKept ==
    ASSUME AcceptInv,
           \A c \in Threads, v \in Modular : Responsible(c, v) => Responsible(c, v)',
           \A v \in Modular : Wanted(v)' => Wanted(v)
    PROVE  AcceptInv'
  BY DEF AcceptInv

\* A step of the pool that ends no call and wakes nobody.
LEMMA QuietDuty ==
    ASSUME ServerInv, QuietPool, UNCHANGED serverVars
    PROVE  DutyInv' /\ AcceptInv'
<1> USE Ids
<1>1. \A c \in Threads, v \in Servers : Responsible(c, v)' <=> Responsible(c, v)
  BY QuietPoolKeeps DEF Responsible, ServerInv, StageInv, serverVars
<1>2. \A v : Wanted(v)' <=> Wanted(v)
  BY QuietPoolKeeps DEF Wanted, ServerInv, serverVars
<1> QED BY <1>1, <1>2, DutyKept, AcceptKept, ServerAssumption DEF ServerInv, ServerTypeOK, serverVars, Servers

\* A call is refused: the caller keeps the duty, unless it is main().
LEMMA RefuseDuty ==
    ASSUME ServerInv, NEW c \in Threads, Refuse(c), UNCHANGED serverVars
    PROVE  DutyInv' /\ AcceptInv'
<1> USE Ids
<1>1. /\ pc[c] # "idle" /\ stage[c] = "delegating" /\ arg[c] = srv[c]
      /\ pc' = [pc EXCEPT ![c] = "idle"] /\ arg' = [arg EXCEPT ![c] = NoTask]
      /\ answer' = [answer EXCEPT ![c] = FALSE]
      /\ UNCHANGED <<worker, task>>
  BY DEF ServerInv, StageInv, Refuse, Return, Goto, slotVars
<1>2. pc \in [Threads -> CallerPCs] /\ arg \in [Threads -> Tasks \cup {NoTask}] /\ answer \in [Threads -> BOOLEAN]
  BY DEF ServerInv, PoolInv, Typed, PoolTypeOK
<1>3. UNCHANGED <<stage, srv, retInCache, toStart, started>>
  BY DEF serverVars
<1>4. \A d \in Threads \ {c}, v \in Servers : Responsible(d, v)' <=> Responsible(d, v)
  BY <1>1, <1>2, <1>3 DEF Responsible
<1>5. \A v \in Servers : Responsible(c, v) <=> v = srv[c]
  BY <1>1 DEF Responsible, ServerInv, StageInv, Serving
<1>6. CASE c \in Slots
  <2>1. \A v \in Servers : Responsible(c, v)' <=> v = srv[c]
    BY <1>1, <1>2, <1>3, <1>6 DEF Responsible, ServerInv, StageInv, Serving
  <2>2. \A v : Wanted(v)' <=> Wanted(v)
    BY <1>1, <1>2, <1>3, <1>6 DEF Wanted
  <2> QED BY <1>3, <1>4, <1>5, <2>1, <2>2, DutyKept, AcceptKept, ServerAssumption
          DEF ServerInv, ServerTypeOK, Servers
<1>7. CASE c = Main
  <2>1. \A v \in Servers : ~Responsible(c, v)'
    BY <1>1, <1>2, <1>3, <1>7 DEF Responsible
  <2>2. DutyInv'
    BY <1>3, <1>4, <2>1, DutyKept DEF ServerInv, ServerTypeOK
  <2>3. \A v \in Servers : Wanted(v)' => Wanted(v) /\ v # srv[c]
    BY <1>1, <1>2, <1>3, <1>7 DEF Wanted, ServerInv, StageInv
  <2>4. AcceptInv'
    BY <1>4, <1>5, <2>3, ServerAssumption DEF ServerInv, AcceptInv, Servers
  <2> QED BY <2>2, <2>4
<1> QED BY <1>6, <1>7

\* A thread is called: it takes the duty of the one that called it.
LEMMA SignalDuty ==
    ASSUME ServerInv, NEW c \in Threads, Signal(c), UNCHANGED serverVars
    PROVE  DutyInv' /\ AcceptInv'
<1> USE Ids
<1>1. PICK k \in Slots :
             /\ worker[k] = "wait" /\ stage[k] = "off" /\ pc[k] = "idle" /\ k # c
             /\ task[k] = arg[c] /\ pc[c] # "idle" /\ stage[c] = "delegating"
             /\ arg[c] = srv[c]
             /\ worker' = [worker EXCEPT ![k] = "woken"]
             /\ pc' = [pc EXCEPT ![c] = "idle"]
             /\ arg' = [arg EXCEPT ![c] = NoTask]
             /\ answer' = [answer EXCEPT ![c] = TRUE]
             /\ UNCHANGED task
  BY SignalCalls DEF ServerInv
<1>2. /\ pc \in [Threads -> CallerPCs] /\ arg \in [Threads -> Tasks \cup {NoTask}]
      /\ answer \in [Threads -> BOOLEAN] /\ worker \in [Slots -> WorkerPCs]
  BY DEF ServerInv, PoolInv, Typed, PoolTypeOK
<1>3. UNCHANGED <<stage, srv, retInCache, toStart, started>>
  BY DEF serverVars
<1>4. \A d \in Threads \ {c, k}, v \in Servers : Responsible(d, v)' <=> Responsible(d, v)
  BY <1>1, <1>2, <1>3 DEF Responsible
<1>5. \A v \in Servers : ~Responsible(c, v)'
  <2>1. c \in Slots => worker[c] = "run"
    BY <1>1 DEF ServerInv, StageInv
  <2> QED BY <1>1, <1>2, <1>3, <2>1 DEF Responsible, Serving
<1>6. \A v \in Servers : Responsible(c, v) <=> v = srv[c]
  BY <1>1 DEF Responsible, ServerInv, StageInv, Serving
<1>7. \A v \in Servers : Responsible(k, v)' <=> v = srv[c]
  BY <1>1, <1>2, <1>3 DEF Responsible, Serving
<1>8. srv[c] \in Servers
  BY <1>1 DEF ServerInv, PoolInv, ScanInv, Servers
<1>9. \A v \in Servers : v # srv[c] => (Wanted(v)' <=> Wanted(v))
  BY <1>1, <1>2, <1>3 DEF Wanted
<1>10. DutyInv'
  <2>1. \A v \in toStart, d \in Threads : ~Responsible(d, v)'
    BY <1>3, <1>4, <1>5, <1>6, <1>7, <1>8 DEF ServerInv, DutyInv, ServerTypeOK
  <2>2. NobodyElseAccepts'
    BY <1>4, <1>5, <1>6, <1>7, <1>8 DEF ServerInv, DutyInv, NobodyElseAccepts
  <2> QED BY <2>1, <2>2, <1>3 DEF DutyInv
<1>11. AcceptInv'
  <2> SUFFICES ASSUME NEW v \in Modular, Wanted(v)' PROVE \E d \in Threads : Responsible(d, v)'
    BY DEF AcceptInv
  <2>1. v \in Servers
    BY ServerAssumption DEF Servers
  <2>2. CASE v = srv[c]
    BY <2>1, <2>2, <1>7
  <2>3. CASE v # srv[c]
    <3>1. PICK d \in Threads : Responsible(d, v)
      BY <2>1, <2>3, <1>9 DEF ServerInv, AcceptInv
    <3>2. d # c /\ d # k
      BY <1>1, <1>6, <2>1, <2>3, <3>1 DEF Responsible, Serving
    <3> QED BY <1>4, <2>1, <3>1, <3>2
  <2> QED BY <2>2, <2>3
<1> QED BY <1>10, <1>11

\* The steps of main().
LEMMA MainDuty ==
    ASSUME ServerInv, MainStep
    PROVE  DutyInv' /\ AcceptInv'
<1> USE Ids
<1>0. /\ pc \in [Threads -> CallerPCs] /\ arg \in [Threads -> Tasks \cup {NoTask}]
      /\ stage \in [Threads -> Stages] /\ srv \in [Threads -> Servers \cup {NoTask}]
  BY DEF ServerInv, PoolInv, Typed, PoolTypeOK, ServerTypeOK
<1>1. CASE RunReturns
  <2>1. \A c \in Threads, v \in Servers : Responsible(c, v)' <=> Responsible(c, v)
    <3>1. /\ UNCHANGED <<pc, arg, answer, worker, task, srv, retInCache>>
          /\ \A s \in Slots : stage'[s] = stage[s]
      BY <1>0, <1>1 DEF RunReturns, Enter, poolVars, sessVars
    <3> QED BY <3>1 DEF Responsible
  <2>2. \A v : Wanted(v)' => Wanted(v)
    BY <1>0, <1>1 DEF RunReturns, Enter, Wanted, poolVars, sessVars
  <2>3. UNCHANGED toStart
    BY <1>1 DEF RunReturns
  <2> QED BY <2>1, <2>2, <2>3, DutyKept, AcceptKept, ServerAssumption
          DEF ServerInv, ServerTypeOK, Servers
<1>2. ASSUME NEW w \in Servers, RunServer(w) PROVE DutyInv' /\ AcceptInv'
  <2>1. /\ stage[Main] = "off" /\ stage' = [stage EXCEPT ![Main] = "delegating"]
        /\ srv' = [srv EXCEPT ![Main] = w]
        /\ toStart' = toStart \ {w} /\ w \in toStart
        /\ pc[Main] = "idle" /\ pc' = [pc EXCEPT ![Main] = "scan"]
        /\ arg' = [arg EXCEPT ![Main] = w]
        /\ UNCHANGED <<worker, task, answer, started, retInCache>>
    BY <1>2 DEF RunServer, Enter, Assign, MayCall, Goto, slotVars
  <2>2. \A c \in Slots, v \in Servers : Responsible(c, v)' <=> Responsible(c, v)
    BY <1>0, <2>1 DEF Responsible
  <2>3. \A v \in Servers : ~Responsible(Main, v) /\ (Responsible(Main, v)' <=> v = w)
    BY <1>0, <2>1 DEF Responsible
  <2>4. \A v \in Servers : Wanted(v)' => Wanted(v)
    BY <1>0, <2>1 DEF Wanted
  <2>5. DutyInv'
    <3>1. \A v \in toStart', c \in Threads : ~Responsible(c, v)'
      BY <2>1, <2>2, <2>3 DEF ServerInv, DutyInv, ServerTypeOK
    <3>2. NobodyElseAccepts'
      BY <2>1, <2>2, <2>3 DEF ServerInv, DutyInv, ServerTypeOK, NobodyElseAccepts
    <3> QED BY <3>1, <3>2 DEF DutyInv
  <2>6. AcceptInv'
    BY <2>2, <2>3, <2>4, AcceptKept, ServerAssumption DEF ServerInv, Servers
  <2> QED BY <2>5, <2>6
<1> QED BY <1>1, <1>2 DEF MainStep

\* A session that neither starts nor ends its task keeps its duty; only at the
\* start does it find that its server has no connection module.
LEMMA SessionOnlyDuty ==
    ASSUME ServerInv, NEW s \in Slots, SessionOnly(s)
    PROVE  DutyInv' /\ AcceptInv'
<1> USE Ids DEF Enter, sessVars
<1>0. /\ UNCHANGED <<pc, arg, answer, worker, task, toStart, started>>
      /\ \A c \in Threads \ {s} : stage'[c] = stage[c] /\ srv'[c] = srv[c]
      /\ pc[s] = "idle"
  BY SessionLeavesPool, SessionOnlyStages DEF ServerInv, poolVars
<1>1. \A c \in Threads \ {s} : retInCache'[c] = retInCache[c]
  BY DEF SessionOnly, BeginSession, ResetSession, TestBound, SetBound, CreateListening,
     AcceptClient, AcceptFails, Delegated, TestDone, ReadRequest, ReadFails, ReadNothing,
     KeepConnection, EndConnection, ReleaseSession, vars, serverVars, ServerInv, ServerTypeOK
<1>2. \A c \in Threads \ {s}, v \in Servers : Responsible(c, v)' <=> Responsible(c, v)
  BY <1>0, <1>1 DEF Responsible
<1>3. worker[s] = "run"
  BY SessionOnlyStages DEF ServerInv, StageInv
<1>4. \A v : Wanted(v)' <=> Wanted(v)
  BY <1>0 DEF Wanted
<1>5. stage[s] \notin {"off", "entry"} => srv[s] = task[s]
  BY DEF ServerInv, StageInv
<1>6. /\ stage \in [Threads -> Stages] /\ srv \in [Threads -> Servers \cup {NoTask}]
      /\ retInCache \in [Threads -> BOOLEAN] /\ answer[s] \in BOOLEAN
  BY DEF ServerInv, ServerTypeOK, PoolInv, Typed, PoolTypeOK
<1>7. /\ \A v \in Servers : Responsible(s, v)' => Responsible(s, v)
      /\ \A v \in Modular : Responsible(s, v) => Responsible(s, v)'
  <2> USE <1>0, <1>3, <1>5, <1>6 DEF Responsible, Serving
  <2>1. CASE BeginSession(s)
    BY <2>1 DEF BeginSession, ResetSession
  <2>2. CASE TestBound(s) \/ SetBound(s) \/ CreateListening(s)
    BY <2>2 DEF TestBound, SetBound, CreateListening
  <2>3. CASE AcceptClient(s) \/ AcceptFails(s)
    BY <2>3 DEF AcceptClient, AcceptFails
  <2>4. CASE Delegated(s)
    BY <2>4 DEF Delegated
  <2>5. CASE TestDone(s) \/ ReadRequest(s) \/ ReadFails(s)
    BY <2>5 DEF TestDone, ReadRequest, ReadFails
  <2>6. CASE ReadNothing(s)
    BY <2>6 DEF ReadNothing, vars, serverVars
  <2>7. CASE KeepConnection(s) \/ EndConnection(s)
    BY <2>7 DEF KeepConnection, EndConnection
  <2>8. CASE ReleaseSession(s)
    BY <2>8 DEF ReleaseSession
  <2> QED BY <2>1, <2>2, <2>3, <2>4, <2>5, <2>6, <2>7, <2>8 DEF SessionOnly
<1> QED BY <1>0, <1>2, <1>4, <1>7, DutyKept, AcceptKept, ServerAssumption
        DEF ServerInv, ServerTypeOK, Servers

\* The start and the end of a task, and the call for a successor.
LEMMA TaskDuty ==
    ASSUME ServerInv, NEW s \in Slots, StartTask(s) \/ Delegate(s) \/ EndTask(s)
    PROVE  DutyInv' /\ AcceptInv'
<1> USE Ids DEF Enter, sessVars
<1>0. /\ pc \in [Threads -> CallerPCs] /\ arg \in [Threads -> Tasks \cup {NoTask}]
      /\ stage \in [Threads -> Stages] /\ worker \in [Slots -> WorkerPCs]
  BY DEF ServerInv, PoolInv, Typed, PoolTypeOK, ServerTypeOK
<1>1. UNCHANGED <<toStart, started, srv, retInCache, answer, task>>
  BY DEF StartTask, WorkerWake, Delegate, Assign, EndTask, TaskReturns, slotVars, callerVars
<1>2. /\ \A c \in Threads \ {s} : stage'[c] = stage[c] /\ pc'[c] = pc[c] /\ arg'[c] = arg[c]
      /\ \A c \in Slots \ {s} : worker'[c] = worker[c]
  BY <1>0 DEF StartTask, WorkerWake, Delegate, Assign, Goto, EndTask, TaskReturns, slotVars, callerVars
<1>3. \A c \in Threads \ {s}, v \in Servers : Responsible(c, v)' <=> Responsible(c, v)
  BY <1>1, <1>2 DEF Responsible
<1>4. \A v : Wanted(v)' <=> Wanted(v)
  BY <1>1, <1>2 DEF Wanted
<1>5. \A v \in Servers : Responsible(s, v)' <=> Responsible(s, v)
  <2> USE <1>0, <1>1 DEF Responsible, Serving
  <2>1. CASE StartTask(s)
    <3>1. worker[s] = "woken" /\ task[s] # NoTask
      BY <2>1, PoolAssumption DEF StartTask, WorkerWake, ServerInv, PoolInv, SlotInv, Busy
    <3>2. stage[s] = "off" /\ pc[s] = "idle"
      BY <3>1 DEF ServerInv, StageInv
    <3>3. stage'[s] = "entry" /\ worker'[s] = "run" /\ pc'[s] = "idle"
      BY <2>1, <3>1, <3>2 DEF StartTask, WorkerWake, callerVars
    <3> QED BY <3>1, <3>2, <3>3
  <2>2. CASE Delegate(s)
    <3>1. stage[s] = "delegate" /\ stage'[s] = "delegating" /\ pc'[s] = "scan" /\ arg'[s] = srv[s]
      BY <2>2 DEF Delegate, Assign, Goto
    <3>2. pc[s] = "idle" /\ worker[s] = "run" /\ worker'[s] = "run"
      BY <2>2, <3>1 DEF ServerInv, StageInv, Delegate, Assign, slotVars
    <3> QED BY <3>1, <3>2
  <2>3. CASE EndTask(s)
    <3>1. stage[s] = "return" /\ stage'[s] = "off" /\ pc[s] = "idle" /\ pc'[s] = "idle"
      BY <2>3 DEF EndTask, TaskReturns, callerVars
    <3>2. worker[s] = "run" /\ worker'[s] = "ret"
      BY <2>3 DEF EndTask, TaskReturns
    <3> QED BY <3>1, <3>2
  <2> QED BY <2>1, <2>2, <2>3
<1> QED BY <1>1, <1>3, <1>4, <1>5, DutyKept, AcceptKept, ServerAssumption
        DEF ServerInv, ServerTypeOK, Servers

-----------------------------------------------------------------------------
(* The theorems.                                                           *)

LEMMA ServerInitInv == Init => ServerInv
<1> SUFFICES ASSUME Init PROVE ServerInv
  OBVIOUS
<1> USE Ids DEF Init, PoolInit, ServerInit
<1>1. PoolInv
  BY PoolInitInv
<1>2. ServerTypeOK
  BY ServerAssumption DEF ServerTypeOK, Stages
<1>3. StageInv
  BY DEF StageInv
<1>4. \A c \in Threads, v \in Servers : ~Responsible(c, v)
  BY DEF Responsible, Serving
<1>5. DutyInv /\ AcceptInv
  BY <1>4 DEF DutyInv, NobodyElseAccepts, AcceptInv, Wanted
<1> QED BY <1>1, <1>2, <1>3, <1>5 DEF ServerInv

LEMMA ServerNextKeepsInv == ServerInv /\ [Next]_vars => ServerInv'
<1> SUFFICES ASSUME ServerInv, [Next]_vars PROVE ServerInv'
  OBVIOUS
<1>1. PoolInv' /\ ServerTypeOK' /\ StageInv'
  BY StepIsPoolStep, PoolNextKeepsInv, ServerTyping, StageStep DEF ServerInv
<1>2. DutyInv' /\ AcceptInv'
  <2>1. CASE UNCHANGED vars
    BY <2>1 DEF vars, poolVars, serverVars, ServerInv, DutyInv, AcceptInv, NobodyElseAccepts,
       Responsible, Wanted
  <2>2. CASE PoolStep
    BY <2>2, QuietDuty, RefuseDuty, SignalDuty DEF PoolStep, QuietPool
  <2>3. CASE MainStep
    BY <2>3, MainDuty
  <2>4. ASSUME NEW s \in Slots, SessionStep(s) PROVE DutyInv' /\ AcceptInv'
    BY <2>4, SessionOnlyDuty, TaskDuty DEF SessionStep, SessionOnly
  <2>5. ASSUME UNCHANGED <<poolVars, toStart, started, stage, srv, retInCache>>
        PROVE  DutyInv' /\ AcceptInv'
    BY <2>5 DEF poolVars, ServerInv, DutyInv, AcceptInv, NobodyElseAccepts, Responsible, Wanted
  <2>6. CASE \E v \in Servers : Connect(v)
    BY <2>5, <2>6 DEF Connect, sessVars
  <2>7. CASE \E s \in Slots : PeerCloses(s)
    BY <2>5, <2>7 DEF PeerCloses
  <2> QED BY <2>1, <2>2, <2>3, <2>4, <2>6, <2>7 DEF Next, PoliteNext
<1> QED BY <1>1, <1>2 DEF ServerInv

THEOREM ServerInvariant == Spec => []ServerInv
  BY ServerInitInv, ServerNextKeepsInv, PTL DEF Spec

\* Type correctness of the servers: a session always has the server of its
\* slot, the listen queues never go below zero.
THEOREM ServerTypeCorrect == Spec => []ServerTypeOK
  BY ServerInvariant, PTL DEF ServerInv

\* A started server always has a thread that accepts for it.
THEOREM NeverAbandoned == Spec => []SomebodyAccepts
<1>1. ServerInv => SomebodyAccepts
  BY DEF ServerInv, AcceptInv, SomebodyAccepts, Wanted
<1> QED BY <1>1, ServerInvariant, PTL

\* It never has two: no two threads bind it or accept on its socket.
THEOREM OneAcceptor == Spec => []NobodyElseAccepts
<1>1. ServerInv => NobodyElseAccepts
  BY DEF ServerInv, DutyInv
<1> QED BY <1>1, ServerInvariant, PTL

\* The pool under the servers is the pool of ThreadPool: whatever is proved of
\* its slots holds of the server.
THEOREM ServerUsesPool == Spec => [](OneOwner /\ NoSlotLeaked /\ OwnedIsLocked /\ SignalIsHeard)
<1>1. ServerInv => OneOwner /\ NoSlotLeaked /\ OwnedIsLocked /\ SignalIsHeard
  BY DEF ServerInv, PoolInv, PlacingInv, SignalIsHeard
<1> QED BY <1>1, ServerInvariant, PTL

-----------------------------------------------------------------------------
(* Binding.                                                                *)

\* The flag runs ahead of the socket only while a thread is about to create it.
BindInv ==
    /\ \A v \in Servers :
        /\ ~isBound[v] => srvSock[v] = "none"
        /\ isBound[v] /\ srvSock[v] = "none" =>
             \E s \in Slots : stage[s] = "create" /\ srv[s] = v
    /\ \A s \in Slots :
        /\ stage[s] = "setbound" => ~isBound[srv[s]]
        /\ stage[s] = "create" => isBound[srv[s]] /\ srvSock[srv[s]] = "none"
        /\ stage[s] = "accept" => srvSock[srv[s]] # "none"

LEMMA BindInit == Init => BindInv
  BY Ids DEF Init, ServerInit, BindInv, Servers

\* Two threads that bind or accept do it for different servers.
LEMMA BindersApart ==
    ASSUME ServerInv, NEW s \in Slots, NEW r \in Slots, r # s,
           stage[s] \in Accepting, stage[r] \in Accepting
    PROVE  srv[s] # srv[r] /\ srv[s] \in Servers
<1>1. srv[s] \in Servers
  BY SessionServer DEF ServerInv, Accepting
<1>2. Responsible(s, srv[s]) /\ Responsible(r, srv[r])
  BY DEF Responsible, Accepting
<1> QED BY <1>1, <1>2, Ids DEF ServerInv, DutyInv, NobodyElseAccepts

\* Only these steps concern the sockets and the threads that bind them.
LEMMA BindStep ==
    ASSUME ServerInv, BindInv, [Next]_vars
    PROVE  /\ BindInv'
           /\ \A v \in Servers : srvSock[v] # "none" => srvSock'[v] = srvSock[v]
<1> DEFINE Goal == /\ BindInv'
                   /\ \A v \in Servers : srvSock[v] # "none" => srvSock'[v] = srvSock[v]
<1> USE Ids DEF Enter, sessVars
<1>0. /\ stage \in [Threads -> Stages] /\ srv \in [Threads -> Servers \cup {NoTask}]
      /\ isBound \in [Servers -> BOOLEAN]
      /\ srvSock \in [Servers -> {"none", "listening", "bad"}]
  BY DEF ServerInv, ServerTypeOK
<1>1. ASSUME UNCHANGED <<isBound, srvSock>>, NEW s \in Slots,
             \A r \in Slots \ {s} : stage'[r] = stage[r] /\ srv'[r] = srv[r],
             stage[s] # "create", stage'[s] \notin {"setbound", "create", "accept"}
      PROVE  Goal
  BY <1>1 DEF BindInv
<1>2. ASSUME UNCHANGED <<isBound, srvSock>>,
             \A r \in Slots : stage'[r] = stage[r] /\ srv'[r] = srv[r]
      PROVE  Goal
  BY <1>2 DEF BindInv
<1>3. CASE UNCHANGED vars \/ PoolStep
  BY <1>2, <1>3 DEF vars, PoolStep, serverVars
<1>4. CASE MainStep
  BY <1>0, <1>2, <1>4 DEF MainStep, RunReturns, RunServer
<1>5. ASSUME NEW s \in Slots, SessionStep(s) PROVE Goal
  <2>1. CASE TestBound(s)
    <3>1. /\ stage[s] = "bind" /\ UNCHANGED <<isBound, srvSock, srv>>
          /\ stage' = [stage EXCEPT ![s] = IF isBound[srv[s]] THEN "accept" ELSE "setbound"]
      BY <2>1 DEF TestBound
    <3>2. srv[s] \in Servers
      BY <3>1, SessionServer DEF ServerInv
    <3>3. isBound[srv[s]] => srvSock[srv[s]] # "none"
      <4> SUFFICES ASSUME isBound[srv[s]], srvSock[srv[s]] = "none" PROVE FALSE
        OBVIOUS
      <4>1. PICK r \in Slots : stage[r] = "create" /\ srv[r] = srv[s]
        BY <3>2 DEF BindInv
      <4> QED BY <3>1, <4>1, BindersApart DEF Accepting
    <3> QED BY <1>0, <3>1, <3>2, <3>3 DEF BindInv
  <2>2. CASE SetBound(s)
    <3>1. /\ stage[s] = "setbound" /\ UNCHANGED <<srvSock, srv>>
          /\ stage' = [stage EXCEPT ![s] = "create"]
          /\ isBound' = [isBound EXCEPT ![srv[s]] = TRUE]
      BY <2>2 DEF SetBound
    <3>2. srv[s] \in Servers /\ srvSock[srv[s]] = "none"
      BY <3>1, SessionServer DEF ServerInv, BindInv
    <3>3. \A r \in Slots \ {s} : stage[r] = "setbound" => srv[r] # srv[s]
      BY <3>1, BindersApart DEF Accepting
    <3> QED BY <1>0, <3>1, <3>2, <3>3 DEF BindInv
  <2>3. CASE CreateListening(s)
    <3>1. PICK result \in {"listening", "bad"} :
            /\ stage[s] = "create" /\ UNCHANGED <<isBound, srv>>
            /\ stage' = [stage EXCEPT ![s] = "accept"]
            /\ srvSock' = [srvSock EXCEPT ![srv[s]] = result]
      BY <2>3 DEF CreateListening
    <3>2. srv[s] \in Servers /\ srvSock[srv[s]] = "none"
      BY <3>1, SessionServer DEF ServerInv, BindInv
    <3>3. isBound[srv[s]]
      BY <3>1 DEF BindInv
    <3>4. \A r \in Slots \ {s} : stage[r] \in {"setbound", "create", "accept"} => srv[r] # srv[s]
      BY <3>1, BindersApart DEF Accepting
    <3> QED BY <1>0, <3>1, <3>2, <3>3, <3>4 DEF BindInv
  <2>4. CASE ~(TestBound(s) \/ SetBound(s) \/ CreateListening(s))
    <3> DEFINE Elsewhere == /\ UNCHANGED <<isBound, srvSock>>
                            /\ \A r \in Slots \ {s} : stage'[r] = stage[r] /\ srv'[r] = srv[r]
                            /\ stage[s] # "create"
                            /\ stage'[s] \notin {"setbound", "create", "accept"}
    <3>1. CASE StartTask(s)
      <4>1. stage[s] = "off"
        BY <3>1 DEF StartTask, WorkerWake, ServerInv, StageInv
      <4>2. Elsewhere
        BY <1>0, <3>1, <4>1 DEF StartTask
      <4> QED BY <1>1, <4>2
    <3>2. CASE BeginSession(s)
      BY <1>0, <1>1, <3>2 DEF BeginSession, ResetSession
    <3>3. CASE AcceptClient(s) \/ AcceptFails(s) \/ Delegate(s) \/ Delegated(s)
      <4>1. Elsewhere
        BY <1>0, <3>3 DEF AcceptClient, AcceptFails, Delegate, Delegated
      <4> QED BY <1>1, <4>1
    <3>4. CASE TestDone(s) \/ ReadRequest(s) \/ ReadFails(s)
      <4>1. Elsewhere
        BY <1>0, <3>4 DEF TestDone, ReadRequest, ReadFails
      <4> QED BY <1>1, <4>1
    <3>5. CASE ReadNothing(s)
      BY <1>2, <3>5 DEF ReadNothing, vars, serverVars
    <3>6. CASE KeepConnection(s) \/ EndConnection(s) \/ ReleaseSession(s) \/ EndTask(s)
      <4>1. Elsewhere
        BY <1>0, <3>6 DEF KeepConnection, EndConnection, ReleaseSession, EndTask
      <4> QED BY <1>1, <4>1
    <3> QED BY <1>5, <2>4, <3>1, <3>2, <3>3, <3>4, <3>5, <3>6 DEF SessionStep
  <2> QED BY <2>1, <2>2, <2>3, <2>4
<1>6. CASE \E v \in Servers : Connect(v)
  BY <1>2, <1>6 DEF Connect
<1>7. CASE \E s \in Slots : PeerCloses(s)
  BY <1>2, <1>7 DEF PeerCloses
<1> QED BY <1>3, <1>4, <1>5, <1>6, <1>7 DEF Next, PoliteNext

THEOREM BindInvariant == Spec => [](ServerInv /\ BindInv)
<1>1. ServerInv /\ BindInv /\ [Next]_vars => (ServerInv /\ BindInv)'
  BY ServerNextKeepsInv, BindStep
<1> QED BY <1>1, ServerInitInv, BindInit, PTL DEF Spec

\* The test-and-set of is_bound is not atomic, but no second thread comes to
\* it: nobody accepts on a socket that was not created.
THEOREM AcceptsWhenBound == Spec => []BoundBeforeAccept
<1>1. BindInv => BoundBeforeAccept
  BY DEF BindInv, BoundBeforeAccept
<1> QED BY <1>1, BindInvariant, PTL

\* Nor is the socket of a server created twice.
THEOREM SocketCreatedOnce == Spec => CreatedOnce
<1>1. ServerInv /\ BindInv /\ [Next]_vars =>
        [\A v \in Servers : srvSock[v] # "none" => UNCHANGED srvSock[v]]_vars
  BY BindStep
<1> QED BY <1>1, BindInvariant, PTL DEF Spec, CreatedOnce
=============================================================================
