----------------------------- MODULE TaskCache -----------------------------
(***************************************************************************)
(* What the thread cache of ziis promises to the threads that use it,      *)
(* without locks or condition variables: a task that is asked for is       *)
(* either refused or taken by one idle slot, which runs that very task     *)
(* exactly once before it takes another one.                               *)
(***************************************************************************)
CONSTANTS Callers,   \* the threads that ask for tasks to be run
          Slots,     \* the slots of the cache
          Tasks      \* the arguments a task can be started with

VARIABLES asked,     \* the call every caller waits for the answer to
          result,    \* whether its last call was accepted
          work       \* what every slot is committed to

vars == <<asked, result, work>>

Idle        == [phase |-> "idle"]
Request(t)  == [phase |-> "asked", task |-> t]
Accepted(t) == [phase |-> "accepted", task |-> t]
Running(t)  == [phase |-> "running", task |-> t]

Init ==
    /\ asked = [c \in Callers |-> Idle]
    /\ result = [c \in Callers |-> TRUE]
    /\ work = [s \in Slots |-> Idle]

Ask(c, t) ==
    /\ asked[c] = Idle
    /\ asked' = [asked EXCEPT ![c] = Request(t)]
    /\ UNCHANGED <<result, work>>

Refuse(c) ==
    /\ asked[c] # Idle
    /\ asked' = [asked EXCEPT ![c] = Idle]
    /\ result' = [result EXCEPT ![c] = FALSE]
    /\ UNCHANGED work

Accept(c, s) ==
    \E t \in Tasks :
        /\ asked[c] = Request(t) /\ work[s] = Idle
        /\ asked' = [asked EXCEPT ![c] = Idle]
        /\ result' = [result EXCEPT ![c] = TRUE]
        /\ work' = [work EXCEPT ![s] = Accepted(t)]

Start(s) ==
    \E t \in Tasks :
        /\ work[s] = Accepted(t)
        /\ work' = [work EXCEPT ![s] = Running(t)]
        /\ UNCHANGED <<asked, result>>

Finish(s) ==
    \E t \in Tasks :
        /\ work[s] = Running(t)
        /\ work' = [work EXCEPT ![s] = Idle]
        /\ UNCHANGED <<asked, result>>

Answer(c) == Refuse(c) \/ \E s \in Slots : Accept(c, s)

Next ==
    \/ \E c \in Callers : Answer(c) \/ \E t \in Tasks : Ask(c, t)
    \/ \E s \in Slots : Start(s) \/ Finish(s)

SafeSpec == Init /\ [][Next]_vars

\* Every call is answered and every accepted task is started; whether a task
\* ends is its own affair.
Spec ==
    /\ SafeSpec
    /\ \A c \in Callers : WF_vars(Answer(c))
    /\ \A s \in Slots : WF_vars(Start(s))
=============================================================================
