------------------------------ MODULE TimedIo -------------------------------
(***************************************************************************)
(* Timeouts of branches/zfs.  The threads of the cache record the blocking *)
(* operation they are in (thr_io.cc); the system thread looks at all slots *)
(* at every poll, and closes the socket of an operation that lasts too     *)
(* long to make its thread return (thr_system.cc).  They share the         *)
(* curr_io of the slots, and the numbers of the sockets, without a lock.   *)
(*                                                                         *)
(* Every idle thread may accept: who is delegated to is the subject of     *)
(* Server.  Which operation a request needs next is left open.  Time is    *)
(* counted in polls: tm_start is told by its age.                          *)
(***************************************************************************)
EXTENDS Integers, Sequences, FiniteSets

CONSTANTS nr_slots,
          Clients, NoClient,
          Handles,      \* what the system can name connections by
          expir_delay,
          MaxMessages   \* bound on what each client sends

ASSUME TimedAssumption ==
    /\ nr_slots \in Nat \ {0} /\ IsFiniteSet(Clients) /\ NoClient \notin Clients
    /\ IsFiniteSet(Handles) /\ Cardinality(Handles) >= nr_slots
    /\ expir_delay \in Nat /\ MaxMessages \in Nat

Slots == 1 .. nr_slots
Operations == {"IO_RECV", "IO_SEND", "IO_SENDFILE"}

VARIABLES
    owner,     \* whose connection a handle is
    queue,     \* clients nobody has accepted yet
    peer, unsent, inbox,
    at, op,    \* where a thread is, the operation it is at
    cli_sock,
    client,    \* for the properties: whom the thread has accepted
    curr_io,
    system,    \* where the system thread is
    slot,      \* the slot it looks at
    raced      \* for the properties: what it closed was no longer blocked

world   == <<owner, queue, peer, unsent, inbox>>
threads == <<at, op, cli_sock, client, curr_io>>
watch   == <<system, slot>>
vars    == <<world, threads, watch, raced>>

Age == 0 .. expir_delay + 1

\* io_info_reset: tm_start is 0, as long ago as can be; desc stays.
Reset(io) == [io EXCEPT !.timeouted = FALSE, !.in_progress = FALSE, !.tm_start = expir_delay + 1,
                        !.id = "IO_NONE"]

Init ==
    /\ owner = [h \in Handles |-> NoClient] /\ queue = <<>>
    /\ peer = [c \in Clients |-> "away"] /\ unsent = [c \in Clients |-> MaxMessages]
    /\ inbox = [c \in Clients |-> 0]
    /\ at = [t \in Slots |-> "accept"] /\ op = [t \in Slots |-> "IO_RECV"]
    /\ cli_sock \in {[t \in Slots |-> h] : h \in Handles}  \* not read before accept
    /\ client = [t \in Slots |-> NoClient]
    /\ curr_io = [t \in Slots |-> Reset([hsock |-> cli_sock[t], timeouted |-> FALSE, in_progress |-> FALSE,
                                         tm_start |-> 0, id |-> "IO_NONE"])]
    /\ system = "poll" /\ slot = 1 /\ raced = FALSE

-----------------------------------------------------------------------------
(* Clients.                                                                *)

Connect(c) ==
    /\ peer[c] = "away"
    /\ peer' = [peer EXCEPT ![c] = "open"] /\ queue' = Append(queue, c)
    /\ UNCHANGED <<owner, unsent, inbox, threads, watch, raced>>

SendMessage(c) ==
    /\ peer[c] = "open" /\ unsent[c] > 0
    /\ unsent' = [unsent EXCEPT ![c] = @ - 1] /\ inbox' = [inbox EXCEPT ![c] = @ + 1]
    /\ UNCHANGED <<owner, queue, peer, threads, watch, raced>>

Leave(c) ==
    /\ peer[c] = "open"
    /\ peer' = [peer EXCEPT ![c] = "closed"] /\ unsent' = [unsent EXCEPT ![c] = 0]
    /\ UNCHANGED <<owner, queue, inbox, threads, watch, raced>>

\* insock::close of a handle, if it is open: operations that block on it fail.
\* The handle may be somebody else's by now.
Close(h) ==
    /\ owner' = [owner EXCEPT ![h] = NoClient]
    /\ peer' = [c \in Clients |-> IF c = owner[h] THEN "gone" ELSE peer[c]]
    /\ unsent' = [c \in Clients |-> IF c = owner[h] THEN 0 ELSE unsent[c]]
    /\ inbox' = [c \in Clients |-> IF c = owner[h] THEN 0 ELSE inbox[c]]
    /\ UNCHANGED queue

Fails(where, h) == [t \in Slots |-> IF where[t] = "blocked" /\ cli_sock[t] = h THEN "failed" ELSE where[t]]

-----------------------------------------------------------------------------
(* The threads.                                                            *)

\* sess_reset, io_info_reset and sess_accept_connection; then sess_read_metadata.
Accept(t) ==
    /\ at[t] = "accept" /\ queue # <<>>
    /\ \E h \in {k \in Handles : owner[k] = NoClient} :
           /\ owner' = [owner EXCEPT ![h] = Head(queue)]
           /\ cli_sock' = [cli_sock EXCEPT ![t] = h]
    /\ queue' = Tail(queue)
    /\ client' = [client EXCEPT ![t] = Head(queue)]
    /\ at' = [at EXCEPT ![t] = "reset"]
    /\ UNCHANGED <<peer, unsent, inbox, op, curr_io, watch, raced>>

\* thr::recv, thr::send and flush_network start by resetting what the system
\* thread may be looking at.
ResetIo(t) ==
    /\ at[t] = "reset"
    /\ curr_io' = [curr_io EXCEPT ![t] = Reset(@)]
    /\ at' = [at EXCEPT ![t] = "start"]
    /\ UNCHANGED <<world, op, cli_sock, client, watch, raced>>

Started(t, progress) ==
    /\ at[t] = "start"
    /\ curr_io' = [curr_io EXCEPT ![t] = [@ EXCEPT !.id = op[t], !.hsock = cli_sock[t],
                                                  !.tm_start = 0, !.in_progress = progress]]
    \* an operation on a handle that is not open fails at once
    /\ at' = [at EXCEPT ![t] = IF owner[cli_sock[t]] = NoClient THEN "failed" ELSE "blocked"]
    /\ UNCHANGED <<world, op, cli_sock, client, watch, raced>>

\* Mutant of StartIo: in_progress is not set.
StartUnseen(t) == Started(t, FALSE)

\* The rest of curr_io is filled in, in_progress last; the operation starts.
StartIo(t) == Started(t, TRUE)

\* The system thread has seen the operation of t and is not done with it.
Overtakes(t) == system # "poll" /\ slot = t

\* What the operation was on is the connection the handle names now.
Partner(t) == owner[cli_sock[t]]

\* flush_network sets in_progress again after send_file.
EndIo(t, next) ==
    /\ curr_io' = [curr_io EXCEPT ![t].in_progress = (op[t] = "IO_SENDFILE")]
    /\ at' = [at EXCEPT ![t] = next]
    /\ UNCHANGED <<owner, queue, peer, unsent, op, cli_sock, client, watch>>

\* A message comes.
RecvEnds(t) ==
    /\ at[t] = "blocked" /\ op[t] = "IO_RECV" /\ inbox[Partner(t)] > 0
    /\ inbox' = [inbox EXCEPT ![Partner(t)] = @ - 1]
    /\ EndIo(t, "check")
    /\ raced' = (raced \/ Overtakes(t))

\* The client takes what it is sent, in its own time.
SendEnds(t) ==
    /\ at[t] = "blocked" /\ op[t] # "IO_RECV" /\ peer[Partner(t)] = "open"
    /\ EndIo(t, "check")
    /\ raced' = (raced \/ Overtakes(t))
    /\ UNCHANGED inbox

\* The client has left.
PeerHasLeft(t) ==
    /\ at[t] = "blocked" /\ peer[Partner(t)] = "closed"
    /\ op[t] = "IO_RECV" => inbox[Partner(t)] = 0
    /\ EndIo(t, "release")
    /\ raced' = (raced \/ Overtakes(t))
    /\ UNCHANGED inbox

\* The handle was closed.
IoFails(t) ==
    /\ at[t] = "failed"
    /\ EndIo(t, "release")
    /\ raced' = (raced \/ Overtakes(t))
    /\ UNCHANGED inbox

\* timeouted is looked at after every operation; another follows.  A message is
\* a part of a request or all of it; an answer is sent by one operation.
CheckIo(t) ==
    /\ at[t] = "check"
    /\ \/ curr_io[t].timeouted /\ at' = [at EXCEPT ![t] = "release"] /\ UNCHANGED op
       \/ /\ ~curr_io[t].timeouted
          /\ at' = [at EXCEPT ![t] = "reset"]
          /\ \E o \in IF op[t] = "IO_RECV" THEN Operations ELSE {"IO_RECV"} : op' = [op EXCEPT ![t] = o]
    /\ UNCHANGED <<world, cli_sock, client, curr_io, watch, raced>>

ReleaseWhen(t, mine) ==
    /\ at[t] = "release"
    /\ LET free == [at EXCEPT ![t] = "accept"]
       IN  IF mine THEN Close(cli_sock[t]) /\ at' = Fails(free, cli_sock[t])
                   ELSE UNCHANGED world /\ at' = free
    /\ curr_io' = [curr_io EXCEPT ![t] = Reset(@)]
    /\ client' = [client EXCEPT ![t] = NoClient] /\ op' = [op EXCEPT ![t] = "IO_RECV"]
    /\ UNCHANGED <<cli_sock, watch, raced>>

\* Mutant of Release: the socket is closed whoever has closed it.
ReleaseAnyway(t) == ReleaseWhen(t, TRUE)

\* sess_release: the socket is closed unless the system thread has done it.
Release(t) == ReleaseWhen(t, ~curr_io[t].timeouted)

-----------------------------------------------------------------------------
(* The system thread.                                                      *)

\* The next slot; after the last one nr_ticks is incremented.
Older(age) == IF age \in 0 .. expir_delay THEN age + 1 ELSE age

NextSlotUpTo(last) ==
    /\ system' = "poll"
    /\ slot' = IF slot = last THEN 1 ELSE slot + 1

\* Mutant of NextSlot: one slot too many.
NextSlotOver == NextSlotUpTo(nr_slots + 1)

NextSlot == NextSlotUpTo(nr_slots)

Aged(io) == IF slot = nr_slots THEN [t \in Slots |-> [io[t] EXCEPT !.tm_start = Older(@)]] ELSE io

\* in_progress is looked at ...
LookAtProgress ==
    /\ system = "poll"
    /\ IF curr_io[slot].in_progress
       THEN system' = "time" /\ UNCHANGED <<slot, curr_io>>
       ELSE NextSlot /\ curr_io' = Aged(curr_io)
    /\ UNCHANGED <<world, at, op, cli_sock, client, raced>>

\* ... then tm_start ...
LookAtTime ==
    /\ system = "time"
    /\ IF curr_io[slot].tm_start > expir_delay
       THEN system' = "id" /\ UNCHANGED <<slot, curr_io>>
       ELSE NextSlot /\ curr_io' = Aged(curr_io)
    /\ UNCHANGED <<world, at, op, cli_sock, client, raced>>

\* ... then id: a send_file is let alone ...
LookAtId ==
    /\ system = "id"
    /\ IF curr_io[slot].id \in {"IO_RECV", "IO_SEND"}
       THEN system' = "mark" /\ UNCHANGED <<slot, curr_io>>
       ELSE NextSlot /\ curr_io' = Aged(curr_io)
    /\ UNCHANGED <<world, at, op, cli_sock, client, raced>>

\* ... the operation is marked ...
MarkTimeouted ==
    /\ system = "mark"
    /\ curr_io' = [curr_io EXCEPT ![slot].timeouted = TRUE]
    /\ system' = "close"
    /\ UNCHANGED <<world, at, op, cli_sock, client, slot, raced>>

\* ... and the socket that curr_io names now is closed.
CloseSocket ==
    /\ system = "close"
    /\ Close(curr_io[slot].hsock)
    /\ at' = Fails(at, curr_io[slot].hsock)
    /\ NextSlot /\ curr_io' = Aged(curr_io)
    /\ raced' = (raced \/ at[slot] # "blocked")  \* a poll ago, say
    /\ UNCHANGED <<op, cli_sock, client>>

-----------------------------------------------------------------------------
\* The steps a thread takes without waiting for its client to take something.
ThreadStep(t) ==
    \/ Accept(t) \/ ResetIo(t) \/ StartIo(t)
    \/ RecvEnds(t) \/ PeerHasLeft(t) \/ IoFails(t) \/ CheckIo(t) \/ Release(t)

SystemStep == LookAtProgress \/ LookAtTime \/ LookAtId \/ MarkTimeouted \/ CloseSocket

Next ==
    \/ \E t \in Slots : ThreadStep(t) \/ SendEnds(t)
    \/ SystemStep
    \/ \E c \in Clients : Connect(c) \/ SendMessage(c) \/ Leave(c)

\* Threads are scheduled; clients do not have to send, to take or to leave.
Spec == Init /\ [][Next]_vars /\ WF_vars(SystemStep) /\ \A t \in Slots : WF_vars(ThreadStep(t))

-----------------------------------------------------------------------------
(* Properties.                                                             *)

TimedTypeOK ==
    /\ owner \in [Handles -> Clients \cup {NoClient}] /\ queue \in Seq(Clients)
    /\ peer \in [Clients -> {"away", "open", "closed", "gone"}]
    /\ unsent \in [Clients -> 0 .. MaxMessages] /\ inbox \in [Clients -> 0 .. MaxMessages]
    /\ at \in [Slots -> {"accept", "reset", "start", "blocked", "failed", "check", "release"}]
    /\ op \in [Slots -> Operations]
    /\ cli_sock \in [Slots -> Handles] /\ client \in [Slots -> Clients \cup {NoClient}]
    /\ curr_io \in [Slots -> [hsock : Handles, timeouted : BOOLEAN, in_progress : BOOLEAN,
                              tm_start : Age, id : Operations \cup {"IO_NONE"}]]
    /\ system \in {"poll", "time", "id", "mark", "close"} /\ slot \in Slots
    /\ raced \in BOOLEAN

\* As long as no operation ends between the system thread's look at it and the
\* close, and none is closed again because its thread has not come to notice,
\* every thread has its own client's socket until that is closed for a timeout,
\* nobody else's is ever closed, and no connection is left open with no thread to
\* serve it.
OnlyTheRaceStrays ==
    ~raced =>
        /\ \A t \in Slots : at[t] # "accept" /\ ~curr_io[t].timeouted => owner[cli_sock[t]] = client[t]
        /\ \A h \in Handles : owner[h] # NoClient => \E t \in Slots : client[t] = owner[h] /\ cli_sock[t] = h

\* A client that neither sends nor takes what it is sent does not keep its thread,
\* unless it is sent a file: the system thread lets IO_SENDFILE alone.
ThreadComesBack ==
    \A t \in Slots : []<>(at[t] = "accept" \/ (at[t] = "blocked" /\ op[t] = "IO_SENDFILE"))
=============================================================================
