---------------------------- MODULE TimedIoProofs ----------------------------
(***************************************************************************)
(* Theorems about the timeouts of branches/zfs, for any number of slots,   *)
(* clients and handles, and any delay.                                     *)
(***************************************************************************)
EXTENDS TimedIo, TLAPS, SequenceTheorems

-----------------------------------------------------------------------------
(* The inductive invariant.                                                *)

\* What came and what may come are bounded together.
Typed == TimedTypeOK /\ \A c \in Clients : inbox[c] + unsent[c] <= MaxMessages

\* A client is in one place: away, in the queue once, or with one thread.
OnePlace ==
    /\ \A i \in 1 .. Len(queue) : peer[queue[i]] # "away"
    /\ \A i, j \in 1 .. Len(queue) : queue[i] = queue[j] => i = j
    /\ \A i \in 1 .. Len(queue), t \in Slots : client[t] # queue[i]
    /\ \A t \in Slots : client[t] # NoClient => peer[client[t]] # "away"
    /\ \A t, u \in Slots : client[t] = client[u] /\ client[t] # NoClient => t = u
    /\ \A t \in Slots : client[t] = NoClient <=> at[t] = "accept"

\* The thread has not come back from its operation.
Busy(t) == at[t] \in {"blocked", "failed"}

\* What curr_io says of an operation that lasts is true, and only that of a file
\* is said to last when it does not.
Recorded ==
    \A t \in Slots :
        /\ Busy(t) => curr_io[t].hsock = cli_sock[t] /\ curr_io[t].id = op[t]
        /\ curr_io[t].in_progress => Busy(t) \/ curr_io[t].id = "IO_SENDFILE"

\* Without a race the operation the system thread goes after still lasts.
StillBusy ==
    /\ system \in {"time", "id"} /\ curr_io[slot].id \in {"IO_RECV", "IO_SEND"} => Busy(slot)
    /\ system \in {"mark", "close"} => Busy(slot)
    /\ system = "close" => curr_io[slot].timeouted

\* ... the thread that is about to lose its socket has it,
AboutToLose(t) ==
    system = "close" /\ slot = t /\ at[t] = "blocked" /\ owner[cli_sock[t]] = client[t]

\* ... or has lost it, and is on its way to notice,
HasLost(t) == at[t] \in {"failed", "release"} /\ \A h \in Handles : owner[h] # client[t]

\* ... these are the threads whose operation is marked,
MarkedLose ==
    \A t \in Slots : /\ curr_io[t].timeouted => AboutToLose(t) \/ HasLost(t)
                     /\ at[t] = "failed" => curr_io[t].timeouted

\* ... and the two halves of OnlyTheRaceStrays.
OwnSocket ==
    \A t \in Slots : at[t] # "accept" /\ ~curr_io[t].timeouted => owner[cli_sock[t]] = client[t]
NoneLeftOpen ==
    \A h \in Handles : owner[h] # NoClient => \E t \in Slots : client[t] = owner[h] /\ cli_sock[t] = h

TimedInv ==
    /\ Typed /\ OnePlace /\ Recorded
    /\ ~raced => StillBusy /\ MarkedLose /\ OwnSocket /\ NoneLeftOpen

-----------------------------------------------------------------------------
(* Types.                                                                  *)

IoInfo == [hsock : Handles, timeouted : BOOLEAN, in_progress : BOOLEAN,
           tm_start : Age, id : Operations \cup {"IO_NONE"}]

\* io_info_reset forgets the operation and the mark, and keeps the descriptor.
LEMMA ResetTyped ==
    ASSUME NEW io \in IoInfo
    PROVE  /\ Reset(io) \in IoInfo
           /\ Reset(io).hsock = io.hsock
           /\ Reset(io).timeouted = FALSE /\ Reset(io).in_progress = FALSE
           /\ Reset(io).id = "IO_NONE"
<1>1. expir_delay + 1 \in Age
  BY TimedAssumption DEF Age
<1> QED BY <1>1 DEF Reset, IoInfo

LEMMA AgedTyped ==
    ASSUME Typed, NEW io \in [Slots -> IoInfo]
    PROVE  /\ Aged(io) \in [Slots -> IoInfo]
           /\ \A t \in Slots : /\ Aged(io)[t].hsock = io[t].hsock
                               /\ Aged(io)[t].timeouted = io[t].timeouted
                               /\ Aged(io)[t].in_progress = io[t].in_progress
                               /\ Aged(io)[t].id = io[t].id
<1>1. \A age \in Age : Older(age) \in Age
  BY TimedAssumption DEF Older, Age
<1> QED BY <1>1 DEF Aged, IoInfo

LEMMA CloseTyped ==
    ASSUME Typed, NEW h \in Handles, Close(h)
    PROVE  /\ owner' \in [Handles -> Clients \cup {NoClient}]
           /\ queue' \in Seq(Clients)
           /\ peer' \in [Clients -> {"away", "open", "closed", "gone"}]
           /\ unsent' \in [Clients -> 0 .. MaxMessages] /\ inbox' \in [Clients -> 0 .. MaxMessages]
           /\ \A c \in Clients : inbox'[c] + unsent'[c] <= MaxMessages
<1>1. MaxMessages \in Nat /\ 0 \in 0 .. MaxMessages
  BY TimedAssumption
<1> QED BY <1>1 DEF Typed, TimedTypeOK, Close

LEMMA OneTaken ==
    ASSUME NEW box \in [Clients -> 0 .. MaxMessages], NEW c \in Clients, box[c] > 0
    PROVE  /\ [box EXCEPT ![c] = @ - 1] \in [Clients -> 0 .. MaxMessages]
           /\ \A d \in Clients : [box EXCEPT ![c] = @ - 1][d] <= box[d]
<1>1. MaxMessages \in Nat
  BY TimedAssumption
<1>2. \A d \in Clients : box[d] \in Nat /\ box[d] <= MaxMessages
  BY <1>1
<1>3. box[c] - 1 \in 0 .. MaxMessages
  BY <1>1, <1>2
<1> QED BY <1>1, <1>2, <1>3

Places == {"accept", "reset", "start", "blocked", "failed", "check", "release"}

LEMMA FailsTyped ==
    ASSUME NEW where \in [Slots -> Places], NEW h
    PROVE  Fails(where, h) \in [Slots -> Places]
  BY DEF Fails, Places

\* Where the other threads are when one of them closes its socket.
LEMMA ReleaseTyped ==
    ASSUME at \in [Slots -> Places], NEW t \in Slots, Release(t)
    PROVE  at' \in [Slots -> Places]
<1> DEFINE free == [at EXCEPT ![t] = "accept"]
<1>1. at' = free \/ at' = Fails(free, cli_sock[t])
  BY DEF Release, ReleaseWhen
<1>2. free \in [Slots -> Places]
  BY DEF Places
<1> HIDE DEF free
<1> QED BY <1>1, <1>2, FailsTyped

LEMMA InitTyped == Init => Typed
<1> SUFFICES ASSUME Init PROVE Typed
  OBVIOUS
<1>1. /\ MaxMessages \in Nat /\ expir_delay \in Nat /\ nr_slots \in Nat \ {0}
  BY TimedAssumption
<1>2. PICK h \in Handles : cli_sock = [t \in Slots |-> h]
  BY DEF Init
<1>3. curr_io \in [Slots -> IoInfo]
  <2> DEFINE io(t) == [hsock |-> cli_sock[t], timeouted |-> FALSE, in_progress |-> FALSE,
                       tm_start |-> 0, id |-> "IO_NONE"]
  <2>1. ASSUME NEW t \in Slots PROVE io(t) \in IoInfo
    BY <1>1, <1>2 DEF IoInfo, Age
  <2>2. ASSUME NEW t \in Slots PROVE Reset(io(t)) \in IoInfo
    BY <2>1, ResetTyped
  <2>3. curr_io = [t \in Slots |-> Reset(io(t))]
    BY DEF Init
  <2> QED BY <2>2, <2>3
<1>4. IoInfo = [hsock : Handles, timeouted : BOOLEAN, in_progress : BOOLEAN,
                tm_start : Age, id : Operations \cup {"IO_NONE"}]
  BY DEF IoInfo
<1>5. MaxMessages \in 0 .. MaxMessages /\ 0 \in 0 .. MaxMessages /\ 0 + MaxMessages <= MaxMessages
      /\ 1 \in Slots /\ "IO_RECV" \in Operations
  BY <1>1 DEF Slots, Operations
<1>6. /\ owner \in [Handles -> Clients \cup {NoClient}] /\ queue \in Seq(Clients)
      /\ peer \in [Clients -> {"away", "open", "closed", "gone"}]
  BY DEF Init
<1>7. /\ unsent \in [Clients -> 0 .. MaxMessages] /\ inbox \in [Clients -> 0 .. MaxMessages]
      /\ \A c \in Clients : inbox[c] + unsent[c] <= MaxMessages
  BY <1>5 DEF Init
<1>8. /\ at \in [Slots -> {"accept", "reset", "start", "blocked", "failed", "check", "release"}]
      /\ op \in [Slots -> Operations]
      /\ cli_sock \in [Slots -> Handles] /\ client \in [Slots -> Clients \cup {NoClient}]
  BY <1>2, <1>5 DEF Init
<1>9. /\ system \in {"poll", "time", "id", "mark", "close"} /\ slot \in Slots /\ raced \in BOOLEAN
  BY <1>5 DEF Init
<1> QED BY <1>3, <1>4, <1>6, <1>7, <1>8, <1>9 DEF Typed, TimedTypeOK

LEMMA Typing == Typed /\ [Next]_vars => Typed'
<1> SUFFICES ASSUME Typed, [Next]_vars PROVE Typed'
  OBVIOUS
<1> DEFINE Ios == [hsock : Handles, timeouted : BOOLEAN, in_progress : BOOLEAN,
                   tm_start : Age, id : Operations \cup {"IO_NONE"}]
<1>0. Ios = IoInfo
  BY DEF IoInfo
<1>1. /\ MaxMessages \in Nat /\ expir_delay \in Nat /\ nr_slots \in Nat \ {0}
  BY TimedAssumption
<1>2. ASSUME NEW io \in Ios PROVE Reset(io) \in Ios
  BY <1>0, ResetTyped
<1> USE DEF Typed, TimedTypeOK, Places
<1>a. Aged(curr_io) \in [Slots -> Ios]
  BY <1>0, AgedTyped
<1>4. ASSUME NEW t \in Slots, ThreadStep(t) \/ SendEnds(t)
      PROVE  Typed'
  <2>1. ASSUME NEW next \in Places, EndIo(t, next), raced' = (raced \/ Overtakes(t)),
               \/ inbox' = inbox
               \/ inbox' = [inbox EXCEPT ![Partner(t)] = @ - 1] /\ inbox[Partner(t)] > 0
        PROVE  Typed'
    <3>1. /\ inbox' \in [Clients -> 0 .. MaxMessages]
          /\ \A c \in Clients : inbox'[c] <= inbox[c]
      <4>1. CASE Partner(t) \in Clients
        <5>1. inbox[Partner(t)] > 0 => /\ [inbox EXCEPT ![Partner(t)] = @ - 1] \in [Clients -> 0 .. MaxMessages]
                                       /\ \A d \in Clients : [inbox EXCEPT ![Partner(t)] = @ - 1][d] <= inbox[d]
          BY <4>1, OneTaken
        <5>2. inbox' = inbox => \A d \in Clients : inbox'[d] <= inbox[d]
          BY <1>1
        <5> QED BY <2>1, <5>1, <5>2
      <4>2. CASE Partner(t) \notin Clients
        BY <1>1, <2>1, <4>2
      <4> QED BY <4>1, <4>2
    <3>2. curr_io' \in [Slots -> Ios]
      <4>1. PICK b \in BOOLEAN : curr_io' = [curr_io EXCEPT ![t].in_progress = b]
        BY <2>1, (op[t] = "IO_SENDFILE") \in BOOLEAN DEF EndIo
      <4> QED BY <4>1
    <3>3. raced' \in BOOLEAN
      BY <2>1 DEF Overtakes
    <3>4. \A c \in Clients : inbox'[c] + unsent[c] <= MaxMessages
      BY <1>1, <3>1
    <3> QED BY <2>1, <3>1, <3>2, <3>3, <3>4 DEF EndIo, watch
  <2>2. CASE Accept(t)
    <3>1. queue \in Seq(Clients) /\ queue # <<>>
      BY <2>2 DEF Accept
    <3>2. Head(queue) \in Clients /\ Tail(queue) \in Seq(Clients)
      BY <3>1, HeadTailProperties
    <3> QED BY <2>2, <3>2 DEF Accept, watch
  <2>3. CASE ResetIo(t)
    BY <1>2, <2>3 DEF ResetIo, world, watch
  <2>4. CASE StartIo(t)
    <3>1. 0 \in Age
      BY <1>1 DEF Age
    <3> QED BY <2>4, <3>1 DEF StartIo, Started, world, watch
  <2>5. CASE RecvEnds(t)
    BY <2>1, <2>5 DEF RecvEnds
  <2>6. CASE SendEnds(t)
    BY <2>1, <2>6 DEF SendEnds
  <2>7. CASE PeerHasLeft(t) \/ IoFails(t)
    BY <2>1, <2>7 DEF PeerHasLeft, IoFails
  <2>8. CASE CheckIo(t)
    BY <2>8 DEF CheckIo, world, watch, Operations
  <2>9. CASE Release(t)
    <3>1. Close(cli_sock[t]) \/ UNCHANGED world
      BY <2>9 DEF Release, ReleaseWhen
    <3>2. at' \in [Slots -> Places]
      BY <2>9, ReleaseTyped DEF Places
    <3>3. curr_io' \in [Slots -> Ios]
      BY <1>2, <2>9 DEF Release, ReleaseWhen
    <3>4. /\ owner' \in [Handles -> Clients \cup {NoClient}] /\ queue' \in Seq(Clients)
          /\ peer' \in [Clients -> {"away", "open", "closed", "gone"}]
          /\ unsent' \in [Clients -> 0 .. MaxMessages] /\ inbox' \in [Clients -> 0 .. MaxMessages]
          /\ \A c \in Clients : inbox'[c] + unsent'[c] <= MaxMessages
      BY <3>1, CloseTyped DEF world
    <3> QED BY <2>9, <3>2, <3>3, <3>4 DEF Release, ReleaseWhen, watch, Operations
  <2> QED BY <1>4, <2>2, <2>3, <2>4, <2>5, <2>6, <2>7, <2>8, <2>9 DEF ThreadStep
<1>5. CASE SystemStep
  <2>1. NextSlot => slot' \in Slots
    BY <1>1 DEF NextSlot, NextSlotUpTo, Slots
  <2>2. Aged(curr_io) \in [Slots -> Ios]
    BY <1>a
  <2>3. CASE LookAtProgress
    BY <2>1, <2>2, <2>3 DEF LookAtProgress, NextSlot, NextSlotUpTo, world
  <2>4. CASE LookAtTime
    BY <2>1, <2>2, <2>4 DEF LookAtTime, NextSlot, NextSlotUpTo, world
  <2>5. CASE LookAtId
    BY <2>1, <2>2, <2>5 DEF LookAtId, NextSlot, NextSlotUpTo, world
  <2>6. CASE MarkTimeouted
    BY <2>6 DEF MarkTimeouted, world
  <2>7. CASE CloseSocket
    <3>1. /\ Close(curr_io[slot].hsock) /\ curr_io[slot].hsock \in Handles
      BY <2>7 DEF CloseSocket
    <3>2. /\ owner' \in [Handles -> Clients \cup {NoClient}] /\ queue' \in Seq(Clients)
          /\ peer' \in [Clients -> {"away", "open", "closed", "gone"}]
          /\ unsent' \in [Clients -> 0 .. MaxMessages] /\ inbox' \in [Clients -> 0 .. MaxMessages]
          /\ \A c \in Clients : inbox'[c] + unsent'[c] <= MaxMessages
      BY <3>1, CloseTyped
    <3>3. at' \in [Slots -> Places]
      BY <2>7, FailsTyped DEF CloseSocket, Places
    <3> QED BY <2>1, <2>2, <2>7, <3>2, <3>3 DEF CloseSocket, NextSlot, NextSlotUpTo
  <2> QED BY <1>5, <2>3, <2>4, <2>5, <2>6, <2>7 DEF SystemStep
<1>6. ASSUME NEW c \in Clients, Connect(c) \/ SendMessage(c) \/ Leave(c)
      PROVE  Typed'
  <2>1. CASE Connect(c)
    BY <2>1, AppendProperties DEF Connect, threads, watch
  <2>2. CASE SendMessage(c)
    BY <1>1, <2>2 DEF SendMessage, threads, watch
  <2>3. CASE Leave(c)
    BY <1>1, <2>3 DEF Leave, threads, watch
  <2> QED BY <1>6, <2>1, <2>2, <2>3
<1>7. CASE UNCHANGED vars
  BY <1>7 DEF vars, world, threads, watch
<1> QED BY <1>4, <1>5, <1>6, <1>7 DEF Next

\* Type correctness of the module: the fields of curr_io, the places of the
\* threads and the slot the system thread looks at stay in their types, whoever
\* writes them when.
THEOREM TimedTypeCorrect == Spec => []TimedTypeOK
  BY InitTyped, Typing, PTL DEF Spec, Typed

-----------------------------------------------------------------------------
(* Clients and threads.                                                    *)

\* The steps that end an operation.
Ends(t) == RecvEnds(t) \/ SendEnds(t) \/ PeerHasLeft(t) \/ IoFails(t)

LEMMA EndsDoes ==
    ASSUME NEW t \in Slots, Ends(t)
    PROVE  \E next \in {"check", "release"} :
               /\ EndIo(t, next) /\ Busy(t) /\ (at[t] = "failed" => next = "release")
               /\ raced' = (raced \/ Overtakes(t))
  BY DEF Ends, RecvEnds, SendEnds, PeerHasLeft, IoFails, Busy

LEMMA FailsKeeps ==
    ASSUME NEW where \in [Slots -> Places], NEW h \in Handles, NEW u \in Slots
    PROVE  /\ Fails(where, h)[u] = "accept" <=> where[u] = "accept"
           /\ Fails(where, h)[u] \in {"blocked", "failed"} <=> where[u] \in {"blocked", "failed"}
           /\ Fails(where, h)[u] # "failed" => Fails(where, h)[u] = where[u]
           /\ where[u] = "blocked" /\ cli_sock[u] = h => Fails(where, h)[u] = "failed"
           /\ where[u] # "blocked" \/ cli_sock[u] # h => Fails(where, h)[u] = where[u]
  BY DEF Fails, Places

\* What Release does to the places of the threads and to the connections.
LEMMA ReleaseDoes ==
    ASSUME Typed, NEW t \in Slots, Release(t)
    PROVE  /\ at[t] = "release" /\ at'[t] = "accept"
           /\ \A u \in Slots \ {t} :
                  /\ at'[u] = "accept" <=> at[u] = "accept"
                  /\ Busy(u)' <=> Busy(u)
                  /\ at'[u] # "failed" => at'[u] = at[u]
                  /\ (at[u] = "blocked" /\ cli_sock[u] = cli_sock[t] /\ ~curr_io[t].timeouted)
                     \/ at'[u] = at[u]
           /\ queue' = queue
           /\ \A c \in Clients : peer'[c] = "away" => peer[c] = "away"
           /\ IF curr_io[t].timeouted THEN owner' = owner
              ELSE owner' = [owner EXCEPT ![cli_sock[t]] = NoClient]
<1> DEFINE free == [at EXCEPT ![t] = "accept"]
<1>1. at \in [Slots -> Places] /\ cli_sock[t] \in Handles
  BY DEF Typed, TimedTypeOK, Places
<1>2. /\ free \in [Slots -> Places] /\ free[t] = "accept"
      /\ \A u \in Slots \ {t} : free[u] = at[u]
  BY <1>1 DEF Places
<1>3. /\ IF ~curr_io[t].timeouted THEN Close(cli_sock[t]) /\ at' = Fails(free, cli_sock[t])
                                  ELSE UNCHANGED world /\ at' = free
      /\ at[t] = "release"
  BY DEF Release, ReleaseWhen
<1> HIDE DEF free
<1>4. CASE curr_io[t].timeouted
  BY <1>2, <1>3, <1>4 DEF world, Busy
<1>5. CASE ~curr_io[t].timeouted
  <2>1. Close(cli_sock[t]) /\ at' = Fails(free, cli_sock[t])
    BY <1>3, <1>5
  <2>2. \A u \in Slots :
            /\ at'[u] = "accept" <=> free[u] = "accept"
            /\ at'[u] \in {"blocked", "failed"} <=> free[u] \in {"blocked", "failed"}
            /\ at'[u] # "failed" => at'[u] = free[u]
            /\ free[u] # "blocked" \/ cli_sock[u] # cli_sock[t] => at'[u] = free[u]
    BY <1>1, <1>2, <2>1, FailsKeeps
  <2>3. /\ queue' = queue /\ owner' = [owner EXCEPT ![cli_sock[t]] = NoClient]
        /\ \A c \in Clients : peer'[c] = "away" => peer[c] = "away"
    BY <2>1 DEF Close
  <2> QED BY <1>2, <1>3, <1>5, <2>2, <2>3 DEF Busy
<1> QED BY <1>4, <1>5

\* The same of CloseSocket, for a thread whose descriptor is recorded.
LEMMA CloseSocketDoes ==
    ASSUME Typed, CloseSocket
    PROVE  /\ \A u \in Slots :
                  /\ at'[u] = "accept" <=> at[u] = "accept"
                  /\ Busy(u)' <=> Busy(u)
                  /\ at'[u] # "failed" => at'[u] = at[u]
                  /\ at[u] = "blocked" /\ cli_sock[u] = curr_io[slot].hsock => at'[u] = "failed"
                  /\ at[u] # "blocked" \/ cli_sock[u] # curr_io[slot].hsock => at'[u] = at[u]
           /\ queue' = queue /\ client' = client /\ cli_sock' = cli_sock /\ op' = op
           /\ \A c \in Clients : peer'[c] = "away" => peer[c] = "away"
           /\ owner' = [owner EXCEPT ![curr_io[slot].hsock] = NoClient]
           /\ system = "close" /\ system' = "poll"
           /\ curr_io' = Aged(curr_io)
           /\ raced' = (raced \/ at[slot] # "blocked")
<1>1. at \in [Slots -> Places] /\ curr_io[slot].hsock \in Handles
  BY DEF Typed, TimedTypeOK, Places
<1>2. Close(curr_io[slot].hsock) /\ at' = Fails(at, curr_io[slot].hsock)
  BY DEF CloseSocket
<1>3. \A u \in Slots :
          /\ at'[u] = "accept" <=> at[u] = "accept"
          /\ at'[u] \in {"blocked", "failed"} <=> at[u] \in {"blocked", "failed"}
          /\ at'[u] # "failed" => at'[u] = at[u]
          /\ at[u] = "blocked" /\ cli_sock[u] = curr_io[slot].hsock => at'[u] = "failed"
          /\ at[u] # "blocked" \/ cli_sock[u] # curr_io[slot].hsock => at'[u] = at[u]
  BY <1>1, <1>2, FailsKeeps
<1>4. /\ queue' = queue /\ owner' = [owner EXCEPT ![curr_io[slot].hsock] = NoClient]
      /\ \A c \in Clients : peer'[c] = "away" => peer[c] = "away"
  BY <1>2 DEF Close
<1> QED BY <1>3, <1>4 DEF CloseSocket, NextSlot, NextSlotUpTo, Busy

\* The three looks of the system thread.
Looks == LookAtProgress \/ LookAtTime \/ LookAtId

LEMMA LooksDo ==
    ASSUME Typed, Looks
    PROVE  /\ UNCHANGED <<owner, queue, peer, at, op, cli_sock, client, raced>>
           /\ system \in {"poll", "time", "id"}
           /\ curr_io' = curr_io \/ (curr_io' = Aged(curr_io) /\ system' = "poll")
           /\ \/ system' = "poll"
              \/ system' = "time" /\ slot' = slot /\ curr_io[slot].in_progress
              \/ system' = "id" /\ slot' = slot /\ system = "time"
              \/ system' = "mark" /\ slot' = slot /\ system = "id"
                 /\ curr_io[slot].id \in {"IO_RECV", "IO_SEND"}
  BY DEF Looks, LookAtProgress, LookAtTime, LookAtId, NextSlot, NextSlotUpTo, world

LEMMA OnePlaceStep == TimedInv /\ [Next]_vars => OnePlace'
<1> SUFFICES ASSUME TimedInv, [Next]_vars PROVE OnePlace'
  OBVIOUS
<1>1. /\ queue \in Seq(Clients) /\ client \in [Slots -> Clients \cup {NoClient}]
      /\ at \in [Slots -> Places] /\ peer \in [Clients -> {"away", "open", "closed", "gone"}]
      /\ NoClient \notin Clients
  BY TimedAssumption DEF TimedInv, Typed, TimedTypeOK, Places
<1>2. OnePlace
  BY DEF TimedInv
<1>3. ASSUME queue' = queue, client' = client,
             \A c \in Clients : peer'[c] = "away" => peer[c] = "away",
             \A u \in Slots : at'[u] = "accept" <=> at[u] = "accept"
      PROVE  OnePlace'
  BY <1>1, <1>2, <1>3 DEF OnePlace
<1>4. ASSUME NEW t \in Slots, ThreadStep(t) \/ SendEnds(t)
      PROVE  OnePlace'
  <2>1. CASE Accept(t)
    <3>1. /\ queue # <<>> /\ queue' = Tail(queue) /\ peer' = peer /\ at[t] = "accept"
          /\ at' = [at EXCEPT ![t] = "reset"] /\ client' = [client EXCEPT ![t] = Head(queue)]
      BY <2>1 DEF Accept
    <3>2. /\ Head(queue) = queue[1] /\ Len(queue') = Len(queue) - 1 /\ Len(queue) \in Nat
          /\ Len(queue) >= 1 /\ Head(queue) \in Clients
          /\ \A i \in 1 .. Len(queue') : queue'[i] = queue[i + 1]
      BY <1>1, <3>1, HeadTailProperties, EmptySeq, LenProperties
    <3>3. \A i \in 1 .. Len(queue') : i + 1 \in 1 .. Len(queue) /\ i + 1 # 1
      BY <3>2
    <3>4. 1 \in 1 .. Len(queue)
      BY <3>2
    <3>5. \A i \in 1 .. Len(queue') : peer'[queue'[i]] # "away" /\ queue'[i] # Head(queue)
      BY <1>2, <3>1, <3>2, <3>3, <3>4 DEF OnePlace
    <3>6. \A i, j \in 1 .. Len(queue') : queue'[i] = queue'[j] => i = j
      <4> SUFFICES ASSUME NEW i \in 1 .. Len(queue'), NEW j \in 1 .. Len(queue'), queue'[i] = queue'[j]
                   PROVE  i = j
        OBVIOUS
      <4>1. i + 1 = j + 1
        BY <1>2, <3>2, <3>3 DEF OnePlace
      <4> QED BY <4>1
    <3>7. \A i \in 1 .. Len(queue'), u \in Slots : client'[u] # queue'[i]
      BY <1>1, <1>2, <3>1, <3>2, <3>3, <3>5 DEF OnePlace
    <3>8. \A u \in Slots : client'[u] # NoClient => peer'[client'[u]] # "away"
      BY <1>1, <1>2, <3>1, <3>2, <3>4 DEF OnePlace
    <3>9. /\ \A u, v \in Slots : client'[u] = client'[v] /\ client'[u] # NoClient => u = v
          /\ \A u \in Slots : client'[u] = NoClient <=> at'[u] = "accept"
      BY <1>1, <1>2, <3>1, <3>2, <3>4 DEF OnePlace
    <3> QED BY <3>5, <3>6, <3>7, <3>8, <3>9 DEF OnePlace
  <2>2. CASE ResetIo(t) \/ StartIo(t) \/ CheckIo(t)
    BY <1>1, <1>3, <2>2 DEF ResetIo, StartIo, Started, CheckIo, world
  <2>3. CASE Ends(t)
    BY <1>1, <1>3, <2>3, EndsDoes DEF EndIo, Busy
  <2>4. CASE Release(t)
    <3>1. /\ at'[t] = "accept" /\ queue' = queue
          /\ \A u \in Slots \ {t} : at'[u] = "accept" <=> at[u] = "accept"
          /\ \A c \in Clients : peer'[c] = "away" => peer[c] = "away"
      BY <2>4, ReleaseDoes DEF TimedInv
    <3>2. client' = [client EXCEPT ![t] = NoClient]
      BY <2>4 DEF Release, ReleaseWhen
    <3> QED BY <1>1, <1>2, <3>1, <3>2 DEF OnePlace
  <2> QED BY <1>4, <2>1, <2>2, <2>3, <2>4 DEF ThreadStep, Ends
<1>5. CASE SystemStep
  <2>1. CASE Looks
    BY <1>3, <2>1, LooksDo DEF TimedInv
  <2>2. CASE MarkTimeouted
    BY <1>3, <2>2 DEF MarkTimeouted, world
  <2>3. CASE CloseSocket
    BY <1>3, <2>3, CloseSocketDoes DEF TimedInv
  <2> QED BY <1>5, <2>1, <2>2, <2>3 DEF SystemStep, Looks
<1>6. ASSUME NEW c \in Clients, Connect(c) \/ SendMessage(c) \/ Leave(c)
      PROVE  OnePlace'
  <2>1. CASE SendMessage(c) \/ Leave(c)
    BY <1>1, <1>3, <2>1 DEF SendMessage, Leave, threads
  <2>2. CASE Connect(c)
    <3>1. /\ peer[c] = "away" /\ peer' = [peer EXCEPT ![c] = "open"] /\ queue' = Append(queue, c)
          /\ client' = client /\ at' = at
      BY <2>2 DEF Connect, threads
    <3>2. /\ Len(queue') = Len(queue) + 1 /\ Len(queue) \in Nat
          /\ \A i \in 1 .. Len(queue) : queue'[i] = queue[i]
          /\ queue'[Len(queue) + 1] = c
      BY <1>1, <3>1, AppendProperties, LenProperties
    <3>3. \A i \in 1 .. Len(queue') : (queue'[i] = c /\ i = Len(queue) + 1)
                                      \/ (i \in 1 .. Len(queue) /\ queue'[i] = queue[i] /\ queue'[i] # c)
      BY <1>2, <3>1, <3>2 DEF OnePlace
    <3>4. \A u \in Slots : client[u] # c
      BY <1>1, <1>2, <3>1 DEF OnePlace
    <3>5. \A i \in 1 .. Len(queue) : queue[i] \in Clients
      BY <1>1, ElementOfSeq
    <3>6. \A i \in 1 .. Len(queue') : peer'[queue'[i]] # "away"
      BY <1>1, <1>2, <3>1, <3>3, <3>5 DEF OnePlace
    <3>7. \A i, j \in 1 .. Len(queue') : queue'[i] = queue'[j] => i = j
      BY <1>2, <3>3 DEF OnePlace
    <3>8. \A i \in 1 .. Len(queue'), u \in Slots : client'[u] # queue'[i]
      BY <1>2, <3>1, <3>3, <3>4 DEF OnePlace
    <3>9. \A u \in Slots : client'[u] # NoClient => peer'[client'[u]] # "away"
      BY <1>1, <1>2, <3>1, <3>4 DEF OnePlace
    <3> QED BY <1>2, <3>1, <3>6, <3>7, <3>8, <3>9 DEF OnePlace
  <2> QED BY <1>6, <2>1, <2>2
<1>7. CASE UNCHANGED vars
  BY <1>3, <1>7 DEF vars, world, threads
<1> QED BY <1>4, <1>5, <1>6, <1>7 DEF Next

-----------------------------------------------------------------------------
(* What curr_io says.                                                      *)

LEMMA RecordedStep == TimedInv /\ [Next]_vars => Recorded'
<1> SUFFICES ASSUME TimedInv, [Next]_vars PROVE Recorded'
  OBVIOUS
<1>1. /\ at \in [Slots -> Places] /\ op \in [Slots -> Operations] /\ curr_io \in [Slots -> IoInfo]
      /\ cli_sock \in [Slots -> Handles]
  BY DEF TimedInv, Typed, TimedTypeOK, Places, IoInfo
<1>2. Recorded /\ Typed
  BY DEF TimedInv
<1>3. ASSUME \A u \in Slots : /\ curr_io'[u].hsock = curr_io[u].hsock /\ curr_io'[u].id = curr_io[u].id
                              /\ curr_io'[u].in_progress = curr_io[u].in_progress
                              /\ Busy(u)' <=> Busy(u),
             cli_sock' = cli_sock, op' = op
      PROVE  Recorded'
  BY <1>2, <1>3 DEF Recorded
<1>4. ASSUME NEW t \in Slots, ThreadStep(t) \/ SendEnds(t)
      PROVE  Recorded'
  <2>1. CASE Accept(t)
    <3>1. /\ at[t] = "accept" /\ at' = [at EXCEPT ![t] = "reset"] /\ curr_io' = curr_io /\ op' = op
          /\ \A u \in Slots \ {t} : cli_sock'[u] = cli_sock[u]
      BY <1>1, <2>1 DEF Accept
    <3> QED BY <1>1, <1>2, <3>1 DEF Recorded, Busy
  <2>2. CASE ResetIo(t)
    <3>1. curr_io'[t].in_progress = FALSE /\ at' = [at EXCEPT ![t] = "start"]
      BY <1>1, <2>2, ResetTyped DEF ResetIo
    <3> QED BY <1>1, <1>2, <2>2, <3>1 DEF ResetIo, Recorded, Busy
  <2>3. CASE StartIo(t)
    <3>1. /\ curr_io'[t].hsock = cli_sock[t] /\ curr_io'[t].id = op[t]
          /\ \A u \in Slots \ {t} : curr_io'[u] = curr_io[u]
      BY <1>1, <2>3 DEF StartIo, Started, IoInfo
    <3>2. /\ at'[t] \in {"blocked", "failed"} /\ cli_sock' = cli_sock /\ op' = op
          /\ \A u \in Slots \ {t} : at'[u] = at[u]
      BY <1>1, <2>3 DEF StartIo, Started
    <3> QED BY <1>2, <3>1, <3>2 DEF Recorded, Busy
  <2>4. CASE Ends(t)
    <3>1. PICK next \in {"check", "release"} : EndIo(t, next) /\ Busy(t)
      BY <2>4, EndsDoes
    <3>2. /\ curr_io'[t].id = curr_io[t].id /\ (curr_io'[t].in_progress => op[t] = "IO_SENDFILE")
          /\ \A u \in Slots \ {t} : curr_io'[u] = curr_io[u]
      BY <1>1, <3>1 DEF EndIo, IoInfo
    <3>3. at' = [at EXCEPT ![t] = next] /\ cli_sock' = cli_sock /\ op' = op
      BY <3>1 DEF EndIo
    <3> QED BY <1>1, <1>2, <3>1, <3>2, <3>3 DEF Recorded, Busy
  <2>5. CASE CheckIo(t)
    BY <1>1, <1>2, <2>5 DEF CheckIo, Recorded, Busy
  <2>6. CASE Release(t)
    <3>1. /\ at'[t] = "accept" /\ at[t] = "release"
          /\ \A u \in Slots \ {t} : Busy(u)' <=> Busy(u)
      BY <1>2, <2>6, ReleaseDoes
    <3>2. /\ curr_io'[t].in_progress = FALSE
          /\ \A u \in Slots \ {t} : curr_io'[u] = curr_io[u] /\ op'[u] = op[u]
      BY <1>1, <2>6, ResetTyped DEF Release, ReleaseWhen
    <3>3. cli_sock' = cli_sock
      BY <2>6 DEF Release, ReleaseWhen
    <3> QED BY <1>2, <3>1, <3>2, <3>3 DEF Recorded, Busy
  <2> QED BY <1>4, <2>1, <2>2, <2>3, <2>4, <2>5, <2>6 DEF ThreadStep, Ends
<1>5. CASE SystemStep
  <2>1. CASE Looks
    <3>1. /\ at' = at /\ op' = op /\ cli_sock' = cli_sock
          /\ curr_io' = curr_io \/ curr_io' = Aged(curr_io)
      BY <1>2, <2>1, LooksDo
    <3> QED BY <1>1, <1>2, <1>3, <3>1, AgedTyped DEF Busy
  <2>2. CASE MarkTimeouted
    BY <1>1, <1>3, <2>2 DEF MarkTimeouted, IoInfo, Busy
  <2>3. CASE CloseSocket
    <3>1. /\ cli_sock' = cli_sock /\ op' = op /\ curr_io' = Aged(curr_io)
          /\ \A u \in Slots : Busy(u)' <=> Busy(u)
      BY <1>2, <2>3, CloseSocketDoes
    <3> QED BY <1>1, <1>2, <1>3, <3>1, AgedTyped
  <2> QED BY <1>5, <2>1, <2>2, <2>3 DEF SystemStep, Looks
<1>6. ASSUME NEW c \in Clients, Connect(c) \/ SendMessage(c) \/ Leave(c)
      PROVE  Recorded'
  BY <1>3, <1>6 DEF Connect, SendMessage, Leave, threads, Busy
<1>7. CASE UNCHANGED vars
  BY <1>3, <1>7 DEF vars, threads, Busy
<1> QED BY <1>4, <1>5, <1>6, <1>7 DEF Next

-----------------------------------------------------------------------------
(* Sockets, as long as nothing has raced.                                  *)

\* What holds until a race.
Straight == StillBusy /\ MarkedLose /\ OwnSocket /\ NoneLeftOpen

LEMMA ThreadsStayStraight ==
    ASSUME TimedInv, Straight, ~raced, ~raced', NEW t \in Slots, ThreadStep(t) \/ SendEnds(t)
    PROVE  Straight'
<1>1. /\ at \in [Slots -> Places] /\ op \in [Slots -> Operations] /\ curr_io \in [Slots -> IoInfo]
      /\ cli_sock \in [Slots -> Handles] /\ client \in [Slots -> Clients \cup {NoClient}]
      /\ owner \in [Handles -> Clients \cup {NoClient}] /\ queue \in Seq(Clients)
      /\ NoClient \notin Clients /\ slot \in Slots
      /\ \A u \in Slots : curr_io[u].timeouted \in BOOLEAN
  BY TimedAssumption DEF TimedInv, Typed, TimedTypeOK, Places, IoInfo
<1>2. Typed /\ OnePlace /\ Recorded
  BY DEF TimedInv
<1>3. /\ \A u \in Slots : client[u] = NoClient <=> at[u] = "accept"
      /\ \A u, v \in Slots : client[u] = client[v] /\ client[u] # NoClient => u = v
  BY <1>2 DEF OnePlace
\* A thread that is at neither of these places has no mark and its own socket.
<1>4. ASSUME at[t] \notin {"accept", "blocked", "failed", "release"}
      PROVE  ~curr_io[t].timeouted /\ owner[cli_sock[t]] = client[t] /\ client[t] \in Clients
  BY <1>1, <1>3, <1>4 DEF Straight, MarkedLose, AboutToLose, HasLost, OwnSocket
<1>5. CASE Accept(t)
  <2>1. PICK h \in Handles : /\ owner[h] = NoClient
                             /\ owner' = [owner EXCEPT ![h] = Head(queue)]
                             /\ cli_sock' = [cli_sock EXCEPT ![t] = h]
    BY <1>5 DEF Accept
  <2>2. /\ at[t] = "accept" /\ at' = [at EXCEPT ![t] = "reset"] /\ queue # <<>>
        /\ client' = [client EXCEPT ![t] = Head(queue)]
        /\ curr_io' = curr_io /\ system' = system /\ slot' = slot
    BY <1>5 DEF Accept, watch
  <2>3. Head(queue) \in Clients
    BY <1>1, <2>2, HeadTailProperties
  <2>4. ~curr_io[t].timeouted
    BY <2>2 DEF Straight, MarkedLose, AboutToLose, HasLost
  <2>5. StillBusy'
    BY <1>1, <2>2 DEF Straight, StillBusy, Busy
  \* Nobody's own handle is given: it is closed.
  <2>6. \A u \in Slots \ {t} : owner[cli_sock[u]] = client[u] /\ client[u] # NoClient
                               => owner'[cli_sock'[u]] = client'[u]
    BY <1>1, <2>1, <2>2
  <2>7. MarkedLose'
    <3>1. \A u \in Slots : at'[u] = "failed" => curr_io'[u].timeouted
      BY <1>1, <2>2 DEF Straight, MarkedLose
    <3> SUFFICES ASSUME NEW u \in Slots, curr_io'[u].timeouted
                 PROVE  AboutToLose(u)' \/ HasLost(u)'
      BY <3>1 DEF MarkedLose
    <3>2. u # t /\ at'[u] = at[u]
      BY <1>1, <2>2, <2>4
    <3>3. AboutToLose(u) \/ HasLost(u)
      BY <2>2 DEF Straight, MarkedLose
    <3>4. AboutToLose(u) => AboutToLose(u)'
      BY <1>1, <1>3, <2>2, <2>6, <3>2 DEF AboutToLose
    <3>5. HasLost(u) => HasLost(u)'
      <4>1. client[u] # Head(queue) /\ client'[u] = client[u]
        <5>1. Head(queue) = queue[1] /\ 1 \in 1 .. Len(queue)
          BY <1>1, <2>2, HeadTailProperties, EmptySeq
        <5> QED BY <1>1, <1>2, <2>2, <3>2, <5>1 DEF OnePlace
      <4> QED BY <1>1, <2>1, <3>2, <4>1 DEF HasLost
    <3> QED BY <3>3, <3>4, <3>5
  <2>8. OwnSocket'
    <3>1. owner'[cli_sock'[t]] = client'[t]
      BY <1>1, <2>1, <2>2
    <3> QED BY <1>1, <1>3, <2>2, <2>6, <3>1 DEF Straight, OwnSocket
  <2>9. NoneLeftOpen'
    <3> SUFFICES ASSUME NEW k \in Handles, owner'[k] # NoClient
                 PROVE  \E u \in Slots : client'[u] = owner'[k] /\ cli_sock'[u] = k
      BY DEF NoneLeftOpen
    <3>1. CASE k = h
      BY <1>1, <2>1, <2>2, <3>1
    <3>2. CASE k # h
      <4>1. PICK u \in Slots : client[u] = owner[k] /\ cli_sock[u] = k
        BY <1>1, <2>1, <3>2 DEF Straight, NoneLeftOpen
      <4>2. u # t
        BY <1>1, <1>3, <2>1, <2>2, <3>2, <4>1
      <4> QED BY <1>1, <2>1, <2>2, <3>2, <4>1, <4>2
    <3> QED BY <3>1, <3>2
  <2> QED BY <2>5, <2>7, <2>8, <2>9 DEF Straight
\* Steps that touch neither clients nor sockets, of a thread that has no mark
\* before and none afterwards.
<1>6. ASSUME UNCHANGED <<owner, cli_sock, client, system, slot>>,
             \A u \in Slots \ {t} : at'[u] = at[u] /\ curr_io'[u] = curr_io[u],
             ~curr_io[t].timeouted, ~curr_io'[t].timeouted, at[t] # "accept", at'[t] # "failed",
             slot = t => StillBusy'
      PROVE  Straight'
  <2>1. StillBusy'
    BY <1>1, <1>6 DEF Straight, StillBusy, Busy
  <2>2. MarkedLose'
    BY <1>6 DEF Straight, MarkedLose, AboutToLose, HasLost
  <2>3. OwnSocket' /\ NoneLeftOpen'
    BY <1>6 DEF Straight, OwnSocket, NoneLeftOpen
  <2> QED BY <2>1, <2>2, <2>3 DEF Straight
<1>7. CASE ResetIo(t)
  <2>1. ~curr_io'[t].timeouted /\ curr_io'[t].id = "IO_NONE"
    BY <1>1, <1>7, ResetTyped DEF ResetIo
  <2>2. /\ UNCHANGED <<owner, cli_sock, client, system, slot>> /\ at[t] = "reset"
        /\ \A u \in Slots \ {t} : at'[u] = at[u] /\ curr_io'[u] = curr_io[u]
        /\ at'[t] = "start"
    BY <1>1, <1>7 DEF ResetIo, world, watch
  <2>3. slot = t => StillBusy'
    BY <2>1, <2>2 DEF Straight, StillBusy, Busy
  <2> QED BY <1>4, <1>6, <2>1, <2>2, <2>3
<1>8. CASE StartIo(t)
  <2>1. /\ UNCHANGED <<owner, cli_sock, client, system, slot>> /\ at[t] = "start"
        /\ \A u \in Slots \ {t} : at'[u] = at[u] /\ curr_io'[u] = curr_io[u]
        /\ at'[t] = IF owner[cli_sock[t]] = NoClient THEN "failed" ELSE "blocked"
    BY <1>1, <1>8 DEF StartIo, Started, world, watch
  <2>2. curr_io'[t].timeouted = curr_io[t].timeouted
    BY <1>1, <1>8 DEF StartIo, Started, IoInfo
  <2>3. slot = t => StillBusy'
    BY <2>1 DEF Straight, StillBusy, Busy
  <2>4. at'[t] # "failed"
    BY <1>1, <1>4, <2>1
  <2> QED BY <1>4, <1>6, <2>1, <2>2, <2>3, <2>4
\* The system thread is elsewhere, or this is a race.
<1>9. CASE Ends(t)
  <2>1. PICK next \in {"check", "release"} :
            /\ EndIo(t, next) /\ Busy(t) /\ (at[t] = "failed" => next = "release")
            /\ raced' = (raced \/ Overtakes(t))
    BY <1>9, EndsDoes
  <2>2. system = "poll" \/ slot # t
    BY <2>1 DEF Overtakes
  <2>3. /\ UNCHANGED <<owner, cli_sock, client, system, slot>> /\ at' = [at EXCEPT ![t] = next]
        /\ \A u \in Slots \ {t} : curr_io'[u] = curr_io[u]
        /\ curr_io'[t].timeouted = curr_io[t].timeouted
    BY <1>1, <2>1 DEF EndIo, watch, IoInfo
  <2>4. StillBusy'
    BY <1>1, <2>2, <2>3 DEF Straight, StillBusy, Busy
  <2>5. CASE ~curr_io[t].timeouted
    BY <1>1, <1>6, <2>1, <2>3, <2>4, <2>5 DEF Busy
  <2>6. CASE curr_io[t].timeouted
    <3>1. at[t] = "failed" /\ next = "release"
      BY <2>1, <2>2, <2>6 DEF Straight, MarkedLose, AboutToLose, HasLost, Busy
    <3>2. MarkedLose'
      <4>1. at'[t] = "release" /\ \A u \in Slots \ {t} : at'[u] = at[u]
        BY <1>1, <2>3, <3>1
      <4> QED BY <2>3, <2>6, <3>1, <4>1 DEF Straight, MarkedLose, AboutToLose, HasLost
    <3>3. OwnSocket' /\ NoneLeftOpen'
      BY <1>1, <2>3, <2>6, <3>1 DEF Straight, OwnSocket, NoneLeftOpen
    <3> QED BY <2>4, <3>2, <3>3 DEF Straight
  <2> QED BY <2>5, <2>6
<1>10. CASE CheckIo(t)
  <2>1. /\ UNCHANGED <<owner, cli_sock, client, curr_io, system, slot>> /\ at[t] = "check"
        /\ \A u \in Slots \ {t} : at'[u] = at[u]
        /\ at'[t] # "failed"
    BY <1>1, <1>10 DEF CheckIo, world, watch
  <2>2. slot = t => StillBusy'
    BY <1>1, <2>1 DEF Straight, StillBusy, Busy
  <2> QED BY <1>4, <1>6, <2>1, <2>2
<1>11. CASE Release(t)
  <2>1. /\ at[t] = "release" /\ at'[t] = "accept"
        /\ \A u \in Slots \ {t} :
              /\ at'[u] = "accept" <=> at[u] = "accept"
              /\ Busy(u)' <=> Busy(u)
              /\ at'[u] # "failed" => at'[u] = at[u]
              /\ (at[u] = "blocked" /\ cli_sock[u] = cli_sock[t] /\ ~curr_io[t].timeouted)
                 \/ at'[u] = at[u]
        /\ IF curr_io[t].timeouted THEN owner' = owner
           ELSE owner' = [owner EXCEPT ![cli_sock[t]] = NoClient]
    BY <1>2, <1>11, ReleaseDoes
  <2>2. /\ cli_sock' = cli_sock /\ system' = system /\ slot' = slot
        /\ client' = [client EXCEPT ![t] = NoClient]
        /\ \A u \in Slots \ {t} : curr_io'[u] = curr_io[u]
        /\ ~curr_io'[t].timeouted /\ curr_io'[t].id = "IO_NONE"
    BY <1>1, <1>11, ResetTyped DEF Release, ReleaseWhen, watch
  <2>3. ~Busy(t)
    BY <2>1 DEF Busy
  <2>4. StillBusy'
    BY <1>1, <2>1, <2>2, <2>3 DEF Straight, StillBusy
  \* The socket that is closed was this thread's own: nobody else has it.
  <2>5. ~curr_io[t].timeouted => owner[cli_sock[t]] = client[t] /\ client[t] # NoClient
    BY <1>1, <1>3, <2>1 DEF Straight, OwnSocket
  <2>6. \A u \in Slots \ {t} : owner[cli_sock[u]] = client[u] /\ client[u] # NoClient
                               => owner'[cli_sock'[u]] = client'[u]
    <3>1. ASSUME NEW u \in Slots \ {t}, owner[cli_sock[u]] = client[u], client[u] # NoClient,
                 ~curr_io[t].timeouted
          PROVE  cli_sock[u] # cli_sock[t]
      BY <1>3, <2>5, <3>1
    <3> QED BY <1>1, <2>1, <2>2, <3>1
  <2>7. \A u \in Slots \ {t} : at'[u] = at[u]
    <3> SUFFICES ASSUME NEW u \in Slots \ {t}, at[u] = "blocked",
                        cli_sock[u] = cli_sock[t], ~curr_io[t].timeouted
                 PROVE  FALSE
      BY <2>1
    <3>1. owner[cli_sock[u]] = client[u]
      BY DEF Straight, MarkedLose, AboutToLose, HasLost, OwnSocket
    <3> QED BY <1>3, <2>5, <3>1
  <2>10. MarkedLose'
    <3>1. \A u \in Slots : at'[u] = "failed" => curr_io'[u].timeouted
      BY <2>1, <2>2, <2>7 DEF Straight, MarkedLose
    <3> SUFFICES ASSUME NEW u \in Slots \ {t}, curr_io[u].timeouted
                 PROVE  AboutToLose(u)' \/ HasLost(u)'
      BY <2>2, <3>1 DEF MarkedLose
    <3>2. AboutToLose(u) => AboutToLose(u)'
      BY <1>1, <1>3, <2>2, <2>6, <2>7 DEF AboutToLose
    <3>3. HasLost(u) => HasLost(u)'
      <4>1. client'[u] = client[u] /\ (HasLost(u) => client[u] # NoClient)
        BY <1>1, <1>3, <2>2 DEF HasLost
      <4>2. \A k \in Handles : owner'[k] = owner[k] \/ owner'[k] = NoClient
        BY <1>1, <2>1
      <4> QED BY <2>7, <4>1, <4>2 DEF HasLost
    <3> QED BY <3>2, <3>3 DEF Straight, MarkedLose
  <2>8. OwnSocket'
    <3> SUFFICES ASSUME NEW u \in Slots \ {t}, at'[u] # "accept", ~curr_io[u].timeouted
                 PROVE  owner'[cli_sock'[u]] = client'[u]
      BY <2>1, <2>2 DEF OwnSocket
    <3>1. at[u] # "accept" /\ client[u] # NoClient
      BY <1>3, <2>1
    <3> QED BY <2>6, <3>1 DEF Straight, OwnSocket
  <2>9. NoneLeftOpen'
    <3> SUFFICES ASSUME NEW k \in Handles, owner'[k] # NoClient
                 PROVE  \E u \in Slots : client'[u] = owner'[k] /\ cli_sock'[u] = k
      BY DEF NoneLeftOpen
    <3>1. owner'[k] = owner[k] /\ (~curr_io[t].timeouted => k # cli_sock[t])
      BY <1>1, <2>1
    <3>2. PICK u \in Slots : client[u] = owner[k] /\ cli_sock[u] = k
      BY <3>1 DEF Straight, NoneLeftOpen
    <3>3. CASE u # t
      BY <1>1, <2>2, <3>1, <3>2, <3>3
    <3>4. CASE u = t
      BY <2>1, <3>1, <3>2, <3>4 DEF Straight, MarkedLose, AboutToLose, HasLost
    <3> QED BY <3>3, <3>4
  <2> QED BY <2>4, <2>8, <2>9, <2>10 DEF Straight
<1> QED BY <1>5, <1>7, <1>8, <1>9, <1>10, <1>11 DEF ThreadStep, Ends

LEMMA SystemStaysStraight ==
    ASSUME TimedInv, Straight, ~raced, ~raced', SystemStep
    PROVE  Straight'
<1>1. /\ at \in [Slots -> Places] /\ curr_io \in [Slots -> IoInfo]
      /\ cli_sock \in [Slots -> Handles] /\ client \in [Slots -> Clients \cup {NoClient}]
      /\ owner \in [Handles -> Clients \cup {NoClient}] /\ NoClient \notin Clients /\ slot \in Slots
  BY TimedAssumption DEF TimedInv, Typed, TimedTypeOK, Places, IoInfo
<1>2. Typed /\ Recorded
  BY DEF TimedInv
<1>3. /\ \A u \in Slots : client[u] = NoClient <=> at[u] = "accept"
      /\ \A u, v \in Slots : client[u] = client[v] /\ client[u] # NoClient => u = v
  BY DEF TimedInv, OnePlace
<1>4. CASE Looks
  <2>1. /\ UNCHANGED <<owner, at, cli_sock, client>> /\ system # "close"
        /\ \A u \in Slots : /\ curr_io'[u].timeouted = curr_io[u].timeouted
                            /\ curr_io'[u].id = curr_io[u].id
    BY <1>1, <1>2, <1>4, LooksDo, AgedTyped
  <2>2. StillBusy'
    <3>1. CASE system' = "poll"
      BY <3>1 DEF StillBusy
    <3>2. CASE system' = "time" /\ slot' = slot /\ curr_io[slot].in_progress
      BY <1>1, <1>2, <2>1, <3>2 DEF StillBusy, Recorded, Busy
    <3>3. CASE system' = "id" /\ slot' = slot /\ system = "time"
      BY <1>1, <2>1, <3>3 DEF Straight, StillBusy, Busy
    <3>4. CASE system' = "mark" /\ slot' = slot /\ system = "id"
               /\ curr_io[slot].id \in {"IO_RECV", "IO_SEND"}
      BY <1>1, <2>1, <3>4 DEF Straight, StillBusy, Busy
    <3> QED BY <1>2, <1>4, <3>1, <3>2, <3>3, <3>4, LooksDo
  <2>3. MarkedLose'
    BY <2>1 DEF Straight, MarkedLose, AboutToLose, HasLost
  <2>4. OwnSocket' /\ NoneLeftOpen'
    BY <2>1 DEF Straight, OwnSocket, NoneLeftOpen
  <2> QED BY <2>2, <2>3, <2>4 DEF Straight
\* A thread that has lost its socket is marked already.
<1>5. CASE MarkTimeouted
  <2>1. /\ UNCHANGED <<owner, at, cli_sock, client, slot>> /\ system = "mark" /\ system' = "close"
        /\ \A u \in Slots \ {slot} : curr_io'[u] = curr_io[u]
    BY <1>1, <1>5 DEF MarkTimeouted, world
  <2>2. curr_io'[slot].timeouted
    BY <1>1, <1>5 DEF MarkTimeouted, IoInfo
  <2>3. at[slot] \in {"blocked", "failed"}
    BY <2>1 DEF Straight, StillBusy, Busy
  <2>4. StillBusy'
    BY <2>1, <2>2, <2>3 DEF StillBusy, Busy
  <2>5. AboutToLose(slot)' \/ HasLost(slot)'
    <3>1. CASE curr_io[slot].timeouted
      BY <1>1, <2>1, <3>1 DEF Straight, MarkedLose, AboutToLose, HasLost
    <3>2. CASE ~curr_io[slot].timeouted
      <4>1. at[slot] = "blocked" /\ owner[cli_sock[slot]] = client[slot]
        BY <1>1, <2>3, <3>2 DEF Straight, MarkedLose, OwnSocket
      <4> QED BY <2>1, <4>1 DEF AboutToLose
    <3> QED BY <3>1, <3>2
  <2>6. MarkedLose'
    <3>1. \A u \in Slots \ {slot} : curr_io[u].timeouted => HasLost(u)'
      BY <2>1 DEF Straight, MarkedLose, AboutToLose, HasLost
    <3>2. \A u \in Slots : at'[u] = "failed" => curr_io'[u].timeouted
      BY <2>1, <2>2 DEF Straight, MarkedLose
    <3> QED BY <2>1, <2>5, <3>1, <3>2 DEF MarkedLose
  <2>7. OwnSocket' /\ NoneLeftOpen'
    BY <2>1, <2>2 DEF Straight, OwnSocket, NoneLeftOpen
  <2> QED BY <2>4, <2>6, <2>7 DEF Straight
\* What is closed is the socket of the thread that still waits on it.
<1>6. CASE CloseSocket
  <2> DEFINE h == cli_sock[slot]
  <2>1. at[slot] = "blocked" /\ system = "close" /\ system' = "poll" /\ curr_io[slot].hsock = h
    BY <1>1, <1>2, <1>6, CloseSocketDoes DEF Recorded, Busy
  <2>2. /\ \A u \in Slots :
              /\ at'[u] = "accept" <=> at[u] = "accept"
              /\ at[u] = "blocked" /\ cli_sock[u] = h => at'[u] = "failed"
              /\ at[u] # "blocked" \/ cli_sock[u] # h => at'[u] = at[u]
        /\ client' = client /\ cli_sock' = cli_sock
        /\ owner' = [owner EXCEPT ![h] = NoClient]
        /\ curr_io' = Aged(curr_io)
    BY <1>2, <1>6, <2>1, CloseSocketDoes
  <2>3. \A u \in Slots : curr_io'[u].timeouted = curr_io[u].timeouted
    BY <1>1, <1>2, <2>2, AgedTyped
  <2>4. owner[h] = client[slot] /\ client[slot] # NoClient
    BY <1>1, <1>3, <2>1 DEF Straight, MarkedLose, AboutToLose, HasLost, OwnSocket
  <2>5. \A u \in Slots \ {slot} : owner[cli_sock[u]] = client[u] /\ client[u] # NoClient => cli_sock[u] # h
    BY <1>1, <1>3, <2>4
  <2> HIDE DEF h
  <2>6. h \in Handles /\ h = cli_sock[slot]
    BY <1>1 DEF h
  <2>7. StillBusy'
    BY <2>1 DEF StillBusy
  <2>8. \A u \in Slots \ {slot} : at'[u] = at[u]
    BY <1>1, <1>3, <2>2, <2>5 DEF Straight, MarkedLose, AboutToLose, HasLost, OwnSocket
  <2>9. \A u \in Slots : u = slot => HasLost(u)'
    <3>1. \A k \in Handles : owner[k] = client[slot] => k = h
      BY <1>1, <1>3, <2>4, <2>6 DEF Straight, NoneLeftOpen
    <3>2. \A k \in Handles : owner'[k] # client[slot]
      BY <1>1, <2>2, <2>4, <2>6, <3>1
    <3>3. at'[slot] = "failed"
      BY <1>1, <2>1, <2>2, <2>6
    <3> QED BY <2>2, <3>2, <3>3 DEF HasLost
  <2>10. \A u \in Slots \ {slot} : HasLost(u) => HasLost(u)'
    <3>1. \A k \in Handles : owner'[k] = owner[k] \/ owner'[k] = NoClient
      BY <1>1, <2>2
    <3> QED BY <1>3, <2>2, <2>8, <3>1 DEF HasLost
  \* The mark was set at this slot before.
  <2>11. curr_io[slot].timeouted
    BY <2>1 DEF Straight, StillBusy
  <2>12. MarkedLose'
    <3>1. \A u \in Slots : curr_io[u].timeouted => HasLost(u)'
      BY <2>9, <2>10 DEF Straight, MarkedLose, AboutToLose
    <3>2. \A u \in Slots : at'[u] = "failed" => curr_io[u].timeouted
      BY <2>8, <2>11 DEF Straight, MarkedLose
    <3> QED BY <2>3, <3>1, <3>2 DEF MarkedLose
  <2>13. OwnSocket'
    <3> SUFFICES ASSUME NEW u \in Slots, at'[u] # "accept", ~curr_io[u].timeouted
                 PROVE  owner'[cli_sock'[u]] = client'[u]
      BY <2>3 DEF OwnSocket
    <3>1. owner[cli_sock[u]] = client[u] /\ client[u] # NoClient /\ u # slot
      BY <1>3, <2>2, <2>11 DEF Straight, OwnSocket
    <3> QED BY <1>1, <2>2, <2>5, <3>1
  <2>14. NoneLeftOpen'
    BY <1>1, <2>2, <2>6 DEF Straight, NoneLeftOpen
  <2> QED BY <2>7, <2>12, <2>13, <2>14 DEF Straight
<1> QED BY <1>4, <1>5, <1>6 DEF SystemStep, Looks

LEMMA ClientsStayStraight ==
    ASSUME Straight, UNCHANGED <<owner, threads, watch>>
    PROVE  Straight'
  BY DEF Straight, StillBusy, Busy, MarkedLose, AboutToLose, HasLost, OwnSocket, NoneLeftOpen,
         threads, watch

\* A race is not forgotten.
LEMMA RacesStay == Typed /\ [Next]_vars => (raced => raced')
<1> SUFFICES ASSUME Typed, [Next]_vars, raced PROVE raced'
  OBVIOUS
<1>1. ASSUME NEW t \in Slots, ThreadStep(t) \/ SendEnds(t)
      PROVE  raced'
  BY <1>1 DEF ThreadStep, Accept, ResetIo, StartIo, Started, RecvEnds, PeerHasLeft, IoFails, SendEnds,
         CheckIo, Release, ReleaseWhen
<1>2. CASE SystemStep
  BY <1>2 DEF SystemStep, LookAtProgress, LookAtTime, LookAtId, MarkTimeouted, CloseSocket
<1>3. ASSUME NEW c \in Clients, Connect(c) \/ SendMessage(c) \/ Leave(c)
      PROVE  raced'
  BY <1>3 DEF Connect, SendMessage, Leave
<1>4. CASE UNCHANGED vars
  BY <1>4 DEF vars
<1> QED BY <1>1, <1>2, <1>3, <1>4 DEF Next

LEMMA StraightStep == TimedInv /\ [Next]_vars => (~raced' => Straight')
<1> SUFFICES ASSUME TimedInv, [Next]_vars, ~raced' PROVE Straight'
  OBVIOUS
<1>1. ~raced
  BY RacesStay DEF TimedInv
<1>2. Straight
  BY <1>1 DEF TimedInv, Straight
<1>3. ASSUME NEW t \in Slots, ThreadStep(t) \/ SendEnds(t)
      PROVE  Straight'
  BY <1>1, <1>2, <1>3, ThreadsStayStraight
<1>4. CASE SystemStep
  BY <1>1, <1>2, <1>4, SystemStaysStraight
<1>5. ASSUME NEW c \in Clients, Connect(c) \/ SendMessage(c) \/ Leave(c)
      PROVE  Straight'
  <2>1. UNCHANGED <<owner, threads, watch>>
    BY <1>5 DEF Connect, SendMessage, Leave
  <2> QED BY <1>2, <2>1, ClientsStayStraight
<1>6. CASE UNCHANGED vars
  <2>1. UNCHANGED <<owner, threads, watch>>
    BY <1>6 DEF vars, world
  <2> QED BY <1>2, <2>1, ClientsStayStraight
<1> QED BY <1>3, <1>4, <1>5, <1>6 DEF Next

LEMMA TimedInvInit == Init => TimedInv
<1> SUFFICES ASSUME Init PROVE TimedInv
  OBVIOUS
<1>1. Typed
  BY InitTyped
<1>2. \A t \in Slots : ~curr_io[t].timeouted /\ ~curr_io[t].in_progress
  BY ResetTyped DEF Init, Reset
<1>3. OnePlace
  BY DEF Init, OnePlace
<1>4. Recorded
  BY <1>2 DEF Init, Recorded, Busy
<1>5. StillBusy /\ MarkedLose /\ OwnSocket /\ NoneLeftOpen
  BY <1>2 DEF Init, StillBusy, MarkedLose, OwnSocket, NoneLeftOpen
<1> QED BY <1>1, <1>3, <1>4, <1>5 DEF TimedInv

LEMMA TimedInvStep == TimedInv /\ [Next]_vars => TimedInv'
<1> SUFFICES ASSUME TimedInv, [Next]_vars PROVE TimedInv'
  OBVIOUS
<1>1. Typed'
  BY Typing DEF TimedInv
<1>2. OnePlace' /\ Recorded'
  BY OnePlaceStep, RecordedStep
<1>3. ~raced' => (StillBusy /\ MarkedLose /\ OwnSocket /\ NoneLeftOpen)'
  BY StraightStep DEF Straight
<1> QED BY <1>1, <1>2, <1>3 DEF TimedInv

\* As long as the system thread has not closed what was no longer blocked and no
\* operation has ended under its eyes, every thread has its own client's socket
\* until that is closed for a timeout, and no connection is left without a thread.
THEOREM OnlyRacesStray == Spec => []OnlyTheRaceStrays
<1>1. TimedInv => OnlyTheRaceStrays
  BY DEF TimedInv, OwnSocket, NoneLeftOpen, OnlyTheRaceStrays
<1> QED BY <1>1, TimedInvInit, TimedInvStep, PTL DEF Spec
=============================================================================
