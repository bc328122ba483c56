---------------------------- MODULE TmSockProofs ----------------------------
(***************************************************************************)
(* Theorems about mod_tmsock, for any number of threads, slots of its      *)
(* table, descriptor numbers and ticks of the clock.                       *)
(***************************************************************************)
EXTENDS TmSock, TLAPS, FunctionTheorems, FiniteSetTheorems, WellFoundedInduction

-----------------------------------------------------------------------------
(* Types.                                                                  *)

Typed == TableTypeOK /\ clock \in 0 .. MaxClock

LEMMA InitTyped == Init => Typed
  BY TmSockAssumption DEF Init, ZeroedInit, ServersInit, Typed, TableTypeOK, Places, NoFd

LEMMA Typing == Typed /\ [Next]_vars => Typed'
<1> SUFFICES ASSUME Typed, [Next]_vars PROVE Typed'
  OBVIOUS
<1> USE TmSockAssumption DEF Typed, TableTypeOK, Goto, Places, tableVars, NoFd
<1>1. CASE Tick
  BY <1>1 DEF Tick, threadVars
<1>2. ASSUME NEW t \in Threads, ThreadStep(t)
      PROVE  Typed'
  <2>1. ASSUME NEW d, FillDesc(t, d), open' \in [Fds -> Conns \cup {None}]
        PROVE  Typed'
    BY <2>1 DEF FillDesc
  <2>2. \A f : Closed(f) \in [Fds -> Conns \cup {None}]
    BY DEF Closed
  <2>3. CASE EnterFree(t) \/ EnterForcing(t)
    <3>1. PICK d : FillDesc(t, d)
      BY <2>3 DEF EnterFree, EnterForcing
    <3>2. open' \in [Fds -> Conns \cup {None}]
      BY <2>2, <2>3 DEF EnterFree, EnterForcing
    <3> QED BY <2>1, <3>1, <3>2
  <2>4. CASE Accept(t) \/ AcceptFails(t)  BY <2>4 DEF Accept, AcceptFails
  <2>5. CASE RecvFails(t) \/ RecvReturns(t)  BY <2>5 DEF RecvFails, RecvReturns
  <2>6. CASE RecvBlocks(t)  BY <2>6 DEF RecvBlocks, Behind
  <2>7. CASE Leave(t)  BY <2>7 DEF Leave, AfterRecv
  <2>8. CASE Answer(t)  BY <2>8 DEF Answer
  <2>9. CASE Close(t)  BY <2>2, <2>9 DEF Close
  <2> QED BY <1>2, <2>3, <2>4, <2>5, <2>6, <2>7, <2>8, <2>9 DEF ThreadStep
<1>3. CASE UNCHANGED vars
  BY <1>3 DEF vars
<1> QED BY <1>1, <1>2, <1>3 DEF Next

\* Type correctness of the module: the fields of the table, of the sessions and
\* of the descriptor table stay what the code declares them to be, and a slot that
\* leave has reset names no thread and no time.
THEOREM TableTypeCorrect == Spec => []TableTypeOK
  BY InitTyped, Typing, PTL DEF Spec, Typed

-----------------------------------------------------------------------------
(* The table and the threads inside recv.                                  *)

LEMMA TableStep == Typed /\ TableOfReceivers /\ [Next]_vars => TableOfReceivers'
<1> SUFFICES ASSUME Typed, TableOfReceivers, [Next]_vars PROVE TableOfReceivers'
  OBVIOUS
<1> USE DEF Typed, TableTypeOK, TableOfReceivers, Inside, Goto, tableVars
<1>1. CASE Tick \/ UNCHANGED vars
  BY <1>1 DEF Tick, threadVars, vars
<1>2. ASSUME NEW t \in Threads, ThreadStep(t)
      PROVE  TableOfReceivers'
  \* A thread that enters is not in the table yet: those in it are inside.
  <2>1. CASE EnterFree(t) \/ EnterForcing(t)
    <3>1. PICK d : FillDesc(t, d)
      BY <2>1 DEF EnterFree, EnterForcing
    <3>2. at[t] = "enter"
      BY <2>1 DEF EnterFree, EnterForcing
    <3>3. \A e \in Descs : used[e] => idThread[e] # t
      BY <3>2
    <3> QED BY <3>1, <3>3 DEF FillDesc
  <2>2. CASE Accept(t) \/ AcceptFails(t)
    BY <2>2 DEF Accept, AcceptFails
  <2>3. CASE RecvFails(t) \/ RecvBlocks(t) \/ RecvReturns(t)
    BY <2>3 DEF RecvFails, RecvBlocks, RecvReturns
  \* The slot that leave resets is the only one of this thread.
  <2>4. CASE Leave(t)
    <3>1. \A e \in Descs : used'[e] => used[e] /\ idThread[e] # t /\ idThread'[e] = idThread[e]
                                       /\ idSocket'[e] = idSocket[e]
      <4> SUFFICES ASSUME NEW e \in Descs, used'[e]
                   PROVE  used[e] /\ idThread[e] # t /\ idThread'[e] = idThread[e]
                          /\ idSocket'[e] = idSocket[e]
        OBVIOUS
      <4>1. used[e]
        BY <2>4 DEF Leave
      <4>2. \A d \in 1 .. e - 1 : d \in Descs /\ d # e
        BY TmSockAssumption DEF Descs
      <4>3. idThread[e] # t
        BY <2>4, <4>1, <4>2 DEF Leave
      <4> QED BY <2>4, <4>1, <4>3 DEF Leave
    <3>2. \A u \in Threads \ {t} : at'[u] = at[u] /\ sock'[u] = sock[u]
      BY <2>4 DEF Leave, AfterRecv
    <3> QED BY <3>1, <3>2
  <2>5. CASE Answer(t) \/ Close(t)
    BY <2>5 DEF Answer, Close
  <2> QED BY <1>2, <2>1, <2>2, <2>3, <2>4, <2>5 DEF ThreadStep
<1> QED BY <1>1, <1>2 DEF Next

\* enter and leave, of any number of threads and with connections taken by force,
\* keep the table a table of the threads inside recv: each has one slot at most,
\* with the socket it waits for.
THEOREM TableCorrect == Spec => []TableOfReceivers
<1>1. Init => TableOfReceivers
  BY DEF Init, ZeroedInit, TableOfReceivers
<1> QED BY <1>1, InitTyped, Typing, TableStep, PTL DEF Spec

-----------------------------------------------------------------------------
(* Descriptors.                                                            *)

\* A connection is behind one number only, that of the thread that accepted it;
\* a thread that accepts has none.
OwnNumber ==
    /\ \A t \in Threads : at[t] = "accept" => conn[t] = None
    /\ \A f \in Fds, t \in Threads : open[f] # None /\ conn[t] = open[f] => sock[t] = f

SocketInv == Typed /\ OwnNumber /\ NoSocketLeaked

LEMMA SocketStep == SocketInv /\ [Next]_vars => SocketInv'
<1> SUFFICES ASSUME SocketInv, [Next]_vars PROVE OwnNumber' /\ NoSocketLeaked'
  BY Typing DEF SocketInv
<1> USE TmSockAssumption DEF SocketInv, Typed, TableTypeOK, OwnNumber, NoSocketLeaked, Goto
<1>1. CASE Tick \/ UNCHANGED vars
  BY <1>1 DEF Tick, threadVars, vars
<1>2. ASSUME NEW t \in Threads, ThreadStep(t)
      PROVE  OwnNumber' /\ NoSocketLeaked'
  \* Steps that close sockets at most, and bring nobody back to accept.
  <2>1. ASSUME \A f \in Fds : open'[f] \in {open[f], None},
               conn' = conn, sock' = sock,
               \A u \in Threads : at'[u] = "accept" => at[u] = "accept",
               \A u \in Threads \ {t} : at'[u] = at[u]
        PROVE  OwnNumber' /\ NoSocketLeaked'
    BY <2>1
  <2>2. CASE EnterFree(t)
    BY <2>1, <2>2 DEF EnterFree, FillDesc
  <2>3. CASE EnterForcing(t)
    <3>1. \A g \in Fds : open'[g] \in {open[g], None}
      BY <2>3 DEF EnterForcing, Closed
    <3> QED BY <2>1, <2>3, <3>1 DEF EnterForcing, FillDesc
  <2>4. CASE RecvFails(t) \/ RecvBlocks(t) \/ RecvReturns(t) \/ Leave(t) \/ Answer(t)
    BY <2>1, <2>4 DEF RecvFails, RecvBlocks, RecvReturns, Leave, AfterRecv, Answer
  \* The number that is closed is the one behind which its connection was.
  <2>5. CASE Close(t)
    <3>1. \A g \in Fds : open'[g] # None => open'[g] = open[g] /\ g # sock[t]
      BY <2>5 DEF Close, Closed
    <3>2. \A g \in Fds : open'[g] # None => conn[t] # open[g]
      BY <3>1
    <3> QED BY <2>5, <3>1, <3>2 DEF Close
  \* A name that nobody knows is given to the new connection.
  <2>6. CASE Accept(t)
    <3>1. PICK f \in Fds, c \in Conns \ Known :
              /\ open' = [open EXCEPT ![f] = c]
              /\ sock' = [sock EXCEPT ![t] = f]
              /\ conn' = [conn EXCEPT ![t] = c]
              /\ open[f] = None
      BY <2>6 DEF Accept
    <3>2. c # None /\ (\A g \in Fds : open[g] # c) /\ (\A u \in Threads : conn[u] # c)
      BY <3>1 DEF Known, Conns
    <3>3. at[t] = "accept" /\ conn[t] = None /\ at' = [at EXCEPT ![t] = "enter"]
      BY <2>6 DEF Accept
    <3> QED BY <3>1, <3>2, <3>3
  <2>7. CASE AcceptFails(t)
    BY <2>1, <2>7 DEF AcceptFails
  <2> QED BY <1>2, <2>2, <2>3, <2>4, <2>5, <2>6, <2>7 DEF ThreadStep
<1> QED BY <1>1, <1>2 DEF Next

\* However sockets are taken by force and their numbers given again, a connection
\* that is open has the thread that accepted it, which will close it.
THEOREM NothingLeaked == Spec => []NoSocketLeaked
<1>1. Init => SocketInv
  BY InitTyped DEF Init, ServersInit, SocketInv, OwnNumber, NoSocketLeaked
<1> QED BY <1>1, SocketStep, PTL DEF Spec, SocketInv

-----------------------------------------------------------------------------
(* Who is forced.                                                          *)

LEMMA SmallestNat ==
    ASSUME NEW S \in SUBSET Nat, S # {}
    PROVE  \E n \in S : \A k \in S : n <= k
<1> DEFINE less == {ss \in Nat \X Nat : ss[1] < ss[2]}
<1>1. IsWellFoundedOn(less, Nat)
  BY NatLessThanWellFounded DEF OpToRel
<1>2. PICK n \in S : \A k \in S : <<k, n>> \notin less
  <2> HIDE DEF less
  <2> QED BY <1>1, WFMin
<1>3. \A k \in S : ~(k < n)
  BY <1>2
<1> QED BY <1>3

LEMMA FirstFreeIsFree ==
    ASSUME \E d \in Descs : ~used[d]
    PROVE  FirstFree \in Descs /\ ~used[FirstFree]
<1> DEFINE free == {d \in Descs : ~used[d]}
<1>1. PICK d \in free : \A k \in free : d <= k
  <2>1. free # {} /\ free \in SUBSET Nat
    BY DEF Descs
  <2> HIDE DEF free
  <2> QED BY <2>1, SmallestNat
<1>2. \A e \in 1 .. d - 1 : used[e]
  BY <1>1, TmSockAssumption DEF Descs
<1> QED BY <1>1, <1>2 DEF FirstFree

\* The scan of a full table finds the slot with the earliest time.
LEMMA OldestIsOldest ==
    ASSUME Typed
    PROVE  Oldest \in Descs /\ \A e \in Descs : tmEnter[Oldest] <= tmEnter[e]
<1>1. /\ Descs \in SUBSET Nat /\ 1 \in Descs
      /\ \A d \in Descs : tmEnter[d] \in Nat
  <2>1. tmEnter \in [Descs -> 0 .. MaxClock]
    BY DEF Typed, TableTypeOK
  <2>2. MaxClock \in Nat /\ NrDescs \in Nat \ {0}
    BY TmSockAssumption
  <2>3. Descs \in SUBSET Nat /\ 1 \in Descs
    BY <2>2 DEF Descs
  <2> QED BY <2>1, <2>2, <2>3
<1> DEFINE times == {tmEnter[d] : d \in Descs}
<1>2. PICK m \in times : \A k \in times : m <= k
  <2>1. times \in SUBSET Nat
    BY <1>1
  <2>2. tmEnter[1] \in times
    BY <1>1
  <2> HIDE DEF times
  <2> QED BY <2>1, <2>2, SmallestNat
<1> DEFINE eldest == {d \in Descs : tmEnter[d] = m}
<1>3. PICK d \in eldest : \A k \in eldest : d <= k
  <2>1. PICK e \in Descs : tmEnter[e] = m
    OBVIOUS
  <2>2. e \in eldest /\ eldest \in SUBSET Nat
    BY <1>1, <2>1
  <2> HIDE DEF eldest
  <2> QED BY <2>2, SmallestNat
<1>4. d \in Descs /\ \A e \in Descs : Older(d, e)
  <2>1. d \in Descs /\ tmEnter[d] = m /\ m \in Nat
    BY <1>1, <1>3
  <2> SUFFICES ASSUME NEW e \in Descs PROVE Older(d, e)
    BY <2>1
  <2>2. m <= tmEnter[e]
    BY <1>2
  <2>3. tmEnter[e] = m => d <= e
    BY <1>3
  <2> QED BY <1>1, <2>1, <2>2, <2>3 DEF Older
<1>5. Oldest \in Descs /\ \A e \in Descs : Older(Oldest, e)
  BY <1>4 DEF Oldest
<1>6. \A e \in Descs : tmEnter[Oldest] <= tmEnter[e]
  BY <1>1, <1>5 DEF Older
<1> QED BY <1>5, <1>6

\* A full table names as many threads inside recv as it has slots.
LEMMA FullTableIsCrowded ==
    ASSUME Typed, TableOfReceivers, \A d \in Descs : used[d]
    PROVE  Cardinality({u \in Threads : at[u] \in Inside}) >= NrDescs
<1> DEFINE inside == {u \in Threads : at[u] \in Inside}
<1>1. IsFiniteSet(inside) /\ Cardinality(inside) \in Nat
  BY TmSockAssumption, FS_Subset, FS_CardinalityType
<1>2. idThread \in Injection(Descs, inside)
  BY DEF Typed, TableTypeOK, TableOfReceivers, Injection, IsInjective
<1>3. Cardinality(Descs) <= Cardinality(inside)
  BY <1>1, <1>2, FS_Injection
<1>4. Cardinality(Descs) = NrDescs
  BY FS_Interval, TmSockAssumption DEF Descs
<1> QED BY <1>1, <1>3, <1>4, TmSockAssumption

LEMMA ForcingStep ==
    ASSUME Typed, TableOfReceivers, [Next]_vars,
           NEW d \in Descs, used[d], used'[d], idThread'[d] # idThread[d]
    PROVE  /\ Cardinality({u \in Threads : at[u] \in Inside}) >= NrDescs
           /\ \A e \in Descs : used[e] /\ tmEnter[d] <= tmEnter[e]
<1> USE DEF Typed, TableTypeOK
<1>1. PICK t \in Threads : ThreadStep(t)
  BY DEF Next, Tick, tableVars, vars
<1>2. ~EnterFree(t)
  BY FirstFreeIsFree DEF EnterFree, FillDesc
<1>3. ~Leave(t)
  BY DEF Leave
<1>4. EnterForcing(t)
  BY <1>1, <1>2, <1>3 DEF ThreadStep, Accept, AcceptFails, RecvFails, RecvBlocks, RecvReturns,
     Answer, Close, tableVars
<1>5. d = Oldest
  BY <1>4 DEF EnterForcing, FillDesc
<1> QED BY <1>4, <1>5, FullTableIsCrowded, OldestIsOldest DEF EnterForcing

\* With any table and any number of threads, no connection is closed by force
\* while a slot is free, and none but that of the thread that entered first.
THEOREM OldestForced == Spec => OldestIsForced
<1>1. Typed /\ TableOfReceivers /\ [Next]_vars =>
        [\A d \in Descs :
            used[d] /\ used'[d] /\ idThread'[d] # idThread[d] =>
                /\ Cardinality({u \in Threads : at[u] \in Inside}) >= NrDescs
                /\ \A e \in Descs : used[e] /\ tmEnter[d] <= tmEnter[e]]_vars
  BY ForcingStep
<1> QED BY <1>1, InitTyped, Typing, TableCorrect, PTL DEF Spec, OldestIsForced
=============================================================================
