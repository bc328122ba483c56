------------------------------- MODULE TmSock -------------------------------
(***************************************************************************)
(* mod_tmsock of ziis (mod/tmsock/src): a connection module that remembers *)
(* in a table which threads are inside recv, and closes the socket of the  *)
(* one that has been there longest when the table is full.                 *)
(*                                                                         *)
(* The threads are those that run server_entry, here reduced to what they  *)
(* do with their socket: accept, Recv until a request is complete, answer, *)
(* and Close.  The kernel numbers sockets: a closed number is given to the *)
(* next connection.                                                        *)
(*                                                                         *)
(* enter and leave run under lk_iodescs and touch nothing but the table,   *)
(* the clock and one socket, so each is one step.                          *)
(***************************************************************************)
EXTENDS Integers, FiniteSets

CONSTANTS NrDescs,    \* nr_iodescs
          Threads,    \* the threads that serve clients
          NrConns,    \* identities of connections, enough for a new one always
          NrFds,      \* the descriptor numbers the kernel may give
          MaxClock,   \* bound on the clock
          None        \* no thread, no connection

ASSUME TmSockAssumption ==
    /\ NrDescs \in Nat \ {0} /\ NrFds \in Nat \ {0} /\ MaxClock \in Nat
    /\ NrConns \in Nat
    /\ IsFiniteSet(Threads)
    /\ None \notin Threads \cup 1 .. NrConns

Descs == 1 .. NrDescs
Conns == 1 .. NrConns
Fds   == 1 .. NrFds
NoFd  == -1          \* (SOCKET)-1

VARIABLES
    used, tmEnter, idSocket, idThread,   \* arr_iodescs
    clock,     \* sysapi::time::current
    open,      \* the connection behind a descriptor number, or None
    at,        \* where a thread is
    sock,      \* its sess.cli_sock, NoFd when it has none
    conn,      \* the connection it accepted
    from,      \* the connection it is blocked on in recv
    result     \* what recv returned: "data", "end" (0) or "error" (-1)

tableVars  == <<used, tmEnter, idSocket, idThread>>
threadVars == <<at, sock, conn, from, result>>
vars == <<used, tmEnter, idSocket, idThread, clock, open, at, sock, conn, from, result>>

Places == {"accept", "enter", "recv", "blocked", "leave", "answer", "close"}
Inside == {"recv", "blocked", "leave"}   \* between enter and leave

\* A slot that leave has reset names no thread.
TableTypeOK ==
    /\ used     \in [Descs -> BOOLEAN]
    /\ tmEnter  \in [Descs -> 0 .. MaxClock]
    /\ idSocket \in [Descs -> Fds \cup {NoFd}]
    /\ idThread \in [Descs -> Threads \cup {None}]
    /\ open     \in [Fds -> Conns \cup {None}]
    /\ at       \in [Threads -> Places]
    /\ sock     \in [Threads -> Fds \cup {NoFd}]
    /\ conn     \in [Threads -> Conns \cup {None}]
    /\ from     \in [Threads -> Conns \cup {None}]
    /\ \A d \in Descs : ~used[d] => idThread[d] = None /\ tmEnter[d] = 0

ServersInit ==
    /\ clock  = 0
    /\ open   = [f \in Fds |-> None]
    /\ at     = [t \in Threads |-> "accept"]
    /\ sock   = [t \in Threads |-> NoFd]
    /\ conn   = [t \in Threads |-> None]
    /\ from   = [t \in Threads |-> None]
    /\ result = [t \in Threads |-> "data"]

\* No constructor writes the table; a module built at start-up finds zeroes.
ZeroedInit ==
    /\ used     = [d \in Descs |-> FALSE]
    /\ tmEnter  = [d \in Descs |-> 0]
    /\ idSocket = [d \in Descs |-> NoFd]
    /\ idThread = [d \in Descs |-> None]

Goto(t, place) == at' = [at EXCEPT ![t] = place]

\* The connection a descriptor number names at present, if any.
Behind(f) == IF f \in Fds THEN open[f] ELSE None

\* close: nothing happens for a number that is not open.
Closed(f) == [g \in Fds |-> IF g = f THEN None ELSE open[g]]

-----------------------------------------------------------------------------
(* enter.                                                                  *)

\* The scan ends at the first free slot, or has found the oldest of all.
FirstFree == CHOOSE d \in Descs : ~used[d] /\ \A e \in 1 .. d - 1 : used[e]

Older(d, e) == tmEnter[d] < tmEnter[e] \/ (tmEnter[d] = tmEnter[e] /\ d <= e)
Oldest   == CHOOSE d \in Descs : \A e \in Descs : Older(d, e)
Youngest == CHOOSE d \in Descs : \A e \in Descs : Older(e, d)

FillDesc(t, d) ==
    /\ used'     = [used EXCEPT ![d] = TRUE]
    /\ idSocket' = [idSocket EXCEPT ![d] = sock[t]]
    /\ idThread' = [idThread EXCEPT ![d] = t]
    /\ tmEnter'  = [tmEnter EXCEPT ![d] = clock]
    /\ Goto(t, "recv")
    /\ UNCHANGED <<clock, sock, conn, from, result>>

EnterFree(t) ==
    /\ at[t] = "enter" /\ \E d \in Descs : ~used[d]
    /\ FillDesc(t, FirstFree)
    /\ UNCHANGED open

\* Mutant of EnterForcing: the comparison of the times is the wrong way round.
EnterForcingYoungest(t) ==
    /\ at[t] = "enter" /\ \A d \in Descs : used[d]
    /\ open' = Closed(idSocket[Youngest])
    /\ FillDesc(t, Youngest)

EnterForcing(t) ==
    /\ at[t] = "enter" /\ \A d \in Descs : used[d]
    /\ open' = Closed(idSocket[Oldest])
    /\ FillDesc(t, Oldest)

-----------------------------------------------------------------------------
(* recv.                                                                   *)

\* On a descriptor that is closed by now recv fails, else it blocks.
RecvFails(t) ==
    /\ at[t] = "recv" /\ Behind(sock[t]) = None
    /\ result' = [result EXCEPT ![t] = "error"]
    /\ Goto(t, "leave")
    /\ UNCHANGED <<tableVars, clock, open, sock, conn, from>>

RecvBlocks(t) ==
    /\ at[t] = "recv" /\ Behind(sock[t]) # None
    /\ from' = [from EXCEPT ![t] = Behind(sock[t])]
    /\ Goto(t, "blocked")
    /\ UNCHANGED <<tableVars, clock, open, sock, conn, result>>

\* recv returns when the peer sends, closes or is lost, or when somebody shut
\* the socket down (then with what was still to read, or with 0).
RecvReturns(t) ==
    /\ at[t] = "blocked"
    /\ \E r \in {"data", "end", "error"} :
        /\ r = "error" => \E f \in Fds : open[f] = from[t]
        /\ result' = [result EXCEPT ![t] = r]
    /\ from' = [from EXCEPT ![t] = None]
    /\ Goto(t, "leave")
    /\ UNCHANGED <<tableVars, clock, open, sock, conn>>

-----------------------------------------------------------------------------
(* leave, and the use the server makes of what recv returned.              *)

\* data: the request is complete or goes on; 0 is no error, Recv is called
\* again; an error ends the session after an error page.  What recv returned is
\* a local variable, of no effect once it is used.
AfterRecv(t) ==
    \/ result[t] # "error" /\ Goto(t, "enter") /\ result' = [result EXCEPT ![t] = "data"]
    \/ result[t] # "end"   /\ Goto(t, "answer") /\ UNCHANGED result

\* Mutant of Leave: the slot is not given back.
LeaveKeeping(t) ==
    /\ at[t] = "leave"
    /\ AfterRecv(t)
    /\ UNCHANGED <<tableVars, clock, open, sock, conn, from>>

\* Mutant of Leave: only is_used is reset.
LeaveForgetting(t) ==
    /\ at[t] = "leave"
    /\ used' = [d \in Descs |-> used[d] /\ idThread[d] # t]
    /\ AfterRecv(t)
    /\ UNCHANGED <<tmEnter, idSocket, idThread, clock, open, sock, conn, from>>

\* The first slot of this thread is reset; a thread that was forced has none.
Leave(t) ==
    /\ at[t] = "leave"
    /\ LET mine == {d \in Descs : used[d] /\ idThread[d] = t
                                    /\ \A e \in 1 .. d - 1 : ~(used[e] /\ idThread[e] = t)}
       IN /\ used'     = [d \in Descs |-> used[d] /\ d \notin mine]
          /\ tmEnter'  = [d \in Descs |-> IF d \in mine THEN 0 ELSE tmEnter[d]]
          /\ idSocket' = [d \in Descs |-> IF d \in mine THEN NoFd ELSE idSocket[d]]
          /\ idThread' = [d \in Descs |-> IF d \in mine THEN None ELSE idThread[d]]
    /\ AfterRecv(t)
    /\ UNCHANGED <<clock, open, sock, conn, from>>

\* The answer is sent; the connection is kept, unless recv failed.
Answer(t) ==
    /\ at[t] = "answer"
    /\ \/ result[t] # "error" /\ Goto(t, "enter")
       \/ Goto(t, "close")
    /\ result' = [result EXCEPT ![t] = "data"]
    /\ UNCHANGED <<tableVars, clock, open, sock, conn, from>>

\* Mutant of Close: the descriptor is not closed.
CloseNever(t) ==
    /\ at[t] = "close"
    /\ conn' = [conn EXCEPT ![t] = None]
    /\ sock' = [sock EXCEPT ![t] = NoFd]
    /\ Goto(t, "accept")
    /\ UNCHANGED <<tableVars, clock, open, from, result>>

\* sess_release closes whatever is behind the number by now.
Close(t) ==
    /\ at[t] = "close"
    /\ open' = Closed(sock[t])
    /\ conn' = [conn EXCEPT ![t] = None]
    /\ sock' = [sock EXCEPT ![t] = NoFd]
    /\ Goto(t, "accept")
    /\ UNCHANGED <<tableVars, clock, from, result>>

Known == {open[f] : f \in Fds} \cup {conn[t] : t \in Threads} \cup {from[t] : t \in Threads}

\* accept: the kernel takes the lowest free number; or it fails.
Accept(t) ==
    /\ at[t] = "accept"
    /\ \E f \in Fds, c \in Conns \ Known :
        /\ open[f] = None /\ \A g \in 1 .. f - 1 : open[g] # None
        /\ 1 .. c - 1 \subseteq Known      \* a name for the new connection
        /\ open' = [open EXCEPT ![f] = c]
        /\ sock' = [sock EXCEPT ![t] = f]
        /\ conn' = [conn EXCEPT ![t] = c]
    /\ Goto(t, "enter")
    /\ UNCHANGED <<tableVars, clock, from, result>>

AcceptFails(t) ==
    /\ at[t] = "accept"
    /\ Goto(t, "enter")
    /\ UNCHANGED <<tableVars, clock, open, sock, conn, from, result>>

Tick ==
    /\ clock < MaxClock
    /\ clock' = clock + 1
    /\ UNCHANGED <<tableVars, open, threadVars>>

ThreadStep(t) ==
    \/ Accept(t) \/ AcceptFails(t) \/ EnterFree(t) \/ EnterForcing(t)
    \/ RecvFails(t) \/ RecvBlocks(t) \/ RecvReturns(t)
    \/ Leave(t) \/ Answer(t) \/ Close(t)

Next == Tick \/ \E t \in Threads : ThreadStep(t)

Init == ZeroedInit /\ ServersInit

Spec == Init /\ [][Next]_vars

-----------------------------------------------------------------------------
(* Properties.                                                             *)

\* A thread never has in its hand a number behind which there is the client of
\* another: what it reads, sends and closes is its own connection ("bad close
\* handled"), or nothing.
OnlyOwnConnection ==
    \A t \in Threads : at[t] # "accept" => Behind(sock[t]) \in {None, conn[t]}

\* The table names threads that are inside recv, each once, with their socket;
\* a slot that outlived its thread would be forced on a client long served.
TableOfReceivers ==
    \A d \in Descs : used[d] =>
        /\ idThread[d] \in Threads
        /\ at[idThread[d]] \in Inside /\ sock[idThread[d]] = idSocket[d]
        /\ \A e \in Descs \ {d} : used[e] => idThread[e] # idThread[d]

\* A socket is taken from a client by force only when there are as many threads
\* inside recv as the table has slots ("no more free slots"), and from the one who
\* entered first ("release the oldest one").
OldestIsForced ==
    [][\A d \in Descs :
        used[d] /\ used'[d] /\ idThread'[d] # idThread[d] =>
            /\ Cardinality({u \in Threads : at[u] \in Inside}) >= NrDescs
            /\ \A e \in Descs : used[e] /\ tmEnter[d] <= tmEnter[e]]_vars

\* No connection stays open when its thread is done with it.
NoSocketLeaked ==
    \A f \in Fds : open[f] # None => \E t \in Threads : at[t] # "accept" /\ conn[t] = open[f]
=============================================================================
