------------------------------- MODULE Server -------------------------------
(***************************************************************************)
(* The servers of ziis (core/thr_server.cc, core/net_server.cc,            *)
(* core/main.cc) on top of the thread cache.  main() assigns one task per  *)
(* configured server; a thread that runs it binds the server, accepts one  *)
(* client, asks the pool for another thread to do the same, and serves its *)
(* client.  A thread that gets no successor comes back to accept itself    *)
(* (ret_in_cache is false) when its client is done.                        *)
(*                                                                         *)
(* A task of the pool is a server (its uparam).                            *)
(***************************************************************************)
EXTENDS ThreadPool

CONSTANTS Modular,     \* the servers configured with a connection module
          MaxWaiting   \* bound on the clients in a listen queue

ASSUME ServerAssumption == Modular \subseteq Tasks /\ MaxWaiting \in Nat \ {0}

Servers == Tasks

VARIABLES
    toStart,     \* the servers main() has still to run
    started,     \* the servers whose first task the pool accepted
    isBound,     \* server.is_bound
    srvSock,     \* server.srv_sock: "none", "listening" or "bad"
    waiting,     \* clients in the listen queue of a server
    stage,       \* where a thread is in server_entry, or main() in its loop
    srv,         \* session.srv
    retInCache,  \* session.ret_in_cache
    done,        \* session.done
    client       \* session.cli_sock: "none", "open", "closed" by the peer, "bad"

sessVars   == <<srv, retInCache, done, client>>
serverVars == <<toStart, started, isBound, srvSock, waiting, stage, srv,
                retInCache, done, client>>
vars == <<poolVars, serverVars>>

Stages == {"off",         \* not in server_entry
           "entry",       \* serve_another
           "bind",        \* about to test is_bound
           "setbound",    \* it was false
           "create",      \* about to create the listening socket
           "accept", "delegate", "delegating",
           "loop",        \* the test of the request loop
           "read", "handle", "release", "return"}

ServerTypeOK ==
    /\ toStart \subseteq Servers /\ started \subseteq Servers
    /\ isBound    \in [Servers -> BOOLEAN]
    /\ srvSock    \in [Servers -> {"none", "listening", "bad"}]
    /\ waiting    \in [Servers -> 0 .. MaxWaiting]
    /\ stage      \in [Threads -> Stages]
    /\ srv        \in [Threads -> Servers \cup {NoTask}]
    /\ retInCache \in [Threads -> BOOLEAN]
    /\ done       \in [Threads -> BOOLEAN]
    /\ client     \in [Threads -> {"none", "open", "closed", "bad"}]

ServerInit ==
    /\ toStart    = Servers
    /\ started    = {}
    /\ isBound    = [v \in Servers |-> FALSE]
    /\ srvSock    = [v \in Servers |-> "none"]
    /\ waiting    = [v \in Servers |-> 0]
    /\ stage      = [c \in Threads |-> "off"]
    /\ srv        = [c \in Threads |-> NoTask]
    /\ retInCache = [c \in Threads |-> TRUE]
    /\ done       = [c \in Threads |-> FALSE]
    /\ client     = [c \in Threads |-> "none"]

Enter(c, next) == stage' = [stage EXCEPT ![c] = next]

-----------------------------------------------------------------------------
(* main: server::run for every server of the configuration.                *)

RunServer(v) ==
    /\ stage[Main] = "off" /\ v \in toStart
    /\ Assign(Main, v)
    /\ toStart' = toStart \ {v}
    /\ Enter(Main, "delegating")
    /\ srv' = [srv EXCEPT ![Main] = v]
    /\ UNCHANGED <<started, isBound, srvSock, waiting, retInCache, done, client>>

\* The result of assign_task is ignored; `started` records it for the properties.
RunReturns ==
    /\ stage[Main] = "delegating" /\ pc[Main] = "idle"
    /\ Enter(Main, "off")
    /\ started' = IF answer[Main] THEN started \cup {srv[Main]} ELSE started
    /\ UNCHANGED <<poolVars, toStart, isBound, srvSock, waiting, sessVars>>

-----------------------------------------------------------------------------
(* server_entry.                                                           *)

\* sess_reset, at the start of a task and at serve_another.
ResetSession(s) ==
    /\ srv'        = [srv EXCEPT ![s] = task[s]]
    /\ retInCache' = [retInCache EXCEPT ![s] = TRUE]
    /\ done'       = [done EXCEPT ![s] = FALSE]

\* The cached thread calls entry_fn.
StartTask(s) ==
    /\ WorkerWake(s)
    /\ Enter(s, IF task[s] = NoTask THEN "off" ELSE "entry")
    /\ UNCHANGED <<toStart, started, isBound, srvSock, waiting, sessVars>>

BeginSession(s) ==
    /\ stage[s] = "entry"
    /\ ResetSession(s)
    /\ Enter(s, IF task[s] \in Modular THEN "bind" ELSE "return")
    /\ UNCHANGED <<poolVars, toStart, started, isBound, srvSock, waiting, client>>

\* Mutant of TestBound: the test is inverted.
TestBoundInverted(s) ==
    /\ stage[s] = "bind"
    /\ Enter(s, IF isBound[srv[s]] THEN "setbound" ELSE "accept")
    /\ UNCHANGED <<poolVars, toStart, started, isBound, srvSock, waiting, sessVars>>

TestBound(s) ==
    /\ stage[s] = "bind"
    /\ Enter(s, IF isBound[srv[s]] THEN "accept" ELSE "setbound")
    /\ UNCHANGED <<poolVars, toStart, started, isBound, srvSock, waiting, sessVars>>

SetBound(s) ==
    /\ stage[s] = "setbound"
    /\ isBound' = [isBound EXCEPT ![srv[s]] = TRUE]
    /\ Enter(s, "create")
    /\ UNCHANGED <<poolVars, toStart, started, srvSock, waiting, sessVars>>

\* create_listening may fail; server_entry does not look at its result.
CreateListening(s) ==
    /\ stage[s] = "create"
    /\ \E result \in {"listening", "bad"} : srvSock' = [srvSock EXCEPT ![srv[s]] = result]
    /\ Enter(s, "accept")
    /\ UNCHANGED <<poolVars, toStart, started, isBound, waiting, sessVars>>

\* Mutant of AcceptClient: accept does not wait for a client.
AcceptNobody(s) ==
    /\ stage[s] = "accept" /\ srvSock[srv[s]] = "listening"
    /\ waiting' = [waiting EXCEPT ![srv[s]] = @ - 1]
    /\ client' = [client EXCEPT ![s] = "open"]
    /\ Enter(s, "delegate")
    /\ UNCHANGED <<poolVars, toStart, started, isBound, srvSock, srv, retInCache, done>>

\* accept blocks until a client is there, and may fail with that client.
AcceptClient(s) ==
    /\ stage[s] = "accept" /\ srvSock[srv[s]] = "listening" /\ waiting[srv[s]] > 0
    /\ waiting' = [waiting EXCEPT ![srv[s]] = @ - 1]
    /\ \E result \in {"open", "bad"} : client' = [client EXCEPT ![s] = result]
    /\ Enter(s, "delegate")
    /\ UNCHANGED <<poolVars, toStart, started, isBound, srvSock, srv, retInCache, done>>

\* On a socket that was never created, accept fails at once.
AcceptFails(s) ==
    /\ stage[s] = "accept" /\ srvSock[srv[s]] # "listening"
    /\ client' = [client EXCEPT ![s] = "bad"]
    /\ Enter(s, "delegate")
    /\ UNCHANGED <<poolVars, toStart, started, isBound, srvSock, waiting, srv, retInCache, done>>

Delegate(s) ==
    /\ stage[s] = "delegate"
    /\ Assign(s, srv[s])
    /\ Enter(s, "delegating")
    /\ UNCHANGED <<toStart, started, isBound, srvSock, waiting, sessVars>>

\* Mutant of Delegated: a thread that got no successor returns to the cache.
DelegatedForgets(s) ==
    /\ stage[s] = "delegating" /\ pc[s] = "idle"
    /\ Enter(s, "loop")
    /\ UNCHANGED <<poolVars, toStart, started, isBound, srvSock, waiting, sessVars>>

\* Whatever accept returned, server_entry goes on to the request loop.
Delegated(s) ==
    /\ stage[s] = "delegating" /\ pc[s] = "idle"
    /\ retInCache' = [retInCache EXCEPT ![s] = answer[s]]
    /\ Enter(s, "loop")
    /\ UNCHANGED <<poolVars, toStart, started, isBound, srvSock, waiting, srv, done, client>>

-----------------------------------------------------------------------------
(* The request loop.                                                       *)

TestDone(s) ==
    /\ stage[s] = "loop"
    /\ Enter(s, IF done[s] THEN "release" ELSE "read")
    /\ UNCHANGED <<poolVars, toStart, started, isBound, srvSock, waiting, sessVars>>

\* A whole request was received from a client that is still there.
ReadRequest(s) ==
    /\ stage[s] = "read" /\ client[s] = "open"
    /\ Enter(s, "handle")
    /\ UNCHANGED <<poolVars, toStart, started, isBound, srvSock, waiting, sessVars>>

\* Recv fails, or what was received is too long or is not a request.
ReadFails(s) ==
    /\ stage[s] = "read" /\ client[s] \in {"open", "bad"}
    /\ done' = [done EXCEPT ![s] = TRUE]
    /\ Enter(s, "handle")
    /\ UNCHANGED <<poolVars, toStart, started, isBound, srvSock, waiting, srv, retInCache, client>>

\* The peer has closed and all it sent was consumed: Recv returns 0 from now
\* on, which is no error to sess_read_metadata; its loop goes on for ever.
ReadNothing(s) ==
    /\ stage[s] = "read" /\ client[s] = "closed"
    /\ UNCHANGED vars

\* sess_handle_document answers; the client may ask to keep the connection.
KeepConnection(s) ==
    /\ stage[s] = "handle"
    /\ Enter(s, "loop")
    /\ UNCHANGED <<poolVars, toStart, started, isBound, srvSock, waiting, sessVars>>

\* Mutant of EndConnection: done is not set.
EndConnectionKept(s) ==
    /\ stage[s] = "handle"
    /\ Enter(s, "loop")
    /\ UNCHANGED <<poolVars, toStart, started, isBound, srvSock, waiting, sessVars>>

EndConnection(s) ==
    /\ stage[s] = "handle"
    /\ done' = [done EXCEPT ![s] = TRUE]
    /\ Enter(s, "loop")
    /\ UNCHANGED <<poolVars, toStart, started, isBound, srvSock, waiting, srv, retInCache, client>>

\* Mutant of ReleaseSession: every thread goes back to accept.
ReleaseToAccept(s) ==
    /\ stage[s] = "release"
    /\ client' = [client EXCEPT ![s] = "none"]
    /\ Enter(s, "entry")
    /\ UNCHANGED <<poolVars, toStart, started, isBound, srvSock, waiting, srv, retInCache, done>>

ReleaseSession(s) ==
    /\ stage[s] = "release"
    /\ client' = [client EXCEPT ![s] = "none"]
    /\ Enter(s, IF retInCache[s] THEN "return" ELSE "entry")
    /\ UNCHANGED <<poolVars, toStart, started, isBound, srvSock, waiting, srv, retInCache, done>>

EndTask(s) ==
    /\ stage[s] = "return"
    /\ TaskReturns(s)
    /\ Enter(s, "off")
    /\ UNCHANGED <<toStart, started, isBound, srvSock, waiting, sessVars>>

-----------------------------------------------------------------------------
(* The clients.                                                            *)

\* The peer is gone, and nothing that it sent is left to read.
PeerCloses(s) ==
    /\ client[s] = "open"
    /\ client' = [client EXCEPT ![s] = "closed"]
    /\ UNCHANGED <<poolVars, toStart, started, isBound, srvSock, waiting, stage, srv, retInCache, done>>

\* A client connects to a listening socket.
Connect(v) ==
    /\ srvSock[v] = "listening" /\ waiting[v] < MaxWaiting
    /\ waiting' = [waiting EXCEPT ![v] = @ + 1]
    /\ UNCHANGED <<poolVars, toStart, started, isBound, srvSock, stage, sessVars>>

PoolStep ==
    /\ \/ \E c \in Threads : CallerStep(c)
       \/ \E s \in Slots : WorkerStart(s) \/ WorkerWait(s) \/ UnlockSlot(s)
    /\ UNCHANGED serverVars

SessionStep(s) ==
    \/ StartTask(s) \/ BeginSession(s) \/ TestBound(s) \/ SetBound(s) \/ CreateListening(s)
    \/ AcceptClient(s) \/ AcceptFails(s) \/ Delegate(s) \/ Delegated(s)
    \/ TestDone(s) \/ ReadRequest(s) \/ ReadFails(s) \/ ReadNothing(s)
    \/ KeepConnection(s) \/ EndConnection(s) \/ ReleaseSession(s) \/ EndTask(s)

MainStep == RunReturns \/ \E v \in Servers : RunServer(v)

PoliteNext ==
    \/ PoolStep \/ MainStep
    \/ \E s \in Slots : SessionStep(s)
    \/ \E v \in Servers : Connect(v)

Next == PoliteNext \/ \E s \in Slots : PeerCloses(s)

Init == PoolInit /\ ServerInit

\* Every thread runs.  Of the clients it is assumed that none stays silent for
\* ever and that each ends its connection sooner or later.
Fairness ==
    /\ WF_vars(MainStep)
    /\ \A c \in Threads : WF_vars(CallerStep(c) /\ UNCHANGED serverVars)
    /\ \A s \in Slots :
        /\ WF_vars((WorkerStart(s) \/ WorkerWait(s) \/ UnlockSlot(s)) /\ UNCHANGED serverVars)
        /\ WF_vars(SessionStep(s))
        /\ SF_vars(EndConnection(s))

Spec == Init /\ [][Next]_vars /\ Fairness

-----------------------------------------------------------------------------
(* Properties.                                                             *)

Serving == {"loop", "read", "handle", "release"}

\* Thread c will accept the next client of v, or see to it that another does:
\* it is on its way to accept, or places the task in the pool, or was refused.
Responsible(c, v) ==
    \/ pc[c] # "idle" /\ arg[c] = v
    \/ c \in Slots /\ worker[c] = "woken" /\ task[c] = v
    \/ c \in Slots /\ stage[c] = "entry" /\ task[c] = v
    \/ c \in Slots /\ stage[c] \in {"bind", "setbound", "create", "accept", "delegate"} /\ srv[c] = v
    \/ c \in Slots /\ stage[c] = "delegating" /\ pc[c] = "idle" /\ ~answer[c] /\ srv[c] = v
    \/ c \in Slots /\ stage[c] \in Serving /\ ~retInCache[c] /\ srv[c] = v

\* A started server always has a thread that accepts for it ("the thread
\* doesn't return in cache" when no other can do it).
SomebodyAccepts ==
    \A v \in started \cap Modular : \E c \in Threads : Responsible(c, v)

\* Never two: a server is bound by one thread, accepted on by one thread.
NobodyElseAccepts ==
    \A v \in Servers : \A c, d \in Threads : Responsible(c, v) /\ Responsible(d, v) => c = d

\* The unprotected test-and-set of is_bound works: nobody accepts on a socket
\* before the thread that found the server unbound has tried to create it.
BoundBeforeAccept ==
    \A s \in Slots : stage[s] = "accept" => srvSock[srv[s]] # "none"

\* The listening socket of a server is created once.
CreatedOnce ==
    [][\A v \in Servers : srvSock[v] # "none" => UNCHANGED srvSock[v]]_vars

\* A thread whose client has closed its connection reads nothing for ever.
Spinning(s) == stage[s] = "read" /\ client[s] = "closed"

\* A client in the queue of a listening server is accepted in the end, as long as
\* no thread is lost to a client that was gone before its request was complete.
ClientIsAccepted ==
    \A v \in Servers :
        waiting[v] = MaxWaiting ~> waiting[v] < MaxWaiting \/ \E s \in Slots : Spinning(s)
=============================================================================
