----------------------------- MODULE ResManager -----------------------------
(***************************************************************************)
(* The resource manager of zfs and the loop of its server, one thread:     *)
(* reap what is closed or has expired, select, reap again, read and        *)
(* accept, then let the sessions of the resources that were read process   *)
(* (core/iores_manager.cc, iores_insock.cc, server.cc).                    *)
(*                                                                         *)
(* The sockets are those of sys/win32.  Nothing that is called feeds a     *)
(* resource or creates one for a file, so there is nothing to write.       *)
(* Each client makes one connection and gives its resource and its session *)
(* their identity.  Time is counted in ticks, and told by how long ago a   *)
(* thing was: m_tm_lastio is the age of the last io.                       *)
(***************************************************************************)
EXTENDS Integers, Sequences, FiniteSets

CONSTANTS Clients,
          Listener,            \* the resource that accepts
          NoClient, End,       \* no connection; the end of the list
          Handles,             \* what the system can name connections by
          NR_MAX_CONNECTIONS,
          Expiry,              \* ticks without io that make a resource expire
          MaxMessages          \* bound on what each client sends

ASSUME ManagerAssumption ==
    /\ IsFiniteSet(Clients) /\ IsFiniteSet(Handles)
    /\ Listener \notin Clients /\ NoClient \notin Clients /\ End \notin Clients \cup {Listener}
    /\ Listener \notin Handles
    /\ NR_MAX_CONNECTIONS \in 1 .. Cardinality(Handles)
    /\ Expiry \in Nat \ {0} /\ MaxMessages \in Nat

VARIABLES
    \* the system and the clients
    owner,           \* whose connection a handle is
    queue,           \* clients nobody has accepted yet
    peer,            \* the connection seen from the client
    unsent,          \* messages a client may still send
    inbox,           \* messages that have come and nobody has read
    \* io::res_manager
    resources,       \* m_resources
    res,             \* what they hold
    nr_connections,
    sessions,        \* clients that have a session in m_sessions
    \* the loop
    at,
    tm,              \* how long ago tm_current is
    watched, rdset,
    nev, cur,
    res_queue,
    ready            \* for the properties: clients whose sockets made rdset

world   == <<owner, queue, peer, unsent, inbox>>
manager == <<resources, res, nr_connections, sessions>>
loop    == <<at, tm, watched, rdset, nev, cur, res_queue, ready>>
vars    == <<world, manager, loop>>

Elements(s) == {s[k] : k \in DOMAIN s}

NoRes == [hsock |-> Listener, refcount |-> 0, expired |-> FALSE, lastio |-> -1, rd_buf |-> 0]

\* create and open; m_tm_lastio is 0, that is never.
NewRes(h) == [hsock |-> h, refcount |-> 1, expired |-> FALSE, lastio |-> -1, rd_buf |-> 0]

\* process_requests has created and opened a resource for its one protocol.
Init ==
    /\ owner = [h \in Handles |-> NoClient] /\ queue = <<>>
    /\ peer = [c \in Clients |-> "away"] /\ unsent = [c \in Clients |-> MaxMessages]
    /\ inbox = [c \in Clients |-> 0]
    /\ resources = <<Listener>> /\ res = [c \in Clients |-> NoRes]
    /\ nr_connections = NR_MAX_CONNECTIONS /\ sessions = {}
    /\ at = "reap" /\ tm = 0 /\ watched = {} /\ rdset = {} /\ nev = 0 /\ cur = End
    /\ res_queue = <<>> /\ ready = {}

-----------------------------------------------------------------------------
(* Clients and time.                                                       *)

Connect(c) ==
    /\ peer[c] = "away"
    /\ peer' = [peer EXCEPT ![c] = "open"] /\ queue' = Append(queue, c)
    /\ UNCHANGED <<owner, unsent, inbox, manager, loop>>

SendMessage(c) ==
    /\ peer[c] = "open" /\ unsent[c] > 0
    /\ unsent' = [unsent EXCEPT ![c] = @ - 1] /\ inbox' = [inbox EXCEPT ![c] = @ + 1]
    /\ UNCHANGED <<owner, queue, peer, manager, loop>>

Leave(c) ==
    /\ peer[c] = "open"
    /\ peer' = [peer EXCEPT ![c] = "closed"] /\ unsent' = [unsent EXCEPT ![c] = 0]
    /\ UNCHANGED <<owner, queue, inbox, manager, loop>>

Older(age) == IF age \in 0 .. Expiry THEN age + 1 ELSE age

Tick ==
    /\ tm' = IF at \in {"reap", "prepare", "process"} THEN 0 ELSE Older(tm)
    /\ res' = [c \in Clients |-> [res[c] EXCEPT !.lastio = Older(@)]]
    /\ UNCHANGED <<world, resources, nr_connections, sessions, at, watched, rdset, nev, cur, res_queue, ready>>

-----------------------------------------------------------------------------
(* reap_resources.                                                         *)

\* io_has_expired.
HasExpired(r) == r.lastio > Expiry \/ r.expired

Dead == {c \in Elements(resources) \ {Listener} : res[c].refcount = 0 \/ HasExpired(res[c])}

\* Where what is left of the list was, in the same order.
Remaining(dead) ==
    LET stays == {k \in DOMAIN resources : resources[k] \notin dead}
    IN  {keep \in [1 .. Cardinality(stays) -> stays] : \A i, j \in DOMAIN keep : i < j => keep[i] < keep[j]}

ReapWith(dead, rest) ==
    /\ at \in {"reap", "reap again"}
    /\ \E keep \in Remaining(dead) : resources' = [k \in DOMAIN keep |-> resources[keep[k]]]
    /\ owner' = [h \in Handles |-> IF owner[h] \in dead THEN NoClient ELSE owner[h]]
    /\ res' = [c \in Clients |-> IF c \in dead THEN NoRes ELSE res[c]]
    /\ peer' = [c \in Clients |-> IF c \in dead THEN "gone" ELSE peer[c]]
    /\ inbox' = [c \in Clients |-> IF c \in dead THEN 0 ELSE inbox[c]]
    /\ unsent' = [c \in Clients |-> IF c \in dead THEN 0 ELSE unsent[c]]
    /\ nr_connections' = nr_connections + Cardinality(dead)
    /\ sessions' = rest
    /\ IF at = "reap" THEN at' = "prepare" /\ cur' = End
                      ELSE at' = "loop" /\ cur' = Head(resources')
    /\ UNCHANGED <<queue, tm, watched, rdset, nev, res_queue, ready>>

\* Mutant of Reap: sessions stay.
ReapKeeping == ReapWith(Dead, sessions)

\* Every dead resource is closed and deleted, with the sessions that have it
\* for their client; each gives a connection back.
Reap == ReapWith(Dead, sessions \ Dead)

-----------------------------------------------------------------------------
(* dispatch_socket_io.                                                     *)

HandleOf(r) == IF r = Listener THEN Listener ELSE res[r].hsock

\* tm_current is read, the set filled; a resource that has seen no io yet is
\* given that time.
PrepareSets ==
    /\ at = "prepare"
    /\ tm' = 0
    /\ watched' = {HandleOf(r) : r \in Elements(resources)}
    /\ res' = [c \in Clients |-> IF c \in Elements(resources) /\ res[c].lastio = -1
                                 THEN [res[c] EXCEPT !.lastio = 0] ELSE res[c]]
    /\ at' = "select"
    /\ UNCHANGED <<world, resources, nr_connections, sessions, rdset, nev, cur, res_queue, ready>>

Readable(h) == IF h = Listener THEN queue # <<>>
               ELSE inbox[owner[h]] > 0 \/ peer[owner[h]] = "closed"

\* select has no timeout.
Select ==
    /\ at = "select"
    /\ rdset' = {h \in watched : Readable(h)} /\ rdset' # {}
    /\ nev' = Cardinality(rdset')
    /\ ready' = {owner[h] : h \in rdset' \ {Listener}}
    /\ at' = "reap again" /\ watched' = {}
    /\ UNCHANGED <<world, manager, tm, cur, res_queue>>

\* The element of the list behind r.
After(r) == LET k == CHOOSE i \in DOMAIN resources : resources[i] = r
            IN  IF k = Len(resources) THEN End ELSE resources[k + 1]

\* FD_ISSET of a resource the loop is at.
IsSet(r) == at = "loop" /\ cur = r /\ nev > 0 /\ HandleOf(r) \in rdset

SkipResource ==
    /\ at = "loop" /\ cur # End /\ nev > 0 /\ HandleOf(cur) \notin rdset
    /\ cur' = After(cur)
    /\ UNCHANGED <<world, manager, at, tm, watched, rdset, nev, res_queue, ready>>

LoopEnds ==
    /\ at = "loop" /\ (cur = End \/ nev = 0)
    /\ at' = "process" /\ cur' = End /\ rdset' = {} /\ nev' = 0 /\ ready' = {}
    /\ tm' = 0
    /\ UNCHANGED <<world, manager, watched, res_queue>>

\* io_on_read of a connection; the time of its io is that before select.
ReadMessages(c) ==
    /\ IsSet(c) /\ inbox[c] > 0
    /\ \E n \in 1 .. inbox[c] :
           /\ inbox' = [inbox EXCEPT ![c] = @ - n]
           /\ res' = [res EXCEPT ![c].rd_buf = @ + n, ![c].lastio = tm]
    /\ res_queue' = <<c>> \o res_queue
    /\ nev' = nev - 1 /\ cur' = After(c)
    /\ UNCHANGED <<owner, queue, peer, unsent, resources, nr_connections, sessions,
                   at, tm, watched, rdset, ready>>

\* Mutant of ReadFails: recv returns 0 with success, as in sys/posix.
ReadNothing(c) ==
    /\ IsSet(c) /\ inbox[c] = 0
    /\ res' = [res EXCEPT ![c].lastio = tm]
    /\ res_queue' = <<c>> \o res_queue
    /\ nev' = nev - 1 /\ cur' = After(c)
    /\ UNCHANGED <<world, resources, nr_connections, sessions, at, tm, watched, rdset, ready>>

ReadFailsWith(c, left) ==
    /\ IsSet(c) /\ inbox[c] = 0
    /\ res' = [res EXCEPT ![c].expired = (peer[c] = "closed"), ![c].refcount = 0, ![c].lastio = tm]
    /\ nev' = nev - 1 /\ cur' = After(c)
    /\ nr_connections' = left
    /\ UNCHANGED <<world, resources, sessions, at, tm, watched, rdset, res_queue, ready>>

\* Mutant of ReadFails: the connection is given back here too.
ReadFailsTwice(c) == ReadFailsWith(c, nr_connections + 1)

\* The client has left, or there was nothing to read: the resource is closed.
ReadFails(c) == ReadFailsWith(c, nr_connections)

StartAccepting ==
    /\ IsSet(Listener)
    /\ at' = "accept" /\ cur' = After(Listener) /\ nev' = nev - 1
    /\ UNCHANGED <<world, manager, tm, watched, rdset, res_queue, ready>>

AcceptWith(before, after) ==
    /\ at = "accept" /\ queue # <<>> /\ nr_connections > 0
    /\ LET c == Head(queue)
       IN  /\ \E h \in {k \in Handles : owner[k] = NoClient} :
                  owner' = [owner EXCEPT ![h] = c] /\ res' = [res EXCEPT ![c] = NewRes(h)]
           /\ resources' = before \o <<c>> \o after
           /\ sessions' = sessions \cup {c}
    /\ queue' = Tail(queue)
    /\ nr_connections' = nr_connections - 1
    /\ UNCHANGED <<peer, unsent, inbox, loop>>

\* Mutant of AcceptOne: the resource is put at the end of the list.
AcceptAtEnd == AcceptWith(resources, <<>>)

\* One turn of the accept loop: handle, session and resource of a client, which
\* create puts at the front of the list.
AcceptOne == AcceptWith(<<>>, resources)

StopAccepting ==
    /\ at = "accept" /\ (queue = <<>> \/ nr_connections = 0)
    /\ at' = "loop"
    /\ res_queue' = <<Listener>> \o res_queue
    /\ UNCHANGED <<world, manager, tm, watched, rdset, nev, cur, ready>>

-----------------------------------------------------------------------------
(* process_requests: the sessions of the resources that saw io.            *)

\* session::process: the stage fetches what was read and consumes it, unless the
\* client has expired.
Process ==
    /\ at = "process" /\ res_queue # <<>>
    /\ res_queue' = Tail(res_queue)
    /\ LET r == Head(res_queue)
       IN  res' = IF r \in sessions /\ ~HasExpired(res[r])
                  THEN [res EXCEPT ![r].rd_buf = 0] ELSE res
    /\ UNCHANGED <<world, resources, nr_connections, sessions, at, tm, watched, rdset, nev, cur, ready>>

NextTurn ==
    /\ at = "process" /\ res_queue = <<>>
    /\ at' = "reap"
    /\ UNCHANGED <<world, manager, tm, watched, rdset, nev, cur, res_queue, ready>>

-----------------------------------------------------------------------------
ServerStep ==
    \/ Reap \/ PrepareSets \/ Select
    \/ SkipResource \/ LoopEnds
    \/ \E c \in Clients : ReadMessages(c) \/ ReadFails(c)
    \/ StartAccepting \/ AcceptOne \/ StopAccepting
    \/ Process \/ NextTurn

Next ==
    \/ ServerStep \/ Tick
    \/ \E c \in Clients : Connect(c) \/ SendMessage(c) \/ Leave(c)

\* The thread runs and time passes; no client has to do anything.
Spec == Init /\ [][Next]_vars /\ WF_vars(ServerStep) /\ WF_vars(Tick)

-----------------------------------------------------------------------------
(* Properties.                                                             *)

Ages == -1 .. Expiry + 1

ResTypeOK ==
    /\ owner \in [Handles -> Clients \cup {NoClient}] /\ queue \in Seq(Clients)
    /\ peer \in [Clients -> {"away", "open", "closed", "gone"}]
    /\ unsent \in [Clients -> 0 .. MaxMessages] /\ inbox \in [Clients -> 0 .. MaxMessages]
    /\ resources \in Seq(Clients \cup {Listener})
    /\ res \in [Clients -> [hsock : Handles \cup {Listener}, refcount : {0, 1}, expired : BOOLEAN,
                            lastio : Ages, rd_buf : 0 .. MaxMessages]]
    /\ nr_connections \in 0 .. NR_MAX_CONNECTIONS /\ sessions \subseteq Clients
    /\ at \in {"reap", "prepare", "select", "reap again", "loop", "accept", "process"}
    /\ tm \in 0 .. Expiry + 1
    /\ watched \subseteq Handles \cup {Listener} /\ rdset \subseteq Handles \cup {Listener}
    /\ nev \in Nat /\ cur \in Clients \cup {Listener, End}
    /\ res_queue \in Seq(Clients \cup {Listener}) /\ ready \subseteq Clients

\* However connections are accepted, closed and expire around one another: the
\* connections that are left and those in use are always NR_MAX_CONNECTIONS,
\* each in use has a handle of its own and one session, and what is waiting to be
\* processed or visited was not deleted.
BooksBalance ==
    LET live == Elements(resources) \ {Listener}
    IN  /\ nr_connections + Cardinality(live) = NR_MAX_CONNECTIONS
        /\ Len(resources) = Cardinality(live) + 1
        /\ sessions = live
        /\ {h \in Handles : owner[h] # NoClient} = {res[c].hsock : c \in live}
        /\ \A c \in live : owner[res[c].hsock] = c
        /\ Elements(res_queue) \cup ({cur} \ {End}) \subseteq Elements(resources)

\* Resources are closed, and their numbers accepted again, between select and
\* the end of the loop over its results: what the loop has still to visit and
\* finds in the set is the connection that select has seen.
BitsAreFresh ==
    at \in {"loop", "accept"} /\ cur # End =>
        \A k, j \in DOMAIN resources :
            resources[k] = cur /\ j >= k /\ resources[j] # Listener /\ res[resources[j]].hsock \in rdset
                => resources[j] \in ready

\* Whatever clients do, what one has sent gets to its session or its connection
\* is given up; with all connections taken the queue waits for one to be closed or
\* to expire, which happens; and a client that has left is reaped.
NobodyIsForgotten ==
    \A c \in Clients : /\ []<>(inbox[c] = 0 /\ res[c].rd_buf = 0)
                       /\ []<>(c \notin Elements(queue))
                       /\ []<>(peer[c] # "closed")
=============================================================================
