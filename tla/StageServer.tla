---------------------------- MODULE StageServer ----------------------------
(***************************************************************************)
(* The server of ziahttpd-mod: one thread that selects over a table of     *)
(* sockets with one-shot handlers (server/ioselect.cc), then drives every  *)
(* session through its stages until a hook starts an io (session_manager,  *)
(* modman), with the hooks of the modules net, http1.1 and resource.       *)
(*                                                                         *)
(* Bytes are tokens: half a line, a whole line (or the other half), the    *)
(* blank line that ends a request.  What a request asks for is the number  *)
(* of chunks of the file it names.  Descriptor 1 is the listening socket.  *)
(***************************************************************************)
EXTENDS Integers, Sequences, FiniteSets

CONSTANTS Clients,      \* each makes one connection
          NoClient,     \* owner of a descriptor that is not open
          NSOCKIO,      \* entries of the table of sockets
          MaxRequests,  \* bound on the requests of each client
          MaxAhead,     \* bound on the requests a client has not got the answer of
          Chunks,       \* the chunks of the file a client asks for
          MayLeave      \* the clients that do not stay for ever

ASSUME StageAssumption ==
    /\ IsFiniteSet(Clients) /\ NoClient \notin Clients
    /\ NSOCKIO \in Nat \ {0} /\ MaxRequests \in [Clients -> Nat] /\ MaxAhead \in Nat \ {0}
    /\ Chunks \in [Clients -> Nat] /\ MayLeave \subseteq Clients

ListenFd == 1
ConFds   == 2 .. Cardinality(Clients) + 1
Entries  == 1 .. NSOCKIO

VARIABLES
    \* the kernel and the clients
    owner,       \* whose connection a descriptor of the server is
    queue,       \* clients in the listen queue
    peer,        \* the state of a client's connection, seen from the client
    inbox,       \* what a client has sent and nobody has received
    mid,         \* what a client has sent of its next request
    asked,       \* requests a client has sent whole
    got,         \* what a client was sent
    \* thrman::ioselect
    sockios, nr_used, hsock_max,
    \* handle_events
    at,          \* where the thread is
    pos, nev, rdset, wrset,
    \* http::session_manager and inet_helper.cc
    sessions,    \* the list of sessions
    cur,         \* the position of process() in it
    blocks,      \* gbl_blocks: what was received on a descriptor and not used
    \* for the properties
    served       \* the chunks of each answer that was begun for a client

world == <<owner, queue, peer, inbox, mid, asked, got>>
table == <<sockios, nr_used, hsock_max>>
loop  == <<at, pos, nev, rdset, wrset>>
vars  == <<world, table, loop, sessions, cur, blocks, served>>

Stages == {"CREATE_CON", "READ_RQST_METADATA", "PARSE_RQST_METADATA", "READ_RQST_DATA",
           "ALTER_RQST_DATA", "BUILD_RESP_METADATA", "BUILD_RESP_DATA",
           "ALTER_RESP_DATA", "ALTER_RESP_METADATA", "SEND_RESP"}

Token == [from : Clients, what : {"half", "line", "blank"}]

\* reset_sockio; the members the default modules never set are left out.
FreeEntry == [used |-> FALSE, hsock |-> 0, onread |-> "none", onwrite |-> "none"]

\* http::session::session and session::reset.  `lines` are the clients whose
\* bytes are in hdrlines_in, `left` what the resource has still to give.
NewSession(h) ==
    [hsock |-> h, stage |-> "CREATE_CON", lines |-> {}, chunked |-> FALSE, first |-> FALSE,
     last |-> FALSE, header |-> FALSE, content |-> "none", left |-> 0]

Init ==
    /\ owner = [h \in ConFds |-> NoClient] /\ queue = <<>>
    /\ peer = [c \in Clients |-> "away"]
    /\ inbox = [c \in Clients |-> <<>>] /\ mid = [c \in Clients |-> "none"]
    /\ asked = [c \in Clients |-> 0] /\ got = [c \in Clients |-> <<>>]
    \* core::run has registered the listening socket and asked to read it
    /\ sockios = [e \in Entries |-> IF e = 1 THEN [used |-> TRUE, hsock |-> ListenFd,
                                                   onread |-> "accept", onwrite |-> "none"]
                                             ELSE FreeEntry]
    /\ nr_used = 1 /\ hsock_max = ListenFd
    /\ at = "select" /\ pos = 1 /\ nev = 0 /\ rdset = {} /\ wrset = {}
    /\ sessions = <<>> /\ cur = 1
    /\ blocks = [h \in ConFds |-> [buf |-> <<>>, line |-> {}]]
    /\ served = [c \in Clients |-> <<>>]

-----------------------------------------------------------------------------
(* The clients and the kernel.  The hooks of a stage touch no socket: a     *)
(* client's step commutes with theirs, and is taken before or after them.  *)

Connect(c) ==
    /\ at # "process" /\ peer[c] = "away"
    /\ peer' = [peer EXCEPT ![c] = "open"]
    /\ queue' = Append(queue, c)
    /\ UNCHANGED <<owner, inbox, mid, asked, got, table, loop, sessions, cur, blocks, served>>

\* The number of whole answers in what a client was sent.
Answers(c) == Cardinality({k \in DOMAIN got[c] : got[c][k] = "end"})

Send(c, what, next) ==
    /\ at # "process" /\ peer[c] = "open"
    /\ inbox' = [inbox EXCEPT ![c] = Append(@, [from |-> c, what |-> what])]
    /\ mid' = [mid EXCEPT ![c] = next]
    /\ UNCHANGED <<owner, queue, peer, got, table, loop, sessions, cur, blocks, served>>

BeginRequest(c) ==
    /\ mid[c] = "none" /\ asked[c] < MaxRequests[c] /\ asked[c] - Answers(c) < MaxAhead
    /\ \/ Send(c, "half", "half")
       \/ Send(c, "line", "line")
    /\ UNCHANGED asked

GoOnWithRequest(c) ==
    \/ mid[c] = "half" /\ Send(c, "line", "line") /\ UNCHANGED asked
    \/ /\ mid[c] = "line" /\ Send(c, "blank", "none")
       /\ asked' = [asked EXCEPT ![c] = @ + 1]

\* A client leaves, or its machine resets the connection; what it has sent can
\* still be received.
Leave(c) ==
    /\ at # "process" /\ peer[c] = "open" /\ c \in MayLeave
    /\ \E how \in {"closed", "reset"} : peer' = [peer EXCEPT ![c] = how]
    /\ UNCHANGED inbox
    /\ UNCHANGED <<owner, queue, mid, asked, got, table, loop, sessions, cur, blocks, served>>

Readable(h) == IF h = ListenFd THEN queue # <<>>
               ELSE inbox[owner[h]] # <<>> \/ peer[owner[h]] # "open"

-----------------------------------------------------------------------------
(* thrman::ioselect: the table.                                            *)

Used == {e \in Entries : sockios[e].used}
EntryOf(h) == {e \in Used : sockios[e].hsock = h}
Highest(S) == IF S = {} THEN 0 ELSE CHOOSE h \in S : \A k \in S : k <= h
Lowest(S)  == CHOOSE h \in S : \A k \in S : h <= k

\* A handler is called: its pointer is zeroed first.
Called(t, e, on) == [t EXCEPT ![e][on] = "none"]

\* read and write: the handler is kept unless one is there; a descriptor that is
\* not in the table gets none, which nobody notices.
Armed(t, h, on, handler) ==
    [e \in Entries |-> IF t[e].used /\ t[e].hsock = h /\ t[e][on] = "none"
                       THEN [t[e] EXCEPT ![on] = handler] ELSE t[e]]

\* register_sockhdl.  Its result is ignored when the table is full.
RegisterSockhdl(t, h) ==
    IF nr_used = NSOCKIO
    THEN sockios' = t /\ UNCHANGED <<nr_used, hsock_max>>
    ELSE /\ sockios' = [t EXCEPT ![Lowest(Entries \ Used)] =
                            [FreeEntry EXCEPT !.used = TRUE, !.hsock = h]]
         /\ nr_used' = nr_used + 1
         /\ hsock_max' = IF h > hsock_max THEN h ELSE hsock_max

\* Mutants of ReleaseSockio: the entry is counted out twice; the highest
\* descriptor is not looked for again.
ReleaseTwice(e) ==
    /\ sockios' = [sockios EXCEPT ![e] = FreeEntry]
    /\ nr_used' = nr_used - 2
    /\ hsock_max' = Highest({sockios[d].hsock : d \in Used \ {e}})

ReleaseKeepingMax(e) ==
    /\ sockios' = [sockios EXCEPT ![e] = FreeEntry]
    /\ nr_used' = nr_used - 1
    /\ UNCHANGED hsock_max

ReleaseSockio(e) ==
    /\ sockios' = [sockios EXCEPT ![e] = FreeEntry]
    /\ nr_used' = nr_used - 1
    /\ hsock_max' = IF sockios[e].hsock = hsock_max
                    THEN Highest({sockios[d].hsock : d \in Used \ {e}}) ELSE hsock_max

-----------------------------------------------------------------------------
(* handle_io: prepare_events, select and the loop over the table.          *)

\* Every connection can be written to; select waits until something is ready.
SelectOn(toRead, toWrite) ==
    /\ at = "select"
    /\ LET handles(S) == {sockios[e].hsock : e \in S}
       IN  /\ rdset' = {h \in handles(toRead) : h <= hsock_max /\ Readable(h)}
           /\ wrset' = {h \in handles(toWrite) : h <= hsock_max}
    /\ IF toRead \cup toWrite = {}
       THEN at' = "process"
       ELSE rdset' \cup wrset' # {} /\ at' = "loop"
    /\ nev' = Cardinality(rdset') + Cardinality(wrset')
    /\ UNCHANGED <<world, table, pos, sessions, cur, blocks, served>>

\* Mutant of Select: every entry is watched for reading.
SelectAll == SelectOn(Used, {e \in Used : sockios[e].onwrite # "none"})

Select == SelectOn({e \in Used : sockios[e].onread # "none"},
                   {e \in Used : sockios[e].onwrite # "none"})

Reads(e)  == sockios[e].used /\ sockios[e].hsock \in rdset
Writes(e) == sockios[e].used /\ sockios[e].hsock \in wrset

InLoop == at = "loop" /\ nev > 0 /\ pos \in Entries

\* Mutant of EndIteration: an entry that was released is not counted.
EndIterationKeeping ==
    /\ nev' = IF at = "close" THEN nev ELSE nev - 1
    /\ pos' = pos + 1 /\ at' = "loop" /\ UNCHANGED <<rdset, wrset>>

\* The end of an iteration that called a handler.
EndIteration == nev' = nev - 1 /\ pos' = pos + 1 /\ at' = "loop" /\ UNCHANGED <<rdset, wrset>>

GoTo(next) == at' = next /\ UNCHANGED <<pos, nev, rdset, wrset>>

\* After the read handler the same entry may have something to write.
AfterReading == IF Writes(pos) THEN GoTo("write") ELSE EndIteration

WritesNow == (at = "write" \/ (InLoop /\ ~Reads(pos))) /\ Writes(pos)

\* The locals of handle_events are gone.
LoopEnds ==
    /\ at = "loop" /\ nev = 0
    /\ at' = "process" /\ pos' = 1 /\ rdset' = {} /\ wrset' = {} /\ UNCHANGED nev
    /\ UNCHANGED <<world, table, sessions, cur, blocks, served>>

SkipEntry ==
    /\ InLoop /\ ~Reads(pos) /\ ~Writes(pos)
    /\ pos' = pos + 1
    /\ UNCHANGED <<world, table, at, nev, rdset, wrset, sessions, cur, blocks, served>>

\* core::handle_default_connection: accept, ask to read the listening socket
\* again, register the connection and make its session.
AcceptAs(t) ==
    /\ InLoop /\ Reads(pos) /\ sockios[pos].onread = "accept"
    /\ LET h == Lowest({k \in ConFds : owner[k] = NoClient})
       IN  /\ owner' = [owner EXCEPT ![h] = Head(queue)]
           /\ queue' = Tail(queue)
           /\ RegisterSockhdl(t, h)
           /\ sessions' = <<NewSession(h)>> \o sessions
    /\ AfterReading
    /\ UNCHANGED <<peer, inbox, mid, asked, got, cur, blocks, served>>

\* Mutant of AcceptConnection: the listening socket is not read again.
AcceptOnce == AcceptAs(Called(sockios, pos, "onread"))

AcceptConnection ==
    AcceptAs(Armed(Called(sockios, pos, "onread"), ListenFd, "onread", "accept"))

\* The handler of a connection is read_metadata; it goes on in "lines".
StartReading ==
    /\ InLoop /\ Reads(pos) /\ sockios[pos].onread = "read"
    /\ sockios' = Called(sockios, pos, "onread")
    /\ GoTo("lines")
    /\ UNCHANGED <<world, nr_used, hsock_max, sessions, cur, blocks, served>>

-----------------------------------------------------------------------------
(* read_metadata and get_nextline.                                         *)

\* The session found for a descriptor: the first in the list, 0 for none.
SessionOf(h) == LET S == {k \in DOMAIN sessions : sessions[k].hsock = h}
                IN  IF S = {} THEN 0 ELSE Lowest(S)

\* What a stage leads to; modman::next_processing_stage.
NextStage(s) ==
    IF s.stage # "SEND_RESP"
    THEN CASE s.stage = "CREATE_CON"          -> [s EXCEPT !.stage = "READ_RQST_METADATA"]
           [] s.stage = "READ_RQST_METADATA"  -> [s EXCEPT !.stage = "PARSE_RQST_METADATA"]
           [] s.stage = "PARSE_RQST_METADATA" -> [s EXCEPT !.stage = "READ_RQST_DATA"]
           [] s.stage = "READ_RQST_DATA"      -> [s EXCEPT !.stage = "ALTER_RQST_DATA"]
           [] s.stage = "ALTER_RQST_DATA"     -> [s EXCEPT !.stage = "BUILD_RESP_METADATA"]
           [] s.stage = "BUILD_RESP_METADATA" -> [s EXCEPT !.stage = "BUILD_RESP_DATA"]
           [] s.stage = "BUILD_RESP_DATA"     -> [s EXCEPT !.stage = "ALTER_RESP_DATA"]
           [] s.stage = "ALTER_RESP_DATA"     -> [s EXCEPT !.stage = "ALTER_RESP_METADATA"]
           [] s.stage = "ALTER_RESP_METADATA" -> [s EXCEPT !.stage = "SEND_RESP"]
    ELSE IF s.chunked THEN [s EXCEPT !.stage = "BUILD_RESP_DATA"]
    ELSE NewSession(s.hsock)  \* reset_me_, done by process() at once

\* Mutant of Kept: line_ is handed out and not reset.
KeptAlways(token, bytes) == IF token = "blank" THEN {} ELSE bytes

\* What a token makes of line_: the clients whose bytes wait for the end of a line.
Kept(token, bytes) == IF token = "half" THEN bytes ELSE {}

\* get_nextline takes the next token out of the block: half a line is put into
\* line_, where it waits for its end; an empty line ends the request.
TakeToken ==
    /\ at = "lines"
    /\ LET h == sockios[pos].hsock
           b == blocks[h]
           k == SessionOf(h)
           bytes == b.line \cup {Head(b.buf).from}
       IN  /\ b.buf # <<>>
           /\ blocks' = [blocks EXCEPT ![h] = [buf |-> Tail(b.buf),
                                               line |-> Kept(Head(b.buf).what, bytes)]]
           /\ CASE Head(b.buf).what = "half" -> UNCHANGED <<loop, sessions>>
                [] Head(b.buf).what = "line" \/ (Head(b.buf).what = "blank" /\ b.line # {}) ->
                     /\ sessions' = [sessions EXCEPT ![k].lines = @ \cup bytes]
                     /\ UNCHANGED loop
                [] OTHER ->
                     /\ sessions' = [sessions EXCEPT ![k] = NextStage(@)]
                     /\ AfterReading
    /\ UNCHANGED <<world, table, cur, served>>

\* recv blocks until the client has sent something or has left.
ReceiveMore ==
    /\ at = "lines"
    /\ LET h == sockios[pos].hsock
           c == owner[h]
       IN  /\ blocks[h].buf = <<>> /\ inbox[c] # <<>>
           /\ blocks' = [blocks EXCEPT ![h].buf = inbox[c]]
           /\ inbox' = [inbox EXCEPT ![c] = <<>>]
    /\ UNCHANGED <<owner, queue, peer, mid, asked, got, table, loop, sessions, cur, served>>

\* recv returns 0: the connection is to be closed.  After a reset it first
\* returns an error, and the callback fails without a reason to close.
ReceiveNothing ==
    /\ at = "lines"
    /\ LET h == sockios[pos].hsock
           c == owner[h]
       IN  /\ blocks[h].buf = <<>> /\ inbox[c] = <<>> /\ peer[c] # "open"
           /\ IF peer[c] = "reset" THEN AfterReading ELSE GoTo("close")
           /\ peer' = [peer EXCEPT ![c] = IF @ = "reset" THEN "dead" ELSE @]
    /\ UNCHANGED <<owner, queue, inbox, mid, asked, got, table, sessions, cur, blocks, served>>

-----------------------------------------------------------------------------
(* send_response and handle_default_termination.                           *)

SendWith(s) ==
    /\ WritesNow
    /\ LET h == sockios[pos].hsock
           c == owner[h]
           k == SessionOf(h)
           parts == (IF s[k].header THEN <<"header">> ELSE <<>>)
                    \o (IF s[k].content = "none" THEN <<>> ELSE <<s[k].content>>)
       IN  /\ peer[c] \in {"open", "closed"}
           /\ got' = [got EXCEPT ![c] = @ \o parts]
           \* what is sent to a client that has left is answered by a reset
           /\ peer' = [peer EXCEPT ![c] = IF @ = "closed" THEN "reset" ELSE @]
           /\ sessions' = [s EXCEPT ![k].header = FALSE, ![k].content = "none"]
    /\ sockios' = Called(sockios, pos, "onwrite")
    /\ EndIteration
    /\ UNCHANGED <<owner, queue, inbox, mid, asked, nr_used, hsock_max, cur, blocks, served>>

SendResponse == SendWith(sessions)

\* send fails and does not say why: whether the reason that handle_events then
\* looks at is a disconnection depends on what was in it before.
SendFails ==
    /\ WritesNow
    /\ LET c == owner[sockios[pos].hsock]
       IN  /\ peer[c] \in {"reset", "dead"}
           /\ peer' = [peer EXCEPT ![c] = "dead"]
    /\ sockios' = Called(sockios, pos, "onwrite")
    /\ EndIteration \/ GoTo("close")
    /\ UNCHANGED <<owner, queue, inbox, mid, asked, got, nr_used, hsock_max, sessions, cur, blocks, served>>

TerminateWith(left) ==
    /\ at = "close"
    /\ LET h == sockios[pos].hsock
       IN  /\ sessions' = left
           /\ owner' = IF peer[owner[h]] = "dead" THEN owner ELSE [owner EXCEPT ![h] = NoClient]
    /\ ReleaseSockio(pos)
    /\ EndIteration
    /\ UNCHANGED <<queue, peer, inbox, mid, asked, got, cur, blocks, served>>

Without(k) == SubSeq(sessions, 1, k - 1) \o SubSeq(sessions, k + 1, Len(sessions))

\* Mutant of Terminate: the oldest session is removed.
TerminateOldest == TerminateWith(Without(Len(sessions)))

\* session_manager::remove, whose destructor shuts the connection down, which
\* fails after a reset so that close is not called; then release_sockio.
\* The block of the descriptor is released by nobody.
Terminate == TerminateWith(Without(SessionOf(sockios[pos].hsock)))

-----------------------------------------------------------------------------
(* session_manager::process: the hooks of one stage of one session.        *)

ProcessEnds ==
    /\ at = "process" /\ cur > Len(sessions)
    /\ GoTo("select") /\ cur' = 1
    /\ UNCHANGED <<world, table, sessions, blocks, served>>

Working(stage) == at = "process" /\ cur \in DOMAIN sessions /\ sessions[cur].stage = stage

\* perform_io: the hook returns false, process goes to the next session.
PerformIo(on, handler) ==
    /\ sockios' = Armed(sockios, sessions[cur].hsock, on, handler)
    /\ cur' = cur + 1
    /\ UNCHANGED <<world, nr_used, hsock_max, loop, sessions, blocks, served>>

AskMetadata == Working("READ_RQST_METADATA") /\ PerformIo("onread", "read")

ToSend == sessions[cur].header \/ sessions[cur].content # "none"

AskSend == Working("SEND_RESP") /\ ToSend /\ PerformIo("onwrite", "send")

\* A hook has changed the session to s; the next stage follows.
Done(s) ==
    /\ sessions' = [sessions EXCEPT ![cur] = NextStage(s)]
    /\ UNCHANGED <<world, table, loop, cur, blocks>>

\* No module does anything that is not data at these stages.
PassStage ==
    /\ \/ \E stage \in {"CREATE_CON", "PARSE_RQST_METADATA", "READ_RQST_DATA",
                        "ALTER_RQST_DATA", "BUILD_RESP_METADATA"} : Working(stage)
       \/ Working("SEND_RESP") /\ ~ToSend
    /\ Done(sessions[cur])
    /\ UNCHANGED served

\* What fetch makes of a session whose resource has n chunks left.
Fetched(s, n) ==
    IF n = 0 THEN [s EXCEPT !.left = 0, !.chunked = TRUE, !.last = TRUE]
    ELSE [s EXCEPT !.left = n - 1, !.chunked = TRUE, !.content = "data"]

\* The resource is opened by the first call.  Lines that are not this client's
\* alone may name anything.
OpenResource ==
    /\ Working("BUILD_RESP_DATA") /\ ~sessions[cur].chunked
    /\ LET s == sessions[cur]
           c == owner[s.hsock]
       IN  \E n \in IF s.lines = {c} THEN {Chunks[c]} ELSE {Chunks[d] : d \in Clients} :
               /\ Done(Fetched([s EXCEPT !.first = TRUE], n))
               /\ served' = [served EXCEPT ![c] = Append(@, n)]

FetchMore ==
    /\ Working("BUILD_RESP_DATA") /\ sessions[cur].chunked
    /\ Done(Fetched(sessions[cur], sessions[cur].left))
    /\ UNCHANGED served

\* http1.1: the chunk is wrapped, the last one is made.
AlterData ==
    /\ Working("ALTER_RESP_DATA")
    /\ LET s == sessions[cur]
       IN  Done(IF s.last THEN [s EXCEPT !.chunked = FALSE, !.header = FALSE, !.content = "end"]
                ELSE IF s.chunked THEN [s EXCEPT !.content = "chunk"] ELSE s)
    /\ UNCHANGED served

\* Mutant of AlterMetadata: first_chunk stays set.
AlterMetadataAgain ==
    /\ Working("ALTER_RESP_METADATA")
    /\ LET s == sessions[cur]
       IN  Done([s EXCEPT !.header = (s.first \/ ~s.chunked) /\ ~s.last])
    /\ UNCHANGED served

\* http1.1: the header goes with the first chunk, and never with the last.
AlterMetadata ==
    /\ Working("ALTER_RESP_METADATA")
    /\ LET s == sessions[cur]
       IN  Done([s EXCEPT !.header = (s.first \/ ~s.chunked) /\ ~s.last,
                          !.first = FALSE])
    /\ UNCHANGED served

-----------------------------------------------------------------------------
ServerStep ==
    \/ Select \/ LoopEnds \/ SkipEntry
    \/ AcceptConnection \/ StartReading
    \/ TakeToken \/ ReceiveMore \/ ReceiveNothing
    \/ SendResponse \/ SendFails \/ Terminate
    \/ ProcessEnds \/ AskMetadata \/ AskSend \/ PassStage
    \/ OpenResource \/ FetchMore \/ AlterData \/ AlterMetadata

Next ==
    \/ ServerStep
    \/ \E c \in Clients : Connect(c) \/ BeginRequest(c) \/ GoOnWithRequest(c) \/ Leave(c)

\* The thread runs; a client that has begun a request ends it, or leaves.
Fairness ==
    /\ WF_vars(ServerStep)
    /\ \A c \in Clients : WF_vars(GoOnWithRequest(c) \/ (mid[c] # "none" /\ Leave(c)))

Spec == Init /\ [][Next]_vars /\ Fairness

-----------------------------------------------------------------------------
(* Properties.                                                             *)

StageTypeOK ==
    /\ owner \in [ConFds -> Clients \cup {NoClient}] /\ queue \in Seq(Clients)
    /\ peer \in [Clients -> {"away", "open", "closed", "reset", "dead"}]
    /\ inbox \in [Clients -> Seq(Token)] /\ mid \in [Clients -> {"none", "half", "line"}]
    /\ asked \in [Clients -> Nat] /\ \A c \in Clients : asked[c] <= MaxRequests[c]
    /\ got \in [Clients -> Seq({"header", "chunk", "end"})]
    /\ sockios \in [Entries -> [used : BOOLEAN, hsock : ConFds \cup {0, ListenFd},
                                onread : {"none", "accept", "read"}, onwrite : {"none", "send"}]]
    /\ nr_used \in 0 .. NSOCKIO /\ hsock_max \in ConFds \cup {0, ListenFd}
    /\ at \in {"select", "loop", "lines", "write", "close", "process"}
    /\ pos \in Nat /\ nev \in Nat /\ cur \in Nat
    /\ rdset \subseteq ConFds \cup {ListenFd} /\ wrset \subseteq ConFds
    /\ sessions \in Seq([hsock : ConFds, stage : Stages, lines : SUBSET Clients,
                         chunked : BOOLEAN, first : BOOLEAN, last : BOOLEAN, header : BOOLEAN,
                         content : {"none", "data", "chunk", "end"}, left : Nat])
    /\ blocks \in [ConFds -> [buf : Seq(Token), line : SUBSET Clients]]
    /\ served \in [Clients -> Seq(Nat)]

\* The scans of the table count used entries down from nr_used_ and stop at none
\* of its ends, and select looks at descriptors up to hsock_max_: both must be
\* exact whatever the handlers register and release, and no descriptor that is
\* watched may be closed.
TableConsistent ==
    /\ nr_used = Cardinality(Used)
    /\ hsock_max = Highest({sockios[e].hsock : e \in Used})
    /\ \A e \in Used : sockios[e].hsock # ListenFd => owner[sockios[e].hsock] # NoClient

\* handle_events counts down what select returned while handlers register and
\* release entries: what is left to count is always still to be found behind the
\* loop, which so ends inside the table and forgets no event.
LoopInsideTable ==
    at = "loop" =>
        nev = Cardinality({e \in Entries : e >= pos /\ Reads(e)})
              + Cardinality({e \in Entries : e >= pos /\ Writes(e)})

\* No handler that is called is a null pointer or lacks its session ("Cannot get
\* the session, will segfault").
HandlerIsCallable ==
    at = "loop" =>
        \A e \in Entries : e >= pos =>
            /\ Reads(e)  => sockios[e].onread # "none"
            /\ Writes(e) => sockios[e].onwrite # "none"
            /\ (Reads(e) \/ Writes(e)) /\ sockios[e].hsock # ListenFd => SessionOf(sockios[e].hsock) # 0

\* Sessions, entries and open descriptors go together: a watched connection has
\* one session; a descriptor that is open has one unless the peer reset the
\* connection, when terminate_connection does not get to its close.
SessionsMatchTable ==
    /\ \A e \in Used : sockios[e].hsock # ListenFd =>
            Cardinality({k \in DOMAIN sessions : sessions[k].hsock = sockios[e].hsock}) = 1
    /\ \A h \in ConFds : owner[h] # NoClient /\ peer[owner[h]] # "dead" => SessionOf(h) # 0

\* A request consists of its client's lines.  What a former client of the same
\* descriptor has sent gets into it only when that client left in the middle of
\* a line: the block of a descriptor is never released.
OwnLines ==
    \A k \in DOMAIN sessions : \A d \in sessions[k].lines :
        \/ d = owner[sessions[k].hsock]
        \/ mid[d] = "half" /\ peer[d] # "open"

\* The answer to a request for a file of n chunks.  That of an empty file has no
\* header: AlterMetadata clears it with the last chunk.
Answer(n) == (IF n = 0 THEN <<>> ELSE <<"header">>) \o [k \in 1 .. n |-> "chunk"] \o <<"end">>

\* The ends of answers among the first k parts of s.
EndsAmong(s, k) == {j \in 1 .. k : s[j] = "end"}

\* The part k of g, which follows i - 1 ends, is one of the answer i of sv, the
\* one that is due.
PartFits(g, sv, k) ==
    LET before == EndsAmong(g, k - 1)
        i      == Cardinality(before) + 1
        o      == k - Highest(before)
    IN  i <= Len(sv) /\ o <= Len(Answer(sv[i])) /\ g[k] = Answer(sv[i])[o]

\* Every client is sent whole answers, in order, no part twice and none left out,
\* and never more than it has asked for, however the sessions interleave.
AnswersFit ==
    \A c \in Clients :
        /\ Len(served[c]) <= asked[c]
        /\ \A k \in DOMAIN got[c] : PartFits(got[c], served[c], k)

\* The connection of c was accepted when the table was full.
Unregistered(c) == \E h \in ConFds : owner[h] = c /\ EntryOf(h) = {}

Waiting(c) == peer[c] = "open" /\ asked[c] > Answers(c) /\ ~Unregistered(c)

\* A request is answered in the end, unless its client leaves or found the table
\* full; clients here wait for an answer before they ask again (MaxAhead = 1).
EveryRequestAnswered == \A c \in Clients : []<>~Waiting(c)
=============================================================================
