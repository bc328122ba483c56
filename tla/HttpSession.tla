---------------------------- MODULE HttpSession ----------------------------
(***************************************************************************)
(* The session of one ziis thread (core/thr_server.cc, core/http.cc,       *)
(* core/zfsinput.cc and GenerateDocument of mod/resource): which of the    *)
(* bytes its clients send become which request, entity and answer.         *)
(*                                                                         *)
(* The stream is made of tokens: a request line, a header line (with Host, *)
(* Content-Length and Connection as the request needs), the blank line, and*)
(* units of entity.  Lines end in CRLF, entity units do not, so what       *)
(* from_buffer returns is the units and the line before the next CRLF      *)
(* (LineReader shows that the pieces of recv do not matter).               *)
(***************************************************************************)
EXTENDS Integers, Sequences

CONSTANTS NrConns,       \* clients, served one after the other
          Kinds,         \* the requests clients make
          MaxRequests,   \* bound on the requests of a client
          Pipelining,    \* whether a client sends on before it is answered
          MayClose,      \* whether a client may end its side early
          MayServeOn,    \* whether the pool may refuse a successor
          EntityBuf,     \* sizeof(buf_input), in tokens
          MaxMetadata,   \* ZIAFS_MAX_METADATA, in tokens
          NoHeader

Conns == 1 .. NrConns

\* A kind says whether a blank line precedes the request (clients end an entity
\* with one), whether its first line has two words, which resource answers, how
\* many units of entity follow and whether Connection is close.
Resources == {"file", "put", "cgi"}
KindType == [led : BOOLEAN, good : BOOLEAN, resource : Resources, entity : Nat, close : BOOLEAN]

\* A unit of what clients send: its place in the request that it is sent as.
LeadingBlank == 0
StatusLine   == 1
HeaderLine   == 2
BlankLine    == 3
Tokens == [conn : Conns, req : 1 .. MaxRequests, place : Nat]

ASSUME SessionAssumption ==
    /\ NrConns \in Nat /\ MaxRequests \in Nat
    /\ EntityBuf \in Nat \ {0} /\ MaxMetadata \in Nat
    /\ {Pipelining, MayClose, MayServeOn} \subseteq BOOLEAN
    /\ Kinds \subseteq KindType /\ NoHeader \notin Tokens

VARIABLES
    asks,      \* per client, the requests it makes
    next,      \* the token it sends next
    sent,      \* how many tokens the client has sent
    shut,      \* whether the client has closed its side
    wire,      \* what it has sent and the server has not received
    answers,   \* what was answered to it
    conn,      \* the client being served
    pc,        \* where server_entry is
    m_line, m_buf,   \* the reader of lines
    state,     \* m_state of net::http
    header,    \* the request's header line, if it was read as such
    request,   \* the tokens that were read as this request
    total,     \* nr_total
    done,      \* sess.done
    in_size,   \* entity still wanted by the resource
    entity     \* the tokens handed to the resource

clientVars  == <<asks, next, sent, shut>>
requestVars == <<state, header, request, total, in_size, entity>>
vars == <<asks, next, sent, shut, wire, answers, conn, pc, m_line, m_buf, state, header,
          request, total, done, in_size, entity>>

Token(c, i, p) == [conn |-> c, req |-> i, place |-> p]

Head3(c, i) == <<Token(c, i, StatusLine), Token(c, i, HeaderLine), Token(c, i, BlankLine)>>

KindOf(t) == asks[t.conn][t.req]

\* A client sends one request after the other, each with its entity.
Start(c, i) == Token(c, i, IF i <= Len(asks[c]) /\ asks[c][i].led THEN LeadingBlank ELSE StatusLine)
After(t) == IF t.place < BlankLine + KindOf(t).entity THEN Token(t.conn, t.req, t.place + 1)
                                                      ELSE Start(t.conn, t.req + 1)

SessionTypeOK ==
    /\ next \in [Conns -> [conn : Conns, req : 1 .. MaxRequests + 1, place : Nat]]
    /\ sent \in [Conns -> Nat] /\ shut \in [Conns -> BOOLEAN] /\ wire \in [Conns -> Seq(Tokens)]
    /\ conn \in 0 .. NrConns
    /\ pc \in {"accept", "recv", "consume", "document", "entity", "after", "release", "over"}
    /\ m_line \in Seq(Tokens) /\ m_buf \in Seq(Tokens)
    /\ state \in {"STUSLINES", "HDRLINES", "BODYDATA"}
    /\ header \in Tokens \cup {NoHeader} /\ request \in Seq(Tokens) /\ entity \in Seq(Tokens)
    /\ done \in BOOLEAN /\ in_size \in Nat /\ total \in 0 .. MaxMetadata

SessionInit ==
    /\ asks \in [Conns -> UNION {[1 .. n -> Kinds] : n \in 1 .. MaxRequests}]
    /\ next = [c \in Conns |-> Start(c, 1)]
    /\ sent = [c \in Conns |-> 0] /\ wire = [c \in Conns |-> <<>>]
    /\ shut = [c \in Conns |-> FALSE]
    /\ answers = [c \in Conns |-> <<>>]
    /\ conn = 0 /\ pc = "accept" /\ done = FALSE
    /\ m_line = <<>> /\ m_buf = <<>>
    /\ state = "STUSLINES" /\ header = NoHeader /\ request = <<>>
    /\ total = 0 /\ in_size = 0 /\ entity = <<>>

-----------------------------------------------------------------------------
(* The client.                                                             *)

\* A client that does not pipeline waits for the answer before it asks again.
\* What it sends before it is accepted waits in the kernel, as if sent later.
ClientSends(c) ==
    /\ c = conn /\ ~shut[c] /\ next[c].req <= Len(asks[c])
    /\ Pipelining \/ next[c].req = Len(answers[c]) + 1
    /\ sent' = [sent EXCEPT ![c] = @ + 1]
    /\ wire' = [wire EXCEPT ![c] = Append(@, next[c])]
    /\ next' = [next EXCEPT ![c] = After(@)]
    /\ UNCHANGED <<asks, shut, answers, conn, pc, m_line, m_buf, requestVars, done>>

ClientCloses(c) ==
    /\ c = conn /\ MayClose /\ ~shut[c]
    /\ shut' = [shut EXCEPT ![c] = TRUE]
    /\ UNCHANGED <<asks, next, sent, wire, answers, conn, pc, m_line, m_buf, requestVars, done>>

-----------------------------------------------------------------------------
(* server_entry.                                                           *)

\* sess_reset_request; m_line.reset() leaves m_buf as it is.
ResetRequest ==
    /\ state' = "STUSLINES" /\ header' = NoHeader /\ request' = <<>>
    /\ total' = 0 /\ in_size' = 0 /\ entity' = <<>>
    /\ m_line' = <<>>

Accept ==
    /\ pc = "accept" /\ conn < NrConns
    /\ conn' = conn + 1
    /\ done' = FALSE
    /\ ResetRequest
    /\ pc' = "recv"
    /\ UNCHANGED <<clientVars, wire, answers, m_buf>>

NoMoreClients ==
    /\ pc = "accept" /\ conn = NrConns
    /\ pc' = "over"
    /\ UNCHANGED <<clientVars, wire, answers, conn, m_line, m_buf, requestVars, done>>

\* What recv may return: some of what was sent and not yet received.
Received(n) == SubSeq(wire[conn], 1, n)
Receive(n)  == wire' = [wire EXCEPT ![conn] = SubSeq(@, n + 1, Len(@))]

\* Mutant of Recv: no limit.
RecvUnlimited ==
    /\ pc = "recv"
    /\ \E n \in 1 .. Len(wire[conn]) :
        /\ Receive(n)
        /\ m_buf' = m_buf \o Received(n)
        /\ total' = total + n
        /\ pc' = "consume"
    /\ UNCHANGED <<clientVars, answers, conn, m_line, state, header, request, in_size, entity, done>>

Recv ==
    /\ pc = "recv"
    /\ \E n \in 1 .. Len(wire[conn]) :
        /\ Receive(n)
        /\ IF total + n > MaxMetadata
           THEN /\ done' = TRUE /\ pc' = "document"
                /\ UNCHANGED <<m_buf, total>>
           ELSE /\ m_buf' = m_buf \o Received(n)
                /\ total' = total + n
                /\ pc' = "consume"
                /\ UNCHANGED done
    /\ UNCHANGED <<clientVars, answers, conn, m_line, state, header, request, in_size, entity>>

\* The client has closed: 0, which consume takes for a piece like any other.
RecvEnd ==
    /\ pc = "recv" /\ shut[conn] /\ wire[conn] = <<>>
    /\ pc' = "consume"
    /\ UNCHANGED <<clientVars, wire, answers, conn, m_line, m_buf, requestVars, done>>

\* The connection is lost.
RecvFails ==
    /\ pc = "recv" /\ shut[conn]
    /\ done' = TRUE /\ pc' = "document"
    /\ UNCHANGED <<clientVars, wire, answers, conn, m_line, m_buf, requestVars>>

-----------------------------------------------------------------------------
(* consume: one step per line.                                             *)

IsLine(t) == t.place <= BlankLine

HasLine(s) == \E k \in 1 .. Len(s) : IsLine(s[k])
FirstLine(s) == CHOOSE k \in 1 .. Len(s) : IsLine(s[k]) /\ \A j \in 1 .. k - 1 : ~IsLine(s[j])

\* The tokens of the line that from_buffer returns, and what stays in m_buf.
NextLine == m_line \o SubSeq(m_buf, 1, FirstLine(m_buf))
RestOfBuf == SubSeq(m_buf, FirstLine(m_buf) + 1, Len(m_buf))

\* A line is what it was sent as only when no entity precedes it.
IsBlank(ln)  == Len(ln) = 1 /\ ln[1].place \in {LeadingBlank, BlankLine}
IsHeader(ln) == Len(ln) = 1 /\ ln[1].place = HeaderLine
IsStatus(ln) == ln[Len(ln)].place = StatusLine /\ KindOf(ln[Len(ln)]).good

\* parse_status_line asks for two words, parse_header_line for a colon.
HasColon(ln) == ln[Len(ln)].place = HeaderLine
TwoWords(ln) == IsStatus(ln) \/ HasColon(ln)

\* from_buffer returns false: everything is moved to m_line.
ConsumeNothing ==
    /\ pc = "consume" /\ ~HasLine(m_buf)
    /\ m_line' = m_line \o m_buf
    /\ m_buf' = <<>>
    /\ pc' = "recv"
    /\ UNCHANGED <<clientVars, wire, answers, conn, requestVars, done>>

TakeLine ==
    /\ pc = "consume" /\ HasLine(m_buf)
    /\ m_line' = <<>>
    /\ m_buf' = RestOfBuf
    /\ UNCHANGED <<clientVars, wire, answers, conn, total, in_size, entity>>

ReadAsRequest == request' = request \o NextLine

RefuseRequest == done' = TRUE /\ pc' = "document"

\* A blank line before the request ends this call of consume, successfully.
SkipBlank ==
    /\ TakeLine /\ state = "STUSLINES" /\ IsBlank(NextLine)
    /\ pc' = "recv"
    /\ UNCHANGED <<state, header, request, done>>

ConsumeStatus ==
    /\ TakeLine /\ state = "STUSLINES" /\ ~IsBlank(NextLine)
    /\ ReadAsRequest
    /\ \/ TwoWords(NextLine) /\ state' = "HDRLINES" /\ pc' = "consume" /\ UNCHANGED done
       \/ ~TwoWords(NextLine) /\ RefuseRequest /\ UNCHANGED state
    /\ UNCHANGED header

ConsumeHeader ==
    /\ TakeLine /\ state = "HDRLINES" /\ ~IsBlank(NextLine)
    /\ ReadAsRequest
    /\ header' = IF IsHeader(NextLine) THEN NextLine[1] ELSE header
    /\ \/ HasColon(NextLine) /\ pc' = "consume" /\ UNCHANGED done
       \/ ~HasColon(NextLine) /\ RefuseRequest
    /\ UNCHANGED state

\* request_header_validation: the method may be any word, the uri and version
\* are those of a request line, and there is a Host.
StatusToken == request[FirstLine(request)]
Valid == StatusToken.place = StatusLine /\ header # NoHeader

\* Mutant of ConsumeBlank: the state is not changed.
ConsumeBlankInHeader ==
    /\ TakeLine /\ state = "HDRLINES" /\ IsBlank(NextLine)
    /\ ReadAsRequest
    /\ pc' = "consume"
    /\ UNCHANGED <<state, header, done>>

ConsumeBlank ==
    /\ TakeLine /\ state = "HDRLINES" /\ IsBlank(NextLine)
    /\ ReadAsRequest
    /\ state' = "BODYDATA"
    /\ done' = ~Valid
    /\ pc' = "document"
    /\ UNCHANGED header

-----------------------------------------------------------------------------
(* sess_handle_document and the generator.                                 *)

\* What the request turned out to be: the kind of its request line, with the
\* length its header gives.
Kind   == KindOf(StatusToken)
Length == KindOf(header).entity

Answer(ok) ==
    /\ answers' = [answers EXCEPT ![conn] = Append(@, [to |-> request, ok |-> ok])]
    /\ pc' = "after"

\* An error page for what could not be read.
AnswerError ==
    /\ pc = "document" /\ done
    /\ Answer(FALSE)
    /\ UNCHANGED <<clientVars, wire, conn, m_line, m_buf, requestVars, done>>

\* A document that takes no entity.
AnswerAtOnce ==
    /\ pc = "document" /\ ~done /\ (Kind.resource = "file" \/ Length = 0)
    /\ Answer(TRUE)
    /\ UNCHANGED <<clientVars, wire, conn, m_line, m_buf, requestVars, done>>

StartEntity ==
    /\ pc = "document" /\ ~done /\ Kind.resource # "file" /\ Length > 0
    /\ in_size' = Length
    /\ pc' = "entity"
    /\ UNCHANGED <<clientVars, wire, answers, conn, m_line, m_buf, state, header, request,
                   total, done, entity>>

Smaller(a, b) == IF a < b THEN a ELSE b

\* flush_input: in_size does not go below zero.
Flush(piece) ==
    /\ entity' = entity \o piece
    /\ in_size' = in_size - Smaller(in_size, Len(piece))

\* Mutant of EntityFromBuffer: the buffered bytes are handed out, not removed.
EntityFromBufferAgain ==
    /\ pc = "entity" /\ in_size > 0 /\ m_buf # <<>>
    /\ Flush(SubSeq(m_buf, 1, Smaller(EntityBuf, Len(m_buf))))
    /\ UNCHANGED <<clientVars, wire, answers, conn, pc, m_line, m_buf, state, header, request,
                   total, done>>

\* ReadPostEntity takes first what the reader of lines has left, ...
EntityFromBuffer ==
    /\ pc = "entity" /\ in_size > 0 /\ m_buf # <<>>
    /\ LET n == Smaller(EntityBuf, Len(m_buf))
       IN /\ Flush(SubSeq(m_buf, 1, n))
          /\ m_buf' = SubSeq(m_buf, n + 1, Len(m_buf))
    /\ UNCHANGED <<clientVars, wire, answers, conn, pc, m_line, state, header, request,
                   total, done>>

\* ... then what comes; 0 and an error change nothing, the loop asks again.
EntityFromRecv ==
    /\ pc = "entity" /\ in_size > 0 /\ m_buf = <<>>
    /\ \E n \in 1 .. Smaller(EntityBuf, Len(wire[conn])) :
        /\ Flush(Received(n))
        /\ Receive(n)
    /\ UNCHANGED <<clientVars, answers, conn, pc, m_line, m_buf, state, header, request,
                   total, done>>

\* A file that is put is complete when in_size is 0; a cgi ends when it likes.
EndDocument ==
    /\ pc = "entity" /\ (in_size = 0 \/ (Kind.resource = "cgi" /\ entity # <<>>))
    /\ Answer(TRUE)
    /\ UNCHANGED <<clientVars, wire, conn, m_line, m_buf, requestVars, done>>

-----------------------------------------------------------------------------

\* Connection: close, or a done session, leaves the loop.
NextRequest ==
    /\ pc = "after"
    /\ IF done \/ (header # NoHeader /\ KindOf(header).close)
       THEN pc' = "release" /\ done' = TRUE /\ UNCHANGED <<requestVars, m_line>>
       ELSE pc' = "recv" /\ ResetRequest /\ UNCHANGED done
    /\ UNCHANGED <<clientVars, wire, answers, conn, m_buf>>

\* The client sees the end of the connection and sends no more.
Disconnect == shut' = [shut EXCEPT ![conn] = TRUE]

\* serve_another: this session_t goes on with the next client.
ServeAnother ==
    /\ pc = "release" /\ MayServeOn
    /\ Disconnect
    /\ pc' = "accept"
    /\ UNCHANGED <<asks, next, sent, wire, answers, conn, m_line, m_buf, requestVars, done>>

\* Mutant of EndTask: the reader of lines is shared by the threads.
EndTaskKeeping ==
    /\ pc = "release"
    /\ Disconnect
    /\ pc' = "accept"
    /\ UNCHANGED <<asks, next, sent, wire, answers, conn, m_line, m_buf, requestVars, done>>

\* The task ends and another thread, with a session_t of its own, accepts.
EndTask ==
    /\ pc = "release"
    /\ Disconnect
    /\ pc' = "accept"
    /\ m_line' = <<>> /\ m_buf' = <<>>
    /\ UNCHANGED <<asks, next, sent, wire, answers, conn, requestVars, done>>

\* All clients were served.
Over == pc = "over" /\ UNCHANGED vars

ThreadNext ==
    \/ Accept \/ NoMoreClients \/ Recv \/ RecvEnd \/ RecvFails
    \/ ConsumeNothing \/ SkipBlank \/ ConsumeStatus \/ ConsumeHeader \/ ConsumeBlank
    \/ AnswerError \/ AnswerAtOnce \/ StartEntity
    \/ EntityFromBuffer \/ EntityFromRecv \/ EndDocument
    \/ NextRequest \/ ServeAnother \/ EndTask

ClientNext == \E c \in Conns : ClientSends(c) \/ ClientCloses(c)

SessionNext == ThreadNext \/ ClientNext \/ Over

\* The thread runs, and a client that has begun a request ends it.
SessionSpec == SessionInit /\ [][SessionNext]_vars
FairSessionSpec ==
    SessionSpec /\ WF_vars(ThreadNext) /\ \A c \in Conns : WF_vars(ClientSends(c))

-----------------------------------------------------------------------------
(* Properties.                                                             *)

\* The n-th page a client gets is the answer to its n-th request, read as it was
\* sent; an error page is for a request that is wrong, a client that left, or
\* one that sent more than may be received for one request.
AnswersMatch ==
    \A c \in Conns : \A i \in 1 .. Len(answers[c]) :
        IF answers[c][i].ok THEN i <= Len(asks[c]) /\ answers[c][i].to = Head3(c, i)
                            ELSE shut[c] \/ ~asks[c][i].good \/ sent[c] > MaxMetadata

\* What is read, kept or handed on while a client is served came from it ("a
\* session is associated to the newly created connection").
OnlyThisClient ==
    pc \notin {"accept", "over"} =>
        \A held \in {m_line, m_buf, request, entity} : \A k \in 1 .. Len(held) : held[k].conn = conn

\* The resource gets the entity of the request it answers, from its start, and
\* nothing of the requests that follow.
EntityIsOwn ==
    pc = "entity" =>
        LET i == Len(answers[conn]) + 1
        IN \A k \in 1 .. Len(entity) :
              entity[k] = Token(conn, i, BlankLine + k) /\ k <= asks[conn][i].entity

\* Every request that has been sent is answered, unless the connection ends.
EveryRequestAnswered ==
    \A c \in Conns : \A i \in 1 .. MaxRequests :
        conn = c /\ next[c].req > i ~> Len(answers[c]) >= i \/ shut[c]
=============================================================================
