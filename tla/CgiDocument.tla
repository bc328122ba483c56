---------------------------- MODULE CgiDocument -----------------------------
(***************************************************************************)
(* A document made by a CGI program: the loop of GenerateDocument in       *)
(* mod/resource, the process resource under it, the socket pair that is    *)
(* the program's standard input and output, the program, and the client    *)
(* whose entity feeds it.                                                  *)
(*                                                                         *)
(* The loop has one thread for both directions: it waits for the client's  *)
(* entity, it waits for the program to take it, and only then looks for    *)
(* output, without waiting.  The descriptor is switched to non-blocking    *)
(* for that look and back again; whether the kernel accepts the second     *)
(* fcntl, whose argument has every other flag set, depends on the system   *)
(* (switchesBack).                                                         *)
(*                                                                         *)
(* Bytes of the entity and pieces of output are named by their position.   *)
(* The output is HeaderLines lines, the blank line, and the body.          *)
(***************************************************************************)
EXTENDS Naturals, Sequences

CONSTANTS
    MaxEntity,    \* the longest entity a client announces
    HeaderLines,  \* lines the program writes before the blank one
    BodyBytes,    \* bytes of body it may write
    PipeSize,     \* what the socket pair holds, in each direction
    ReadSize      \* constants::BUFFER_SIZE

ASSUME DocumentAssumption ==
    /\ {MaxEntity, HeaderLines, BodyBytes} \subseteq Nat
    /\ {PipeSize, ReadSize} \subseteq Nat \ {0}

VARIABLES
    at,            \* where GenerateDocument is
    inSize,        \* in_size: entity bytes the program is still to be given
    pending,       \* buf_toflush
    inHeader,      \* is_header_inprogress
    data,          \* first and last position of what generate has left to send
    switchesBack,  \* the descriptor can be made blocking again
    nonblocking,   \* ... and has not been
    answer,        \* what was handed to the client's connection
    taken,         \* entity bytes read from the connection
    arrived,       \* entity bytes the client has sent
    length,        \* its Content-Length
    gone,          \* the client has closed
    input,         \* the socket pair, towards the program
    written,       \* pieces of output the program has written
    fetched,       \* ... and those the server has read
    cgi,           \* what the program does: "think", "read", "write" or "exited"
    got            \* the entity bytes it has read

serverVars == <<at, inSize, pending, inHeader, data, nonblocking, answer, taken, fetched>>
clientVars == <<arrived, gone>>
cgiVars    == <<cgi, got, written>>
fixedVars  == <<switchesBack, length>>
vars       == <<serverVars, clientVars, cgiVars, fixedVars, input>>

Blank     == HeaderLines + 1
OutputEnd == Blank + BodyBytes
Unread    == written - fetched

AtMost(m, n) == 1 .. (IF m < n THEN m ELSE n)

\* An item of the answer: the header, or a chunk, that holds the output from
\* one position to another.  The chunk with nothing in it is the last one.
Header      == <<>>
Empty(item) == item # Header /\ item[1] > item[2]

DocumentTypeOK ==
    /\ at \in {"input", "write", "generate", "flush", "ended"}
    /\ length \in 0 .. MaxEntity /\ inSize \in 0 .. length
    /\ arrived \in 0 .. length /\ taken \in 0 .. arrived
    /\ \A s \in {pending, input, got} :
        Len(s) <= length /\ \A i \in 1 .. Len(s) : s[i] \in 1 .. length
    /\ Len(pending) <= ReadSize /\ Len(input) <= PipeSize
    /\ written \in 0 .. OutputEnd /\ fetched \in 0 .. written /\ Unread <= PipeSize
    /\ {inHeader, switchesBack, nonblocking, gone} \subseteq BOOLEAN
    /\ cgi \in {"think", "read", "write", "exited"}
    /\ data \in (1 .. OutputEnd + 1) \X (0 .. OutputEnd)

\* GenerateDocument has created the resource: the program runs.
Init ==
    /\ at = "input" /\ pending = <<>> /\ data = <<1, 0>> /\ answer = <<>>
    /\ length \in 0 .. MaxEntity /\ inSize = length
    /\ inHeader = TRUE
    /\ switchesBack \in BOOLEAN /\ nonblocking = FALSE
    /\ taken = 0 /\ arrived = 0 /\ gone = FALSE
    /\ input = <<>> /\ written = 0 /\ fetched = 0
    /\ cgi = "think" /\ got = <<>>

-----------------------------------------------------------------------------
(* GenerateDocument: the entity.                                           *)

\* Mutant: the client is waited for although nothing of its entity is missing.
SkipInputOnlyWithout ==
    /\ at = "input" /\ length = 0
    /\ at' = "generate"
    /\ UNCHANGED <<inSize, pending, inHeader, data, nonblocking, answer, taken, fetched,
                   clientVars, cgiVars, fixedVars, input>>

\* input_size() is zero: nothing to read.
SkipInput ==
    /\ at = "input" /\ inSize = 0
    /\ at' = "generate"
    /\ UNCHANGED <<inSize, pending, inHeader, data, nonblocking, answer, taken, fetched,
                   clientVars, cgiVars, fixedVars, input>>

\* Mutant: the bytes taken from the buffer stay in it.
ReadEntityKeeping ==
    /\ at = "input" /\ inSize > 0
    /\ \E n \in AtMost(ReadSize, arrived - taken) :
        pending' = [i \in 1 .. n |-> taken + i]
    /\ at' = "write"
    /\ UNCHANGED <<inSize, inHeader, data, nonblocking, answer, taken, fetched,
                   clientVars, cgiVars, fixedVars, input>>

\* Mutant: one byte more is read than buf_input holds.
ReadEntityOver ==
    /\ at = "input" /\ inSize > 0
    /\ \E n \in AtMost(ReadSize + 1, arrived - taken) :
        /\ pending' = [i \in 1 .. n |-> taken + i]
        /\ taken' = taken + n
    /\ at' = "write"
    /\ UNCHANGED <<inSize, inHeader, data, nonblocking, answer, fetched,
                   clientVars, cgiVars, fixedVars, input>>

\* ReadPostEntity waits for the client and returns what there is of its bytes.
ReadEntity ==
    /\ at = "input" /\ inSize > 0
    /\ \E n \in AtMost(ReadSize, arrived - taken) :
        /\ pending' = [i \in 1 .. n |-> taken + i]
        /\ taken' = taken + n
    /\ at' = "write"
    /\ UNCHANGED <<inSize, inHeader, data, nonblocking, answer, fetched,
                   clientVars, cgiVars, fixedVars, input>>

\* The client has closed: ReadPostEntity returns nothing, and the loop goes on.
ReadNothing ==
    /\ at = "input" /\ inSize > 0
    /\ gone /\ taken = arrived
    /\ at' = "generate"
    /\ UNCHANGED <<inSize, pending, inHeader, data, nonblocking, answer, taken, fetched,
                   clientVars, cgiVars, fixedVars, input>>

\* flush_input: write gives the program byte after byte, waiting for room.
GiveByte ==
    /\ at = "write" /\ pending # <<>>
    /\ cgi # "exited" /\ Len(input) < PipeSize
    /\ input' = Append(input, Head(pending))
    /\ pending' = Tail(pending)
    /\ inSize' = inSize - 1
    /\ UNCHANGED <<at, inHeader, data, nonblocking, answer, taken, fetched,
                   clientVars, cgiVars, fixedVars>>

\* ... but a descriptor still non-blocking takes no more than there is room
\* for, and one whose other end is closed takes nothing (SIGPIPE is ignored).
\* flush_input does not look at what write returns, and clears the buffer.
DropRest ==
    /\ at = "write" /\ pending # <<>>
    /\ cgi = "exited" \/ (nonblocking /\ Len(input) = PipeSize)
    /\ pending' = <<>>
    /\ inSize' = inSize - Len(pending)
    /\ UNCHANGED <<at, inHeader, data, nonblocking, answer, taken, fetched,
                   clientVars, cgiVars, fixedVars, input>>

EndInput ==
    /\ at = "write" /\ pending = <<>>
    /\ at' = "generate"
    /\ UNCHANGED <<inSize, pending, inHeader, data, nonblocking, answer, taken, fetched,
                   clientVars, cgiVars, fixedVars, input>>

-----------------------------------------------------------------------------
(* process::generate and flush_network: the output.                        *)

\* The descriptor as read_nonblock leaves it.
AfterLook == nonblocking' = ~switchesBack

WouldBlock ==
    /\ at = "generate" /\ Unread = 0 /\ cgi # "exited"
    /\ AfterLook
    /\ at' = "input"
    /\ UNCHANGED <<inSize, pending, inHeader, data, answer, taken, fetched,
                   clientVars, cgiVars, fixedVars, input>>

\* Of what is read in one go the lines of the header are parsed; when the blank
\* line is among them the header is sent, and the bytes after it are data.
Look ==
    /\ at = "generate"
    /\ AfterLook
    /\ \E n \in AtMost(ReadSize, Unread) :
        LET last      == fetched + n
            first     == IF inHeader THEN Blank + 1 ELSE fetched + 1
            completes == inHeader /\ Blank <= last
        IN  /\ fetched' = last
            /\ inHeader' = (inHeader /\ ~completes)
            /\ answer' = IF completes THEN Append(answer, Header) ELSE answer
            /\ IF first <= last THEN at' = "flush" /\ data' = <<first, last>>
                                ELSE at' = "input" /\ UNCHANGED data
    /\ UNCHANGED <<inSize, pending, taken, clientVars, cgiVars, fixedVars, input>>

\* flush_network sends one chunk.  That it could not be sent is not reported
\* (send_whole_buffer returns 0), so the loop goes on without a client.
Flush ==
    /\ at = "flush"
    /\ answer' = Append(answer, data)
    /\ at' = "input"
    /\ UNCHANGED <<inSize, pending, inHeader, data, nonblocking, taken, fetched,
                   clientVars, cgiVars, fixedVars, input>>

\* Mutant: the document is complete as soon as wait_single finds the program
\* dead, whatever is left in the pipe.
EndAtExit ==
    /\ at = "generate" /\ cgi = "exited"
    /\ AfterLook
    /\ answer' = Append(answer, <<fetched + 1, fetched>>)
    /\ at' = "ended"
    /\ UNCHANGED <<inSize, pending, inHeader, data, taken, fetched,
                   clientVars, cgiVars, fixedVars, input>>

\* read returns 0: for the process resource an error.  data is empty, so that
\* flush_network sends the last chunk; the header, if it is still in progress,
\* is never sent.
EndDocument ==
    /\ at = "generate" /\ Unread = 0 /\ cgi = "exited"
    /\ AfterLook
    /\ answer' = Append(answer, <<fetched + 1, fetched>>)
    /\ at' = "ended"
    /\ UNCHANGED <<inSize, pending, inHeader, data, taken, fetched,
                   clientVars, cgiVars, fixedVars, input>>

ServerStep ==
    \/ SkipInput \/ ReadEntity \/ ReadNothing \/ GiveByte \/ DropRest \/ EndInput
    \/ WouldBlock \/ Look \/ Flush \/ EndDocument

-----------------------------------------------------------------------------
(* The program: it reads no more than CONTENT_LENGTH, writes as it likes,  *)
(* and exits when it likes, unless it waits for the socket pair.           *)

CgiChooses ==
    /\ cgi = "think"
    /\ \/ cgi' = "read" /\ Len(got) < length
       \/ cgi' = "write" /\ written < OutputEnd
       \/ cgi' = "exited"
    /\ UNCHANGED <<got, written, serverVars, clientVars, fixedVars, input>>

CgiReads ==
    /\ cgi = "read" /\ input # <<>>
    /\ got' = Append(got, Head(input))
    /\ input' = Tail(input)
    /\ cgi' = "think"
    /\ UNCHANGED <<written, serverVars, clientVars, fixedVars>>

CgiWrites ==
    /\ cgi = "write" /\ Unread < PipeSize
    /\ written' = written + 1
    /\ cgi' = "think"
    /\ UNCHANGED <<got, serverVars, clientVars, fixedVars, input>>

CgiStep == CgiChooses \/ CgiReads \/ CgiWrites

ClientSends ==
    /\ ~gone /\ arrived < length
    /\ arrived' = arrived + 1
    /\ UNCHANGED <<gone, serverVars, cgiVars, fixedVars, input>>

ClientLeaves ==
    /\ ~gone
    /\ gone' = TRUE
    /\ UNCHANGED <<arrived, serverVars, cgiVars, fixedVars, input>>

Next == ServerStep \/ CgiStep \/ ClientSends \/ ClientLeaves

\* The thread and the program run; a client that does not leave sends the
\* entity it has announced.
Spec ==
    /\ Init /\ [][Next]_vars
    /\ WF_vars(ServerStep) /\ WF_vars(CgiStep) /\ WF_vars(ClientSends)

-----------------------------------------------------------------------------
(* Properties.                                                             *)

\* The client gets the program's output as it was written, whatever the pieces
\* it was read in: the header first and once, then the body in chunks that
\* follow one another, none of them empty but the last, which would end the
\* document (a chunk of size 0); and when the document has ended nothing of
\* what the program wrote before it exited is missing.
AnswerIsOutput ==
    LET firstByte(i) == IF answer[i - 1] = Header THEN Blank + 1 ELSE answer[i - 1][2] + 1
        n == Len(answer)
    IN  /\ \A i \in 1 .. n :
            IF answer[i] = Header THEN i = 1
            ELSE /\ i > 1 => answer[i][1] = firstByte(i)
                 /\ i = 1 => written < Blank
                 /\ Empty(answer[i]) => i = n /\ at = "ended"
        /\ at = "ended" => n > 0 /\ Empty(answer[n]) /\ answer[n][1] = written + 1

\* The program's input is the client's entity in the order it was sent, no byte
\* twice; no byte is missing either, unless the descriptor stayed non-blocking
\* or the program no longer reads.  in_size counts what is still to come.
EntityInOrder ==
    LET given == got \o input \o pending
    IN  /\ \A i, j \in 1 .. Len(given) : i < j => given[i] < given[j]
        /\ inSize = length - taken + Len(pending)
        /\ switchesBack /\ cgi # "exited" => Len(given) = taken

\* The two ways to wait for ever.  The server waits for room in the pair's one
\* direction, the program for room in the other; ...
Deadlocked ==
    /\ at = "write" /\ pending # <<>> /\ ~nonblocking /\ Len(input) = PipeSize
    /\ cgi = "write" /\ Unread = PipeSize

\* ... or the program waits for entity bytes that will never come: the client
\* has left, or flush_input has dropped them.  (The pair is never shut down for
\* writing, so the program does not see the end of its input either.)
Starved ==
    /\ cgi = "read" /\ input = <<>> /\ pending = <<>>
    /\ \/ gone /\ taken = arrived
       \/ ~switchesBack /\ taken = length

\* A document ends, for any program and client, but for these two ways: the
\* loop misses no end of the program, and never waits for the client when the
\* entity is complete ("there may be data in the pipe, so do the last read").
DocumentEnds == <>(at = "ended" \/ Deadlocked \/ Starved)
=============================================================================
