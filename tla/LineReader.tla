----------------------------- MODULE LineReader -----------------------------
(***************************************************************************)
(* utils::line of ziis (core/utils_line.cc), which cuts what recv returned *)
(* into the lines of a request: m_line holds the beginning of a line whose *)
(* end has not come, m_buf what has not been looked at.                    *)
(*                                                                         *)
(* Bytes are CR, LF or another byte, never NUL (m_line is a C string).     *)
(* The scan of get_from_normal_case ends one byte after the buffer, which  *)
(* is as large as its contents: PastEnd are the bytes that may lie there.  *)
(* A call of from_buffer is one action, named after what it meets.         *)
(***************************************************************************)
EXTENDS Integers, Sequences

CONSTANTS Bytes, CR, LF, NoLine,
          PastEnd,     \* bytes that may follow a buffer in memory
          MaxPiece,    \* bound on what one recv returns
          MaxBytes,    \* bound on what comes in all
          AskSizes     \* sizes asked of get_bytes

ASSUME LineReaderAssumption ==
    /\ {CR, LF} \subseteq Bytes /\ CR # LF /\ NoLine \notin Seq(Bytes)
    /\ PastEnd \subseteq Bytes
    /\ MaxPiece \in Nat /\ MaxBytes \in Nat /\ AskSizes \subseteq Nat

VARIABLES m_line, m_buf,
          answer,      \* the line or the bytes the last call returned
          thrown,      \* buffer's operator[] threw
          received     \* every byte that came, to state what is promised

vars == <<m_line, m_buf, answer, thrown, received>>

Pieces == UNION {[1 .. n -> Bytes] : n \in 0 .. MaxPiece}

Last(s)  == s[Len(s)]
Front(s) == SubSeq(s, 1, Len(s) - 1)
EndsIn(s, b) == s # <<>> /\ Last(s) = b

ReaderInit ==
    /\ m_line = <<>> /\ m_buf = <<>> /\ received = <<>>
    /\ answer = NoLine /\ thrown = FALSE

\* m_buf += buf: what this call looks at.
Data(piece) == m_buf \o piece

\* is_endof_line inside the buffer, at the first place where it holds.
EndAt(s, n) ==
    /\ n \in 1 .. Len(s) - 1 /\ s[n] = CR /\ s[n + 1] = LF
    /\ \A k \in 1 .. n - 1 : ~(s[k] = CR /\ s[k + 1] = LF)

NoEnd(s) == \A n \in 1 .. Len(s) - 1 : ~EndAt(s, n)

\* A CR that came at the end of one piece, its LF at the start of the next.
Joined(piece) == EndsIn(m_line, CR) /\ Data(piece) # <<>> /\ Head(Data(piece)) = LF

Receive(piece) ==
    /\ ~thrown
    /\ Len(received) + Len(piece) <= MaxBytes
    /\ received' = received \o piece

-----------------------------------------------------------------------------
(* from_buffer.                                                            *)

\* Mutant of JoinSpecial: the CR stays in the line.
JoinKeepingCR(piece) ==
    /\ Receive(piece) /\ Joined(piece)
    /\ answer' = m_line
    /\ m_line' = <<>>
    /\ m_buf' = Tail(Data(piece))
    /\ UNCHANGED thrown

\* get_from_special_case.
JoinSpecial(piece) ==
    /\ Receive(piece) /\ Joined(piece)
    /\ answer' = Front(m_line)
    /\ m_line' = <<>>
    /\ m_buf' = Tail(Data(piece))
    /\ UNCHANGED thrown

\* The line is m_line and what precedes the CR.
TakeLine(piece) ==
    /\ Receive(piece) /\ ~Joined(piece)
    /\ \E n \in 1 .. Len(Data(piece)) :
        /\ EndAt(Data(piece), n)
        /\ answer' = m_line \o SubSeq(Data(piece), 1, n - 1)
        /\ m_buf' = SubSeq(Data(piece), n + 2, Len(Data(piece)))
    /\ m_line' = <<>>
    /\ UNCHANGED thrown

\* No line: all of it goes to m_line.  A length above ZIAFS_STATIC_LINESZ is
\* only reported, to a caller that looks at the report of lines alone.
KeepRest(piece) ==
    /\ Receive(piece) /\ ~Joined(piece) /\ NoEnd(Data(piece))
    /\ EndsIn(Data(piece), CR) => PastEnd \ {LF} # {}
    /\ m_line' = m_line \o Data(piece)
    /\ m_buf' = <<>>
    /\ answer' = NoLine
    /\ UNCHANGED thrown

\* The byte after a buffer that ends in CR is LF: a line, and the buffer, shorter
\* than the CRLF by one, is emptied.
OverRead(piece) ==
    /\ Receive(piece) /\ ~Joined(piece) /\ NoEnd(Data(piece))
    /\ EndsIn(Data(piece), CR) /\ LF \in PastEnd /\ Len(Data(piece)) > 1
    /\ answer' = m_line \o Front(Data(piece))
    /\ m_line' = <<>>
    /\ m_buf' = <<>>
    /\ UNCHANGED thrown

\* With the CR alone in the buffer its size less 2 wraps round, and the copy of
\* the rest runs until the index is refused: the caller gets no answer.
OverReadOne(piece) ==
    /\ Receive(piece) /\ ~Joined(piece)
    /\ Data(piece) = <<CR>> /\ LF \in PastEnd
    /\ m_line' = m_line
    /\ m_buf' \in {<<b>> : b \in Bytes}
    /\ answer' = NoLine
    /\ thrown' = TRUE

FromBuffer(piece) ==
    \/ JoinSpecial(piece) \/ TakeLine(piece) \/ KeepRest(piece)
    \/ OverRead(piece) \/ OverReadOne(piece)

-----------------------------------------------------------------------------
(* get_bytes, called for the entity once the blank line was returned.      *)

GetBytes(n) ==
    /\ ~thrown /\ m_line = <<>>
    /\ LET k == IF n < Len(m_buf) THEN n ELSE Len(m_buf)
       IN /\ answer' = SubSeq(m_buf, 1, k)
          /\ m_buf'  = SubSeq(m_buf, k + 1, Len(m_buf))
    /\ UNCHANGED <<m_line, thrown, received>>

ReaderNext ==
    \/ \E piece \in Pieces : FromBuffer(piece)
    \/ \E n \in AskSizes : GetBytes(n)

ReaderSpec == ReaderInit /\ [][ReaderNext]_vars

-----------------------------------------------------------------------------
(* Properties.                                                             *)

\* However the bytes of a connection are cut into pieces, the lines and entity
\* bytes returned are those of the bytes received, in order, none lost or made
\* up; "no line" is said only when no line is complete ("Get next line from a
\* buffer").  A CR is taken for a line end only if a byte past the buffer may be
\* LF: then the LF to come begins the next line.
Stream == INSTANCE LineStream WITH
            cut <- Len(received) - Len(m_line) - Len(m_buf),
            Sizes <- AskSizes, Early <- LF \in PastEnd

ReaderImplementsStream == Stream!StreamSpec
=============================================================================
