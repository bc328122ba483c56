----------------------------- MODULE LineStream -----------------------------
(***************************************************************************)
(* What a reader of lines promises: the bytes received so far are handed   *)
(* out in order, each once; a line is handed out without its CRLF as soon  *)
(* as the CRLF is there, wherever the pieces in which the bytes came end.  *)
(***************************************************************************)
EXTENDS Integers, Sequences

CONSTANTS CR, LF,
          NoLine,     \* the answer "no line yet"
          Pieces,     \* the pieces in which bytes come
          Sizes,      \* the numbers of bytes that may be asked for
          Early       \* whether a CR that ends a piece may be taken for a CRLF

VARIABLES received,   \* every byte that came
          cut,        \* how many of them were handed out, CRLFs included
          answer      \* what the last call returned

streamVars == <<received, cut, answer>>

EndsLine(s, n) == n \in 1 .. Len(s) - 1 /\ s[n] = CR /\ s[n + 1] = LF

\* The first line of s ends before n.
FirstEnd(s, n) == EndsLine(s, n) /\ \A k \in 1 .. n - 1 : ~EndsLine(s, k)

HasLine(s) == \E n \in 1 .. Len(s) : EndsLine(s, n)

Rest(s, n) == SubSeq(s, n + 1, Len(s))

StreamInit == received = <<>> /\ cut = 0 /\ answer = NoLine

GiveLine(piece) ==
    LET all  == received \o piece
        rest == Rest(all, cut)
    IN  \E n \in 1 .. Len(rest) :
          /\ FirstEnd(rest, n)
          /\ received' = all
          /\ answer' = SubSeq(rest, 1, n - 1)
          /\ cut' = cut + n + 1

\* A line that ends in a CR whose LF has not come.
GiveEarly(piece) ==
    /\ Early
    /\ received' = received \o piece
    /\ LET rest == Rest(received', cut)
       IN /\ ~HasLine(rest) /\ rest # <<>> /\ rest[Len(rest)] = CR
          /\ answer' = SubSeq(rest, 1, Len(rest) - 1)
          /\ cut' = Len(received')

NothingYet(piece) ==
    /\ received' = received \o piece
    /\ ~HasLine(Rest(received', cut))
    /\ answer' = NoLine
    /\ UNCHANGED cut

\* The bytes of an entity are asked for by number.
GiveBytes(k) ==
    LET n == IF k < Len(received) - cut THEN k ELSE Len(received) - cut
    IN  /\ answer' = SubSeq(received, cut + 1, cut + n)
        /\ cut' = cut + n
        /\ UNCHANGED received

StreamNext ==
    \/ \E piece \in Pieces : GiveLine(piece) \/ GiveEarly(piece) \/ NothingYet(piece)
    \/ \E k \in Sizes : GiveBytes(k)

StreamSpec == StreamInit /\ [][StreamNext]_streamVars
=============================================================================
