--------------------------- MODULE MCHttpSession ---------------------------
(***************************************************************************)
(* Instances of HttpSession for TLC: the requests that clients make.       *)
(***************************************************************************)
EXTENDS HttpSession

Ask(good, resource, units, close) ==
    [led |-> FALSE, good |-> good, resource |-> resource, entity |-> units, close |-> close]

Get      == Ask(TRUE, "file", 0, FALSE)
GetClose == Ask(TRUE, "file", 0, TRUE)
GetLed   == [Get EXCEPT !.led = TRUE]
Put      == Ask(TRUE, "put", 3, FALSE)
CgiClose == Ask(TRUE, "cgi", 2, TRUE)
PostFile == Ask(TRUE, "file", 1, FALSE)
Garbled  == Ask(FALSE, "file", 0, FALSE)

\* Requests whose entity is read to its end, or of whose client no more is read.
WholeKinds == {Get, Put, CgiClose}

\* Requests without entity, one of them invalid.
GetKinds  == {GetLed, GetClose, Garbled}

\* A POST to a plain file, which no run uses: its entity becomes the next request.
PostKinds == {PostFile}
=============================================================================
