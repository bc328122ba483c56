------------------------- MODULE HttpSessionProofs --------------------------
(***************************************************************************)
(* Theorems about the sessions of a thread, for any number of clients and  *)
(* requests, any kinds of requests and buffers of any size.                *)
(***************************************************************************)
EXTENDS HttpSession, SequenceTheorems, WellFoundedInduction, TLAPS

-----------------------------------------------------------------------------
(* Types.                                                                  *)

\* What clients really send.
Real == {t \in Tokens : t.req <= Len(asks[t.conn]) /\ t.place <= BlankLine + KindOf(t).entity}
From(c) == {t \in Real : t.conn = c}

\* Whether the thread has a client.
Serving == pc \notin {"accept", "over"}
Reading == pc \in {"recv", "consume"}

\* The types, with tokens that were really sent.
Typed ==
    /\ asks \in [Conns -> UNION {[1 .. n -> Kinds] : n \in 1 .. MaxRequests}]
    /\ next = [c \in Conns |-> next[c]] /\ \A c \in Conns : next[c] \in From(c) \cup {Start(c, Len(asks[c]) + 1)}
    /\ sent \in [Conns -> Nat] /\ shut \in [Conns -> BOOLEAN]
    /\ wire = [c \in Conns |-> wire[c]] /\ \A c \in Conns : wire[c] \in Seq(From(c))
    /\ answers = [c \in Conns |-> answers[c]] /\ \A c \in Conns : answers[c] \in Seq([to : Seq(Real), ok : BOOLEAN])
    /\ conn \in 0 .. NrConns /\ (Serving => conn \in Conns)
    /\ pc \in {"accept", "recv", "consume", "document", "entity", "after", "release", "over"}
    /\ m_line \in Seq(Real) /\ m_buf \in Seq(Real)
    /\ state \in {"STUSLINES", "HDRLINES", "BODYDATA"}
    /\ header \in Real \cup {NoHeader} /\ request \in Seq(Real) /\ entity \in Seq(Real)
    /\ done \in BOOLEAN /\ in_size \in Nat /\ total \in 0 .. MaxMetadata
    /\ pc = "document" /\ ~done => header # NoHeader

-----------------------------------------------------------------------------
(* Sequences and numbers.                                                  *)

LEMMA Sizes ==
    /\ NrConns \in Nat /\ MaxRequests \in Nat /\ EntityBuf \in Nat \ {0} /\ MaxMetadata \in Nat
    /\ Conns \subseteq Nat \ {0} /\ \A k \in Kinds : k \in KindType /\ k.entity \in Nat
    /\ NoHeader \notin Real
  BY SessionAssumption DEF Conns, KindType, Real

LEMMA Split ==
    ASSUME NEW S, NEW s \in Seq(S), NEW n \in 0 .. Len(s)
    PROVE  /\ Len(s) \in Nat
           /\ SubSeq(s, 1, n) \in Seq(S) /\ Len(SubSeq(s, 1, n)) = n
           /\ \A i \in 1 .. n : SubSeq(s, 1, n)[i] = s[i]
           /\ SubSeq(s, n + 1, Len(s)) \in Seq(S) /\ Len(SubSeq(s, n + 1, Len(s))) = Len(s) - n
           /\ \A i \in 1 .. Len(s) - n : SubSeq(s, n + 1, Len(s))[i] = s[n + i]
<1> DEFINE a == SubSeq(s, 1, n)
           b == SubSeq(s, n + 1, Len(s))
<1>1. Len(s) \in Nat /\ n \in Nat /\ n <= Len(s)
  BY LenProperties
<1>2. \A i \in 1 .. Len(s) : s[i] \in S
  BY <1>1, ElementOfSeq
<1>3. (\A i \in 1 .. n : s[i] \in S) /\ (\A i \in n + 1 .. Len(s) : s[i] \in S)
  BY <1>1, <1>2
<1>4. /\ a \in Seq(S) /\ Len(a) = IF 1 <= n THEN n - 1 + 1 ELSE 0
      /\ \A i \in 1 .. n - 1 + 1 : a[i] = s[1 + i - 1]
  BY <1>1, <1>3, SubSeqProperties
<1>5. /\ b \in Seq(S) /\ Len(b) = IF n + 1 <= Len(s) THEN Len(s) - (n + 1) + 1 ELSE 0
      /\ \A i \in 1 .. Len(s) - (n + 1) + 1 : b[i] = s[(n + 1) + i - 1]
  BY <1>1, <1>3, SubSeqProperties
<1> HIDE DEF a, b
<1>6. a \in Seq(S) /\ Len(a) = n /\ \A i \in 1 .. n : a[i] = s[i]
  BY <1>1, <1>4
<1>7. b \in Seq(S) /\ Len(b) = Len(s) - n /\ \A i \in 1 .. Len(s) - n : b[i] = s[n + i]
  <2>1. Len(b) = Len(s) - n
    BY <1>1, <1>5
  <2>2. \A i \in 1 .. Len(s) - n : b[i] = s[n + i]
    BY <1>1, <1>5
  <2> QED BY <1>5, <2>1, <2>2
<1> QED BY <1>1, <1>6, <1>7 DEF a, b

LEMMA Together ==
    \A S : \A s, t \in Seq(S) :
        /\ s \o t \in Seq(S) /\ Len(s) \in Nat /\ Len(t) \in Nat /\ Len(s \o t) = Len(s) + Len(t)
        /\ \A i \in 1 .. Len(s) + Len(t) : (s \o t)[i] = IF i <= Len(s) THEN s[i] ELSE t[i - Len(s)]
  BY ConcatProperties, LenProperties

LEMMA SmallestPlace ==
    ASSUME NEW S \in SUBSET Nat, S # {}
    PROVE  \E n \in S : \A k \in S : n <= k
<1> DEFINE less == {ss \in Nat \X Nat : ss[1] < ss[2]}
<1>1. IsWellFoundedOn(less, Nat)
  BY NatLessThanWellFounded DEF OpToRel
<1>2. PICK n \in S : \A k \in S : <<k, n>> \notin less
  <2> HIDE DEF less
  <2> QED BY <1>1, WFMin
<1>3. \A k \in S : ~(k < n)
  BY <1>2
<1> QED BY <1>3

\* The line from_buffer finds is the first.
LEMMA FirstLineIs ==
    ASSUME NEW S, NEW s \in Seq(S), HasLine(s)
    PROVE  /\ FirstLine(s) \in 1 .. Len(s) /\ IsLine(s[FirstLine(s)])
           /\ \A j \in 1 .. FirstLine(s) - 1 : ~IsLine(s[j])
<1> DEFINE lines == {k \in 1 .. Len(s) : IsLine(s[k])}
<1>1. lines \in SUBSET Nat /\ lines # {} /\ Len(s) \in Nat
  BY LenProperties DEF HasLine
<1>2. PICK n \in lines : \A k \in lines : n <= k
  BY <1>1, SmallestPlace
<1>3. n \in 1 .. Len(s) /\ IsLine(s[n]) /\ \A j \in 1 .. n - 1 : ~IsLine(s[j])
  BY <1>1, <1>2
<1>4. \E k \in 1 .. Len(s) : IsLine(s[k]) /\ \A j \in 1 .. k - 1 : ~IsLine(s[j])
  BY <1>3
<1> QED BY <1>4 DEF FirstLine

-----------------------------------------------------------------------------
(* Requests.                                                               *)

\* Requests are made before the first client comes.
LEMMA NothingElseAsked ==
    ASSUME asks' = asks
    PROVE  /\ Real' = Real /\ \A c : From(c)' = From(c)
           /\ \A c, i : Start(c, i)' = Start(c, i)
           /\ \A t : After(t)' = After(t) /\ KindOf(t)' = KindOf(t)
  BY DEF Real, From, Start, After, Token, KindOf

LEMMA KindsAsked ==
    ASSUME Typed
    PROVE  \A c \in Conns : /\ Len(asks[c]) \in Nat /\ Len(asks[c]) <= MaxRequests
                            /\ \A i \in 1 .. Len(asks[c]) : /\ asks[c][i] \in Kinds
                                                            /\ asks[c][i] \in KindType /\ asks[c][i].entity \in Nat
<1> TAKE c \in Conns
<1>1. PICK n \in 1 .. MaxRequests : asks[c] \in [1 .. n -> Kinds]
  BY DEF Typed
<1>2. n \in Nat /\ n <= MaxRequests
  BY <1>1, Sizes
<1>3. Len(asks[c]) = n
  BY <1>1, <1>2
<1> QED BY <1>1, <1>2, <1>3, Sizes

LEMMA RealOnes ==
    ASSUME Typed
    PROVE  \A t \in Real : /\ t.conn \in Conns /\ t.req \in 1 .. Len(asks[t.conn]) /\ t.place \in Nat
                           /\ t = Token(t.conn, t.req, t.place)
                           /\ KindOf(t) \in Kinds /\ KindOf(t).entity \in Nat
                           /\ t \in Tokens /\ t \in From(t.conn)
                           /\ t.place <= BlankLine + KindOf(t).entity
<1> TAKE t \in Real
<1>1. t \in Tokens /\ t.req <= Len(asks[t.conn]) /\ t.place <= BlankLine + KindOf(t).entity
  BY DEF Real
<1>2. t.conn \in Conns /\ t.req \in 1 .. MaxRequests /\ t.place \in Nat /\ t = Token(t.conn, t.req, t.place)
  BY <1>1 DEF Tokens, Token
<1>3. Len(asks[t.conn]) \in Nat /\ t.req \in 1 .. Len(asks[t.conn])
  BY <1>1, <1>2, KindsAsked, Sizes
<1> QED BY <1>1, <1>2, <1>3, KindsAsked DEF KindOf, From

\* A request begins with its status line or a blank line, ...
LEMMA Starts ==
    ASSUME Typed, NEW c \in Conns, NEW i \in Nat \ {0}
    PROVE  /\ Start(c, i).conn = c /\ Start(c, i).req = i /\ Start(c, i).place \in {LeadingBlank, StatusLine}
           /\ i <= Len(asks[c]) => Start(c, i) \in From(c)
<1>1. /\ Start(c, i).conn = c /\ Start(c, i).req = i /\ Start(c, i).place \in {LeadingBlank, StatusLine}
      /\ Start(c, i) = Token(c, i, Start(c, i).place)
  BY DEF Start, Token
<1>2. ASSUME i <= Len(asks[c]) PROVE Start(c, i) \in From(c)
  <2>1. i \in 1 .. Len(asks[c]) /\ i \in 1 .. MaxRequests /\ asks[c][i].entity \in Nat
    BY <1>2, KindsAsked, Sizes
  <2>2. Start(c, i) \in Tokens
    BY <1>1, <2>1 DEF Tokens, Token, LeadingBlank, StatusLine
  <2>3. Start(c, i).place <= BlankLine + asks[c][i].entity
    BY <1>1, <2>1 DEF LeadingBlank, StatusLine, BlankLine
  <2> QED BY <1>1, <1>2, <2>2, <2>3 DEF From, Real, KindOf
<1> QED BY <1>1, <1>2

\* ... and is sent place after place, before the next one.
LEMMA Follows ==
    ASSUME Typed, NEW t \in Real
    PROVE  /\ After(t) \in From(t.conn) \cup {Start(t.conn, Len(asks[t.conn]) + 1)}
           /\ After(t).conn = t.conn
           /\ t.place < BlankLine + KindOf(t).entity => After(t) = Token(t.conn, t.req, t.place + 1)
           /\ t.place = BlankLine + KindOf(t).entity => After(t) = Start(t.conn, t.req + 1)
<1>1. /\ t.conn \in Conns /\ t.req \in 1 .. Len(asks[t.conn]) /\ t.place \in Nat /\ t \in Tokens
      /\ KindOf(t).entity \in Nat /\ t.place <= BlankLine + KindOf(t).entity
      /\ Len(asks[t.conn]) \in Nat
  BY RealOnes, KindsAsked
<1> DEFINE e == KindOf(t).entity
           n == Len(asks[t.conn])
<1>2. CASE t.place < BlankLine + e
  <2>1. After(t) = Token(t.conn, t.req, t.place + 1)
    BY <1>2 DEF After
  <2>2. After(t) \in Tokens /\ After(t).conn = t.conn /\ After(t).req = t.req /\ After(t).place = t.place + 1
    BY <1>1, <2>1 DEF Token, Tokens
  <2>3. KindOf(After(t)) = KindOf(t) /\ After(t).place <= BlankLine + e /\ After(t).req <= n
    BY <1>1, <1>2, <2>2 DEF KindOf, BlankLine
  <2>4. After(t) \in From(t.conn)
    BY <2>2, <2>3 DEF From, Real
  <2> QED BY <1>1, <1>2, <2>1, <2>2, <2>4 DEF BlankLine
<1>3. CASE t.place = BlankLine + e
  <2>1. After(t) = Start(t.conn, t.req + 1)
    BY <1>1, <1>3 DEF After, BlankLine
  <2>2. t.req + 1 \in Nat \ {0} /\ (t.req + 1 <= n \/ t.req + 1 = n + 1)
    BY <1>1
  <2> QED BY <1>1, <1>3, <2>1, <2>2, Starts DEF BlankLine
<1> QED BY <1>1, <1>2, <1>3 DEF BlankLine

-----------------------------------------------------------------------------
(* Every step keeps the types.                                             *)

\* What a step that asks nothing new leaves typed.
LEMMA StillTyped ==
    ASSUME Typed, asks' = asks
    PROVE  /\ asks' \in [Conns -> UNION {[1 .. n -> Kinds] : n \in 1 .. MaxRequests}]
           /\ next' = next => next' = [c \in Conns |-> next'[c]] /\ \A c \in Conns : next'[c] \in From(c)' \cup {Start(c, Len(asks[c]) + 1)'}
           /\ wire' = wire => wire' = [c \in Conns |-> wire'[c]] /\ \A c \in Conns : wire'[c] \in Seq(From(c)')
           /\ answers' = answers => answers' = [c \in Conns |-> answers'[c]] /\ \A c \in Conns : answers'[c] \in Seq([to : Seq(Real'), ok : BOOLEAN])
  BY NothingElseAsked DEF Typed

LEMMA Owned ==
    ASSUME Typed, NEW c \in Conns
    PROVE  From(c) \subseteq Real /\ Seq(From(c)) \subseteq Seq(Real)
  BY DEF From

LEMMA TypedSends ==
    ASSUME Typed, NEW c \in Conns, ClientSends(c)
    PROVE  Typed'
<1>1. asks' = asks /\ shut' = shut /\ answers' = answers /\ conn' = conn /\ pc' = pc
  BY DEF ClientSends
<1>2. UNCHANGED <<m_line, m_buf, requestVars, done>>
  BY DEF ClientSends
<1>3. next[c] \in From(c)
  <2>1. Start(c, Len(asks[c]) + 1).req = Len(asks[c]) + 1 /\ Len(asks[c]) \in Nat
    BY KindsAsked, Starts
  <2>2. next[c].req <= Len(asks[c])
    BY DEF ClientSends
  <2>3. next[c] # Start(c, Len(asks[c]) + 1)
    BY <2>1, <2>2
  <2> QED BY <2>3 DEF Typed
<1>4. next[c] \in Real /\ next[c].conn = c
  BY <1>3 DEF From
<1>5. After(next[c]) \in From(c) \cup {Start(c, Len(asks[c]) + 1)}
  BY <1>4, Follows
<1>6. next' = [d \in Conns |-> next'[d]] /\ \A d \in Conns : next'[d] \in From(d) \cup {Start(d, Len(asks[d]) + 1)}
  BY <1>5 DEF ClientSends, Typed
<1>7. sent' \in [Conns -> Nat]
  BY DEF ClientSends, Typed
<1>8. wire' = [d \in Conns |-> wire'[d]] /\ \A d \in Conns : wire'[d] \in Seq(From(d))
  <2>1. Append(wire[c], next[c]) \in Seq(From(c))
    BY <1>3, AppendProperties DEF Typed
  <2> QED BY <2>1 DEF ClientSends, Typed
<1>9. /\ next' = [d \in Conns |-> next'[d]] /\ \A d \in Conns : next'[d] \in From(d)' \cup {Start(d, Len(asks[d]) + 1)'}
      /\ wire' = [d \in Conns |-> wire'[d]] /\ \A d \in Conns : wire'[d] \in Seq(From(d)')
  BY <1>1, <1>6, <1>8, NothingElseAsked
<1> QED BY <1>1, <1>2, <1>7, <1>9, StillTyped, NothingElseAsked DEF Typed, Serving, requestVars

LEMMA TypedCloses ==
    ASSUME Typed, NEW c \in Conns, ClientCloses(c)
    PROVE  Typed'
<1>1. UNCHANGED <<asks, next, sent, wire, answers, conn, pc, m_line, m_buf, requestVars, done>>
  BY DEF ClientCloses
<1>2. shut' \in [Conns -> BOOLEAN]
  BY DEF ClientCloses, Typed
<1> QED BY <1>1, <1>2, StillTyped, NothingElseAsked DEF Typed, Serving, requestVars

LEMMA TypedAccept ==
    ASSUME Typed, Accept \/ NoMoreClients
    PROVE  Typed'
<1>1. UNCHANGED <<asks, next, sent, shut, wire, answers, m_buf>>
  BY DEF Accept, NoMoreClients, clientVars
<1>2. CASE Accept
  <2>1. /\ conn' = conn + 1 /\ conn < NrConns /\ done' = FALSE /\ pc' = "recv"
        /\ state' = "STUSLINES" /\ header' = NoHeader /\ request' = <<>>
        /\ total' = 0 /\ in_size' = 0 /\ entity' = <<>> /\ m_line' = <<>>
    BY <1>2 DEF Accept, ResetRequest
  <2>2. conn' \in Conns /\ conn' \in 0 .. NrConns
    BY <2>1, Sizes DEF Typed, Conns
  <2>3. 0 \in 0 .. MaxMetadata
    BY Sizes
  <2> QED BY <1>1, <2>1, <2>2, <2>3, StillTyped, NothingElseAsked, EmptySeq DEF Typed, Serving
<1>3. CASE NoMoreClients
  <2>1. UNCHANGED <<m_line, requestVars, done, conn>> /\ pc' = "over"
    BY <1>3 DEF NoMoreClients
  <2> QED BY <1>1, <2>1, StillTyped, NothingElseAsked DEF Typed, Serving, requestVars
<1> QED BY <1>2, <1>3

\* What is received is what was sent, and the rest stays.
LEMMA Receives ==
    ASSUME Typed, conn \in Conns, NEW n \in 1 .. Len(wire[conn])
    PROVE  /\ Received(n) \in Seq(From(conn)) /\ Received(n) \in Seq(Real) /\ Len(Received(n)) = n
           /\ n \in Nat /\ Len(wire[conn]) \in Nat
           /\ \A i \in 1 .. n : Received(n)[i] = wire[conn][i]
           /\ Receive(n) => /\ wire' = [c \in Conns |-> wire'[c]] /\ \A c \in Conns : wire'[c] \in Seq(From(c))
                            /\ \A c \in Conns \ {conn} : wire'[c] = wire[c]
                            /\ Len(wire'[conn]) = Len(wire[conn]) - n
                            /\ \A i \in 1 .. Len(wire[conn]) - n : wire'[conn][i] = wire[conn][n + i]
<1> DEFINE w == wire[conn]
           a == SubSeq(w, 1, n)
           b == SubSeq(w, n + 1, Len(w))
<1>1. w \in Seq(From(conn)) /\ Len(w) \in Nat
  BY LenProperties DEF Typed
<1>2. n \in 0 .. Len(w) /\ n \in Nat
  BY <1>1
<1>3. /\ a \in Seq(From(conn)) /\ Len(a) = n /\ \A i \in 1 .. n : a[i] = w[i]
      /\ b \in Seq(From(conn)) /\ Len(b) = Len(w) - n /\ \A i \in 1 .. Len(w) - n : b[i] = w[n + i]
  <2> HIDE DEF w
  <2> QED BY <1>1, <1>2, Split
<1>4. ASSUME Receive(n)
      PROVE  wire' = [c \in Conns |-> wire'[c]] /\ wire'[conn] = b /\ \A c \in Conns \ {conn} : wire'[c] = wire[c]
  BY <1>4 DEF Receive, Typed
<1>5. ASSUME Receive(n)
      PROVE  \A c \in Conns : wire'[c] \in Seq(From(c))
  BY <1>3, <1>4, <1>5 DEF Typed
<1> HIDE DEF a, b
<1>6. Received(n) = a
  BY DEF Received, a
<1> QED BY <1>1, <1>2, <1>3, <1>4, <1>5, <1>6, Owned

LEMMA TypedRecv ==
    ASSUME Typed, Recv \/ RecvEnd \/ RecvFails
    PROVE  Typed'
<1>1. pc = "recv" /\ conn \in Conns
  BY DEF Recv, RecvEnd, RecvFails, Typed, Serving
<1>2. UNCHANGED <<asks, next, sent, shut, answers, conn, m_line, state, header, request, in_size, entity>>
  BY DEF Recv, RecvEnd, RecvFails, clientVars, requestVars
<1>3. CASE Recv
  <2>1. PICK n \in 1 .. Len(wire[conn]) :
            /\ Receive(n)
            /\ IF total + n > MaxMetadata
               THEN done' = TRUE /\ pc' = "document" /\ UNCHANGED <<m_buf, total>>
               ELSE /\ m_buf' = m_buf \o Received(n) /\ total' = total + n
                    /\ pc' = "consume" /\ UNCHANGED done
    BY <1>3 DEF Recv
  <2>2. n \in Nat /\ Received(n) \in Seq(Real) /\ wire' = [c \in Conns |-> wire'[c]] /\ \A c \in Conns : wire'[c] \in Seq(From(c))
    BY <1>1, <2>1, Receives
  <2>3. wire' = [c \in Conns |-> wire'[c]] /\ \A c \in Conns : wire'[c] \in Seq(From(c)')
    BY <1>2, <2>2, NothingElseAsked
  <2>4. CASE total + n > MaxMetadata
    BY <1>1, <1>2, <2>1, <2>3, <2>4, StillTyped, NothingElseAsked DEF Typed, Serving
  <2>5. CASE ~(total + n > MaxMetadata)
    <3>1. m_buf \in Seq(Real) /\ total \in Nat
      BY Sizes DEF Typed
    <3>2. m_buf' \in Seq(Real)
      BY <2>1, <2>2, <2>5, <3>1, Together
    <3>3. total' \in 0 .. MaxMetadata
      BY <2>1, <2>2, <2>5, <3>1, Sizes
    <3> QED BY <1>1, <1>2, <2>1, <2>3, <2>5, <3>2, <3>3, StillTyped, NothingElseAsked DEF Typed, Serving
  <2> QED BY <2>4, <2>5
<1>4. CASE RecvEnd
  <2>1. wire' = wire /\ m_buf' = m_buf /\ total' = total /\ done' = done /\ pc' = "consume"
    BY <1>4 DEF RecvEnd, requestVars
  <2> QED BY <1>1, <1>2, <2>1, StillTyped, NothingElseAsked DEF Typed, Serving
<1>5. CASE RecvFails
  <2>1. wire' = wire /\ m_buf' = m_buf /\ total' = total /\ done' = TRUE /\ pc' = "document"
    BY <1>5 DEF RecvFails, requestVars
  <2> QED BY <1>1, <1>2, <2>1, StillTyped, NothingElseAsked DEF Typed, Serving
<1> QED BY <1>3, <1>4, <1>5

\* The line that is read, and what stays in the buffer.
LEMMA LineRead ==
    ASSUME Typed, HasLine(m_buf)
    PROVE  /\ NextLine \in Seq(Real) /\ Len(NextLine) \in Nat \ {0} /\ RestOfBuf \in Seq(Real)
           /\ \A k \in 1 .. Len(NextLine) : NextLine[k] \in Real
<1> DEFINE n == FirstLine(m_buf)
           a == SubSeq(m_buf, 1, n)
<1>1. m_buf \in Seq(Real) /\ m_line \in Seq(Real) /\ Len(m_buf) \in Nat /\ Len(m_line) \in Nat
  BY LenProperties DEF Typed
<1>2. n \in 1 .. Len(m_buf) /\ n \in 0 .. Len(m_buf) /\ n \in Nat \ {0}
  BY <1>1, FirstLineIs
<1>3. a \in Seq(Real) /\ Len(a) = n /\ RestOfBuf \in Seq(Real)
  <2> HIDE DEF n
  <2>1. SubSeq(m_buf, 1, n) \in Seq(Real) /\ Len(SubSeq(m_buf, 1, n)) = n /\ SubSeq(m_buf, n + 1, Len(m_buf)) \in Seq(Real)
    BY <1>1, <1>2, Split
  <2> QED BY <2>1 DEF RestOfBuf, n
<1>4. NextLine = m_line \o a
  BY DEF NextLine
<1>5. NextLine \in Seq(Real) /\ Len(NextLine) = Len(m_line) + n
  <2> HIDE DEF a
  <2> QED BY <1>1, <1>3, <1>4, Together
<1>6. \A k \in 1 .. Len(NextLine) : NextLine[k] \in Real
  BY <1>5, ElementOfSeq
<1> HIDE DEF n
<1> QED BY <1>1, <1>2, <1>3, <1>5, <1>6

LEMMA TypedConsume ==
    ASSUME Typed, ConsumeNothing \/ SkipBlank \/ ConsumeStatus \/ ConsumeHeader \/ ConsumeBlank
    PROVE  Typed'
<1>1. UNCHANGED <<asks, next, sent, shut, wire, answers, conn, total, in_size, entity>>
  BY DEF ConsumeNothing, SkipBlank, ConsumeStatus, ConsumeHeader, ConsumeBlank, TakeLine, clientVars, requestVars
<1>2. pc = "consume" /\ conn \in Conns
  BY DEF ConsumeNothing, SkipBlank, ConsumeStatus, ConsumeHeader, ConsumeBlank, TakeLine, Typed, Serving
<1>3. CASE ConsumeNothing
  <2>1. m_line' = m_line \o m_buf /\ m_buf' = <<>> /\ pc' = "recv" /\ UNCHANGED <<state, header, request, done>>
    BY <1>3 DEF ConsumeNothing, requestVars
  <2>2. m_line' \in Seq(Real) /\ m_buf' \in Seq(Real)
    BY <2>1, Together, EmptySeq DEF Typed
  <2> QED BY <1>1, <1>2, <2>1, <2>2, StillTyped, NothingElseAsked DEF Typed, Serving
<1>4. CASE SkipBlank \/ ConsumeStatus \/ ConsumeHeader \/ ConsumeBlank
  <2>1. HasLine(m_buf) /\ m_line' = <<>> /\ m_buf' = RestOfBuf
    BY <1>4 DEF SkipBlank, ConsumeStatus, ConsumeHeader, ConsumeBlank, TakeLine
  <2>2. m_line' \in Seq(Real) /\ m_buf' \in Seq(Real)
    BY <2>1, LineRead, EmptySeq
  <2>3. request \o NextLine \in Seq(Real)
    BY <2>1, LineRead, Together DEF Typed
  <2>4. header' \in Real \cup {NoHeader}
    <3>1. CASE ConsumeHeader
      <4>1. IsHeader(NextLine) => NextLine[1] \in Real
        BY <2>1, LineRead DEF IsHeader
      <4> QED BY <3>1, <4>1 DEF ConsumeHeader, Typed
    <3>2. CASE ~ConsumeHeader
      BY <1>4, <3>2 DEF SkipBlank, ConsumeStatus, ConsumeBlank, Typed
    <3> QED BY <3>1, <3>2
  <2>5. request' \in Seq(Real) /\ state' \in {"STUSLINES", "HDRLINES", "BODYDATA"}
    BY <1>4, <2>3 DEF SkipBlank, ConsumeStatus, ConsumeHeader, ConsumeBlank, ReadAsRequest, Typed
  <2>6. done' \in BOOLEAN /\ (pc' = "document" /\ ~done' => header' # NoHeader)
    <3>1. CASE SkipBlank
      BY <3>1 DEF SkipBlank, Typed
    <3>2. CASE ConsumeStatus
      BY <3>2 DEF ConsumeStatus, RefuseRequest, Typed
    <3>3. CASE ConsumeHeader
      BY <3>3 DEF ConsumeHeader, RefuseRequest, Typed
    <3>4. CASE ConsumeBlank
      BY <3>4 DEF ConsumeBlank, Valid
    <3> QED BY <1>4, <3>1, <3>2, <3>3, <3>4
  <2>7. pc' \in {"recv", "consume", "document"}
    BY <1>4 DEF SkipBlank, ConsumeStatus, ConsumeHeader, ConsumeBlank, RefuseRequest
  <2> QED BY <1>1, <1>2, <2>2, <2>4, <2>5, <2>6, <2>7, StillTyped, NothingElseAsked DEF Typed, Serving
<1> QED BY <1>3, <1>4

LEMMA TypedAnswer ==
    ASSUME Typed, AnswerError \/ AnswerAtOnce \/ EndDocument
    PROVE  Typed'
<1>1. UNCHANGED <<asks, next, sent, shut, wire, conn, m_line, m_buf, requestVars, done>>
  BY DEF AnswerError, AnswerAtOnce, EndDocument, clientVars
<1>2. PICK ok \in BOOLEAN : Answer(ok)
  BY DEF AnswerError, AnswerAtOnce, EndDocument
<1>3. conn \in Conns
  BY DEF AnswerError, AnswerAtOnce, EndDocument, Typed, Serving
<1>4. answers' = [c \in Conns |-> answers'[c]] /\ \A c \in Conns : answers'[c] \in Seq([to : Seq(Real), ok : BOOLEAN])
  <2>1. [to |-> request, ok |-> ok] \in [to : Seq(Real), ok : BOOLEAN]
    BY DEF Typed
  <2>2. Append(answers[conn], [to |-> request, ok |-> ok]) \in Seq([to : Seq(Real), ok : BOOLEAN])
    BY <1>3, <2>1, AppendProperties DEF Typed
  <2> QED BY <1>2, <2>2 DEF Answer, Typed
<1>5. pc' = "after"
  BY <1>2 DEF Answer
<1> QED BY <1>1, <1>3, <1>4, <1>5, StillTyped, NothingElseAsked DEF Typed, Serving, requestVars

\* What flush_input does, whatever it is given.
LEMMA Flushed ==
    ASSUME Typed, NEW piece \in Seq(Real), Flush(piece)
    PROVE  entity' \in Seq(Real) /\ in_size' \in Nat
<1>1. entity' = entity \o piece /\ in_size' = in_size - Smaller(in_size, Len(piece))
  BY DEF Flush
<1>2. entity' \in Seq(Real) /\ Len(piece) \in Nat
  BY <1>1, Together DEF Typed
<1> QED BY <1>1, <1>2 DEF Smaller, Typed

LEMMA Taken ==
    ASSUME Typed
    PROVE  /\ Smaller(EntityBuf, Len(m_buf)) \in 0 .. Len(m_buf)
           /\ \A c \in Conns : 1 .. Smaller(EntityBuf, Len(wire[c])) \subseteq 1 .. Len(wire[c])
<1>1. Len(m_buf) \in Nat /\ \A c \in Conns : Len(wire[c]) \in Nat
  BY LenProperties DEF Typed
<1> QED BY <1>1, Sizes DEF Smaller

LEMMA TypedEntity ==
    ASSUME Typed, StartEntity \/ EntityFromBuffer \/ EntityFromRecv
    PROVE  Typed'
<1>1. UNCHANGED <<asks, next, sent, shut, answers, conn, m_line, state, header, request, total, done>>
  BY DEF StartEntity, EntityFromBuffer, EntityFromRecv, clientVars
<1>2. conn \in Conns /\ pc' = "entity"
  BY DEF StartEntity, EntityFromBuffer, EntityFromRecv, Typed, Serving
<1>3. CASE StartEntity
  <2>1. in_size' = Length /\ wire' = wire /\ m_buf' = m_buf /\ entity' = entity
    BY <1>3 DEF StartEntity
  <2>2. header \in Real
    BY <1>3 DEF StartEntity, Typed
  <2>3. in_size' \in Nat
    BY <2>1, <2>2, RealOnes DEF Length
  <2> QED BY <1>1, <1>2, <2>1, <2>3, StillTyped, NothingElseAsked DEF Typed, Serving
<1>4. CASE EntityFromBuffer
  <2> DEFINE n == Smaller(EntityBuf, Len(m_buf))
             a == SubSeq(m_buf, 1, n)
  <2>1. Flush(a) /\ m_buf' = SubSeq(m_buf, n + 1, Len(m_buf)) /\ wire' = wire
    BY <1>4 DEF EntityFromBuffer, clientVars
  <2>2. n \in 0 .. Len(m_buf)
    BY Taken
  <2>3. a \in Seq(Real) /\ m_buf' \in Seq(Real)
    <3> HIDE DEF n
    <3> QED BY <2>1, <2>2, Split DEF Typed
  <2>4. entity' \in Seq(Real) /\ in_size' \in Nat
    <3> HIDE DEF a
    <3> QED BY <2>1, <2>3, Flushed
  <2> QED BY <1>1, <1>2, <2>1, <2>3, <2>4, StillTyped, NothingElseAsked DEF Typed, Serving
<1>5. CASE EntityFromRecv
  <2>1. PICK n \in 1 .. Smaller(EntityBuf, Len(wire[conn])) : Flush(Received(n)) /\ Receive(n)
    BY <1>5 DEF EntityFromRecv
  <2>2. n \in 1 .. Len(wire[conn])
    BY <1>2, Taken
  <2>3. Received(n) \in Seq(Real) /\ wire' = [c \in Conns |-> wire'[c]] /\ \A c \in Conns : wire'[c] \in Seq(From(c))
    BY <1>2, <2>1, <2>2, Receives
  <2>4. wire' = [c \in Conns |-> wire'[c]] /\ \A c \in Conns : wire'[c] \in Seq(From(c)')
    BY <1>1, <2>3, NothingElseAsked
  <2>5. entity' \in Seq(Real) /\ in_size' \in Nat
    BY <2>1, <2>3, Flushed
  <2>6. m_buf' = m_buf
    BY <1>5 DEF EntityFromRecv
  <2> QED BY <1>1, <1>2, <2>4, <2>5, <2>6, StillTyped, NothingElseAsked DEF Typed, Serving
<1> QED BY <1>3, <1>4, <1>5

LEMMA TypedAfter ==
    ASSUME Typed, NextRequest \/ ServeAnother \/ EndTask
    PROVE  Typed'
<1>1. UNCHANGED <<asks, next, sent, wire, answers, conn>>
  BY DEF NextRequest, ServeAnother, EndTask, clientVars
<1>2. conn \in Conns
  BY DEF NextRequest, ServeAnother, EndTask, Typed, Serving
<1>3. shut' \in [Conns -> BOOLEAN]
  BY DEF NextRequest, ServeAnother, EndTask, Disconnect, clientVars, Typed
<1>4. m_line' \in Seq(Real) /\ m_buf' \in Seq(Real) /\ request' \in Seq(Real) /\ entity' \in Seq(Real)
  BY EmptySeq DEF NextRequest, ServeAnother, EndTask, ResetRequest, requestVars, Typed
<1>5. /\ state' \in {"STUSLINES", "HDRLINES", "BODYDATA"} /\ header' \in Real \cup {NoHeader}
      /\ done' \in BOOLEAN
  BY DEF NextRequest, ServeAnother, EndTask, ResetRequest, requestVars, Typed
<1>7. in_size' \in Nat /\ total' \in 0 .. MaxMetadata
  BY Sizes DEF NextRequest, ServeAnother, EndTask, ResetRequest, requestVars, Typed
<1>6. pc' \in {"recv", "release", "accept"}
  BY DEF NextRequest, ServeAnother, EndTask
<1> QED BY <1>1, <1>2, <1>3, <1>4, <1>5, <1>6, <1>7, StillTyped, NothingElseAsked DEF Typed, Serving

LEMMA TypedInit ==
    SessionInit => Typed
<1> SUFFICES ASSUME SessionInit PROVE Typed
  OBVIOUS
<1>1. asks \in [Conns -> UNION {[1 .. n -> Kinds] : n \in 1 .. MaxRequests}]
  BY DEF SessionInit
<1>2. \A c \in Conns : Start(c, 1) \in From(c)
  <2> TAKE c \in Conns
  <2>1. PICK n \in 1 .. MaxRequests : asks[c] \in [1 .. n -> Kinds]
    BY <1>1
  <2>2. n \in Nat /\ 1 <= n /\ Len(asks[c]) = n /\ 1 \in 1 .. n /\ 1 \in 1 .. MaxRequests
    BY <2>1, Sizes
  <2>3. asks[c][1] \in Kinds /\ asks[c][1].entity \in Nat
    BY <2>1, <2>2, Sizes
  <2>4. Start(c, 1).conn = c /\ Start(c, 1).req = 1 /\ Start(c, 1).place \in {0, 1} /\ Start(c, 1) \in Tokens
    BY <2>2 DEF Start, Token, Tokens, LeadingBlank, StatusLine
  <2>5. KindOf(Start(c, 1)) = asks[c][1]
    BY <2>4 DEF KindOf
  <2>6. Start(c, 1).place <= BlankLine + KindOf(Start(c, 1)).entity
    BY <2>3, <2>4, <2>5 DEF BlankLine
  <2> QED BY <2>2, <2>4, <2>6 DEF From, Real
<1>3. 0 \in 0 .. NrConns /\ 0 \in 0 .. MaxMetadata
  BY Sizes
<1> QED BY <1>1, <1>2, <1>3, EmptySeq DEF SessionInit, Typed, Serving

LEMMA TypedStep ==
    Typed /\ [SessionNext]_vars => Typed'
<1> SUFFICES ASSUME Typed, [SessionNext]_vars PROVE Typed'
  OBVIOUS
<1>1. CASE UNCHANGED vars
  BY <1>1, StillTyped, NothingElseAsked DEF Typed, Serving, vars
<1>2. CASE ClientNext
  BY <1>2, TypedSends, TypedCloses DEF ClientNext
<1>3. CASE ThreadNext
  BY <1>3, TypedAccept, TypedRecv, TypedConsume, TypedAnswer, TypedEntity, TypedAfter DEF ThreadNext
<1> QED BY <1>1, <1>2, <1>3 DEF SessionNext, Over

LEMMA AlwaysTyped ==
    SessionSpec => []Typed
  BY TypedInit, TypedStep, PTL DEF SessionSpec

LEMMA TypesFollow ==
    Typed => SessionTypeOK
<1> SUFFICES ASSUME Typed PROVE SessionTypeOK
  OBVIOUS
<1>1. Real \subseteq Tokens /\ Seq(Real) \subseteq Seq(Tokens)
  BY DEF Real
<1>2. next \in [Conns -> [conn : Conns, req : 1 .. MaxRequests + 1, place : Nat]]
  <2> SUFFICES ASSUME NEW c \in Conns
               PROVE  next[c] \in [conn : Conns, req : 1 .. MaxRequests + 1, place : Nat]
    <3>1. next = [c \in Conns |-> next[c]]
      BY DEF Typed
    <3> QED BY <3>1
  <2>1. CASE next[c] \in From(c)
    BY <2>1, Sizes DEF From, Real, Tokens
  <2>2. CASE next[c] = Start(c, Len(asks[c]) + 1)
    <3>1. Len(asks[c]) + 1 \in 1 .. MaxRequests + 1
      BY KindsAsked, Sizes
    <3> QED BY <2>2, <3>1 DEF Start, Token, LeadingBlank, StatusLine
  <2> QED BY <2>1, <2>2 DEF Typed
<1>3. wire \in [Conns -> Seq(Tokens)]
  <2>1. \A c \in Conns : wire[c] \in Seq(Tokens)
    BY <1>1, Owned DEF Typed
  <2>2. wire = [c \in Conns |-> wire[c]]
    BY DEF Typed
  <2> QED BY <2>1, <2>2
<1> QED BY <1>1, <1>2, <1>3 DEF SessionTypeOK, Typed

\* Whatever the clients do, the state stays in the domains of its types: m_buf,
\* the line, the request and the entity are made of tokens that clients can send,
\* in_size does not go below zero and nr_total not above the limit.
THEOREM SessionTypeCorrect ==
    SessionSpec => []SessionTypeOK
  BY AlwaysTyped, TypesFollow, PTL

-----------------------------------------------------------------------------
(* Clients are kept apart.                                                 *)

\* What the thread holds came from its client; it has nothing to begin with.
Owns ==
    /\ Serving => {m_line, m_buf, request, entity} \subseteq Seq(From(conn))
    /\ ~Serving => m_buf = <<>>

LEMMA OwnedLine ==
    ASSUME Typed, Owns, Serving, HasLine(m_buf)
    PROVE  NextLine \in Seq(From(conn)) /\ RestOfBuf \in Seq(From(conn))
<1> DEFINE n == FirstLine(m_buf)
           a == SubSeq(m_buf, 1, n)
<1>1. m_buf \in Seq(From(conn)) /\ m_line \in Seq(From(conn)) /\ Len(m_buf) \in Nat
  BY LenProperties DEF Owns
<1>2. n \in 0 .. Len(m_buf)
  BY <1>1, FirstLineIs
<1>3. a \in Seq(From(conn)) /\ RestOfBuf \in Seq(From(conn))
  <2> HIDE DEF n
  <2>1. SubSeq(m_buf, 1, n) \in Seq(From(conn)) /\ SubSeq(m_buf, n + 1, Len(m_buf)) \in Seq(From(conn))
    BY <1>1, <1>2, Split
  <2> QED BY <2>1 DEF RestOfBuf, n
<1>4. NextLine = m_line \o a
  BY DEF NextLine
<1> HIDE DEF a
<1> QED BY <1>1, <1>3, <1>4, Together

LEMMA OwnsInit ==
    SessionInit => Owns
  BY DEF SessionInit, Owns, Serving

LEMMA OwnsStep ==
    ASSUME Typed, Owns, [SessionNext]_vars, ServeAnother => m_buf = <<>>
    PROVE  Owns'
<1>2. CASE UNCHANGED vars \/ ClientNext
  <2>1. UNCHANGED <<asks, conn, pc, m_line, m_buf, request, entity>>
    BY <1>2 DEF vars, ClientNext, ClientSends, ClientCloses, requestVars
  <2>2. From(conn)' = From(conn)
    BY <2>1, NothingElseAsked
  <2> QED BY <2>1, <2>2 DEF Owns, Serving
<1>3. CASE Accept \/ NoMoreClients
  <2>1. m_buf = <<>> /\ m_buf' = <<>>
    BY <1>3 DEF Accept, NoMoreClients, Owns, Serving
  <2>2. Accept => m_line' = <<>> /\ request' = <<>> /\ entity' = <<>>
    BY DEF Accept, ResetRequest
  <2>3. NoMoreClients => pc' = "over"
    BY DEF NoMoreClients
  <2> QED BY <1>3, <2>1, <2>2, <2>3, EmptySeq DEF Owns, Serving
<1>4. CASE ThreadNext /\ ~Accept /\ ~NoMoreClients
  <2> DEFINE mine == Seq(From(conn))
  <2>1. Serving /\ conn \in Conns
    BY <1>4 DEF ThreadNext, Serving, Typed, Recv, RecvEnd, RecvFails, ConsumeNothing, TakeLine, SkipBlank,
                ConsumeStatus, ConsumeHeader, ConsumeBlank, AnswerError, AnswerAtOnce, StartEntity,
                EntityFromBuffer, EntityFromRecv, EndDocument, NextRequest, ServeAnother, EndTask
  <2>2. m_line \in mine /\ m_buf \in mine /\ request \in mine /\ entity \in mine /\ <<>> \in mine
    BY <2>1, EmptySeq DEF Owns
  <2>3. UNCHANGED <<asks, conn>>
    BY <1>4 DEF ThreadNext, Recv, RecvEnd, RecvFails, ConsumeNothing, TakeLine, SkipBlank,
                ConsumeStatus, ConsumeHeader, ConsumeBlank, AnswerError, AnswerAtOnce, StartEntity,
                EntityFromBuffer, EntityFromRecv, EndDocument, NextRequest, ServeAnother, EndTask,
                clientVars
  <2>4. From(conn)' = From(conn)
    BY <2>3, NothingElseAsked
  <2>5. SUFFICES m_line' \in mine /\ m_buf' \in mine /\ request' \in mine /\ entity' \in mine /\ (~Serving' => m_buf' = <<>>)
    BY <2>4 DEF Owns
  <2>6. CASE Recv \/ RecvEnd \/ RecvFails
    <3>1. UNCHANGED <<m_line, request, entity>> /\ Serving'
      BY <2>6 DEF Recv, RecvEnd, RecvFails, requestVars, Serving
    <3>2. m_buf' \in mine
      <4>1. CASE m_buf' = m_buf
        BY <2>2, <4>1
      <4>2. CASE Recv /\ m_buf' # m_buf
        <5>1. PICK n \in 1 .. Len(wire[conn]) : m_buf' = m_buf \o Received(n)
          BY <4>2 DEF Recv
        <5>2. Received(n) \in mine
          BY <2>1, Receives
        <5> QED BY <2>2, <5>1, <5>2, Together
      <4> QED BY <2>6, <4>1, <4>2 DEF RecvEnd, RecvFails
    <3> QED BY <2>2, <3>1, <3>2
  <2>7. CASE ConsumeNothing
    <3>1. m_line' = m_line \o m_buf /\ m_buf' = <<>> /\ UNCHANGED <<request, entity>> /\ Serving'
      BY <2>7 DEF ConsumeNothing, requestVars, Serving
    <3> QED BY <2>2, <3>1, Together
  <2>8. CASE SkipBlank \/ ConsumeStatus \/ ConsumeHeader \/ ConsumeBlank
    <3>1. HasLine(m_buf) /\ m_line' = <<>> /\ m_buf' = RestOfBuf /\ entity' = entity /\ Serving'
      BY <2>8 DEF SkipBlank, ConsumeStatus, ConsumeHeader, ConsumeBlank, TakeLine, RefuseRequest, Serving
    <3>2. request' = request \/ request' = request \o NextLine
      BY <2>8 DEF SkipBlank, ConsumeStatus, ConsumeHeader, ConsumeBlank, ReadAsRequest
    <3>3. request \o NextLine \in mine
      BY <2>1, <2>2, <3>1, OwnedLine, Together
    <3> QED BY <2>1, <2>2, <3>1, <3>2, <3>3, OwnedLine
  <2>9. CASE AnswerError \/ AnswerAtOnce \/ StartEntity \/ EndDocument
    <3>1. UNCHANGED <<m_line, m_buf, request, entity>> /\ Serving'
      BY <2>9 DEF AnswerError, AnswerAtOnce, StartEntity, EndDocument, Answer, requestVars, Serving
    <3> QED BY <2>2, <3>1
  <2>10. CASE EntityFromBuffer
    <3> DEFINE n == Smaller(EntityBuf, Len(m_buf))
               a == SubSeq(m_buf, 1, n)
    <3>1. entity' = entity \o a /\ m_buf' = SubSeq(m_buf, n + 1, Len(m_buf)) /\ UNCHANGED <<m_line, request>> /\ Serving'
      BY <2>10 DEF EntityFromBuffer, Flush, Serving
    <3>2. n \in 0 .. Len(m_buf)
      BY Taken
    <3>3. a \in mine /\ m_buf' \in mine
      <4> HIDE DEF n
      <4> QED BY <2>2, <3>1, <3>2, Split
    <3>4. entity' \in mine
      <4> HIDE DEF a
      <4> QED BY <2>2, <3>1, <3>3, Together
    <3> QED BY <2>2, <3>1, <3>3, <3>4
  <2>11. CASE EntityFromRecv
    <3>1. PICK n \in 1 .. Smaller(EntityBuf, Len(wire[conn])) : entity' = entity \o Received(n)
      BY <2>11 DEF EntityFromRecv, Flush
    <3>2. n \in 1 .. Len(wire[conn])
      BY <2>1, Taken
    <3>3. entity' \in mine
      BY <2>1, <2>2, <3>1, <3>2, Receives, Together
    <3>4. UNCHANGED <<m_line, m_buf, request>> /\ Serving'
      BY <2>11 DEF EntityFromRecv, Serving
    <3> QED BY <2>2, <3>3, <3>4
  <2>12. CASE NextRequest
    <3>1. m_buf' = m_buf /\ Serving'
      BY <2>12 DEF NextRequest, Serving
    <3>2. \/ UNCHANGED <<m_line, request, entity>>
          \/ m_line' = <<>> /\ request' = <<>> /\ entity' = <<>>
      BY <2>12 DEF NextRequest, ResetRequest, requestVars
    <3> QED BY <2>2, <3>1, <3>2
  <2>13. CASE EndTask
    BY <2>2, <2>13 DEF EndTask, requestVars
  <2>14. CASE ServeAnother
    BY <2>2, <2>14 DEF ServeAnother, requestVars
  <2> QED BY <1>4, <2>6, <2>7, <2>8, <2>9, <2>10, <2>11, <2>12, <2>13, <2>14 DEF ThreadNext
<1> QED BY <1>2, <1>3, <1>4 DEF SessionNext, Over

-----------------------------------------------------------------------------
(* What clients may ask for, for their answers to match.                   *)

\* Either requests have no entity, or clients wait for their answers and those
\* whose entity may not be read to its end ask for the connection to be closed.
EntitiesAreRead ==
    \/ \A k \in Kinds : k.entity = 0
    \/ ~Pipelining /\ \A k \in Kinds : k.entity > 0 => k.resource = "put" \/ k.close

\* Each client has a thread of its own; or it leaves nothing in the thread's buffer:
\* it waits for its answers, stays, and makes requests that are read whole, a
\* program's with one call.
NothingIsLeft ==
    MayServeOn =>
        /\ ~Pipelining /\ ~MayClose
        /\ \A k \in Kinds : /\ k.good /\ BlankLine + k.entity < MaxMetadata
                            /\ k.resource = "file" => k.entity = 0
                            /\ k.resource = "cgi"  => k.entity <= EntityBuf

-----------------------------------------------------------------------------
(* The inductive invariant.                                                *)

\* s are the tokens from t up to u.
Run(s, t, u) ==
    IF s = <<>> THEN t = u
                ELSE /\ s[1] = t /\ After(s[Len(s)]) = u
                     /\ \A k \in 1 .. Len(s) - 1 : s[k + 1] = After(s[k])

\* The request the client waits for the answer of, and what it has sent of it and
\* what follows.
Current == Len(answers[conn]) + 1
Pending == m_buf \o wire[conn]
PendingFrom(t) == Run(Pending, t, next[conn])

\* What its head is made of.
Heads == {Start(conn, Current)} \cup {Token(conn, Current, p) : p \in StatusLine .. BlankLine}

\* What was read of the request while its lines are read, and what is expected.
Expected(t) ==
    LET i == Current
    IN  \/ /\ state = "STUSLINES" /\ request = <<>> /\ header = NoHeader
           /\ t \in {Start(conn, i), Token(conn, i, StatusLine)}
        \/ /\ state = "HDRLINES" /\ request = <<Token(conn, i, StatusLine)>> /\ header = NoHeader
           /\ t = Token(conn, i, HeaderLine)
        \/ /\ state = "HDRLINES" /\ header = Token(conn, i, HeaderLine)
           /\ request = <<Token(conn, i, StatusLine), Token(conn, i, HeaderLine)>>
           /\ t = Token(conn, i, BlankLine)

ReadingInv ==
    Reading =>
        /\ ~done /\ m_line = <<>> /\ entity = <<>>
        /\ \E t \in Heads : Expected(t) /\ PendingFrom(t) /\ (MayServeOn => total <= t.place + Len(m_buf))
        /\ total + Len(wire[conn]) <= sent[conn]

\* The head of the request was read, and entity of its entity.
EntityInv ==
    pc \in {"document", "entity"} /\ ~done =>
        LET i == Current
        IN  /\ m_line = <<>> /\ request = Head3(conn, i) /\ header = Token(conn, i, HeaderLine)
            /\ PendingFrom(After(Token(conn, i, BlankLine + Len(entity))))
            /\ \A k \in 1 .. Len(entity) : entity[k] = Token(conn, i, BlankLine + k)
            /\ pc = "document" => entity = <<>>
            /\ pc = "entity" => /\ Len(entity) + in_size = asks[conn][i].entity
                                /\ asks[conn][i].entity > 0 /\ asks[conn][i].resource # "file"
                                /\ (MayServeOn /\ asks[conn][i].resource = "cgi" /\ entity # <<>>)
                                        => m_buf = <<>>

\* An answer that leaves the connection open leaves the next request whole.
AfterInv ==
    /\ pc = "after" /\ ~done =>
            LET i == Len(answers[conn])
            IN  /\ header = Token(conn, i, HeaderLine) /\ header # NoHeader
                /\ asks[conn][i].close \/ PendingFrom(Start(conn, i + 1))
    /\ (MayServeOn /\ pc \in {"after", "release"}) \/ ~Serving => m_buf = <<>>

\* What goes wrong is the client's doing, and does not happen to those a thread
\* serves on.
ErrorInv ==
    /\ pc = "entity" => ~done
    /\ done /\ pc = "document" =>
            shut[conn] \/ ~asks[conn][Current].good \/ sent[conn] > MaxMetadata
    /\ MayServeOn => /\ pc \in {"document", "after"} => ~done
                     /\ \A c \in Conns : shut[c] => c < conn \/ (c = conn /\ ~Serving)

\* The clients that come, and those that wait for their answers.
ClientInv ==
    /\ \A c \in Conns : c > conn => next[c] = Start(c, 1) /\ wire[c] = <<>> /\ answers[c] = <<>>
    /\ \A c \in Conns : Len(wire[c]) <= sent[c]
    /\ ~Pipelining /\ Serving => \A k \in 1 .. Len(Pending) : Pending[k].req <= Current

SessionInv == Typed /\ ReadingInv /\ EntityInv /\ AfterInv /\ ErrorInv /\ ClientInv /\ AnswersMatch

LEMMA RunOf ==
    ASSUME asks' = asks
    PROVE  /\ (Pending' = Pending /\ UNCHANGED <<next, conn>>) => \A t : PendingFrom(t)' = PendingFrom(t)
           /\ \A s, u : s = Pending' /\ u = next[conn]' => \A t : PendingFrom(t)' = Run(s, t, u)
<1>1. ASSUME NEW s, NEW u, s = Pending', u = next[conn]', NEW t
      PROVE  PendingFrom(t)' = Run(s, t, u)
  BY <1>1 DEF PendingFrom, Pending, Run, After, KindOf, Start, Token
<1>2. ASSUME Pending' = Pending, UNCHANGED <<next, conn>>, NEW t
      PROVE  PendingFrom(t)' = PendingFrom(t)
  <2>1. PendingFrom(t)' = Run(Pending, t, next[conn])
    BY <1>1, <1>2
  <2> QED BY <2>1 DEF PendingFrom
<1> QED BY <1>1, <1>2

\* What follows the first n tokens.
LEMMA RunRest ==
    ASSUME NEW s \in Seq(Real), NEW t, NEW u, Run(s, t, u), NEW n \in 1 .. Len(s)
    PROVE  s[1] = t /\ Run(SubSeq(s, n + 1, Len(s)), After(s[n]), u)
<1> DEFINE b == SubSeq(s, n + 1, Len(s))
<1>1. Len(s) \in Nat /\ n \in Nat /\ n >= 1 /\ n \in 0 .. Len(s)
  BY LenProperties
<1>2. b \in Seq(Real) /\ Len(b) = Len(s) - n /\ \A i \in 1 .. Len(s) - n : b[i] = s[n + i]
  BY <1>1, Split
<1>3. s # <<>>
  BY <1>1, EmptySeq
<1>4. s[1] = t /\ After(s[Len(s)]) = u /\ \A k \in 1 .. Len(s) - 1 : s[k + 1] = After(s[k])
  BY <1>3 DEF Run
<1> HIDE DEF b
<1>5. CASE n = Len(s)
  <2>1. b = <<>>
    BY <1>1, <1>2, <1>5, EmptySeq
  <2> QED BY <1>4, <1>5, <2>1 DEF Run, b
<1>6. CASE n < Len(s)
  <2> DEFINE l == Len(s) - n
  <2>0. l \in Nat /\ l >= 1 /\ 1 \in 1 .. l /\ l \in 1 .. l /\ n + l = Len(s) /\ n \in 1 .. Len(s) - 1
    BY <1>1, <1>6
  <2>1. b # <<>> /\ b[1] = s[n + 1] /\ b[Len(b)] = s[Len(s)] /\ n \in 1 .. Len(s) - 1
    <3>1. Len(b) = l /\ \A i \in 1 .. l : b[i] = s[n + i]
      BY <1>2
    <3> HIDE DEF l
    <3> QED BY <2>0, <3>1, EmptySeq
  <2>2. \A k \in 1 .. Len(b) - 1 : b[k + 1] = After(b[k])
    <3> TAKE k \in 1 .. Len(b) - 1
    <3>1. k \in 1 .. Len(s) - n /\ k + 1 \in 1 .. Len(s) - n /\ n + k \in 1 .. Len(s) - 1 /\ n + (k + 1) = (n + k) + 1
      BY <1>1, <1>2
    <3> QED BY <1>2, <1>4, <3>1
  <2>3. b[1] = After(s[n])
    BY <1>4, <2>1
  <2>4. Run(b, After(s[n]), u)
    BY <1>4, <2>1, <2>2, <2>3 DEF Run
  <2> QED BY <1>4, <2>4 DEF b
<1> QED BY <1>1, <1>5, <1>6

\* Tokens are sent one after the other.
LEMMA RunOn ==
    ASSUME NEW s \in Seq(Real), NEW t, NEW u \in Real, Run(s, t, u)
    PROVE  Run(Append(s, u), t, After(u))
<1> DEFINE a == Append(s, u)
<1>1. /\ a \in Seq(Real) /\ Len(a) = Len(s) + 1 /\ Len(s) \in Nat
      /\ \A i \in 1 .. Len(s) : a[i] = s[i]
      /\ a[Len(s) + 1] = u /\ a # <<>>
  BY AppendProperties, LenProperties, EmptySeq
<1> HIDE DEF a
<1>2. CASE s = <<>>
  <2>1. t = u /\ Len(s) = 0
    BY <1>2, EmptySeq DEF Run
  <2>2. a[1] = t /\ After(a[Len(a)]) = After(u) /\ \A k \in 1 .. Len(a) - 1 : a[k + 1] = After(a[k])
    BY <1>1, <2>1
  <2> QED BY <1>1, <2>2 DEF Run, a
<1>3. CASE s # <<>>
  <2>1. s[1] = t /\ After(s[Len(s)]) = u /\ (\A k \in 1 .. Len(s) - 1 : s[k + 1] = After(s[k])) /\ Len(s) >= 1
    BY <1>1, <1>3, EmptySeq DEF Run
  <2>2. a[1] = t /\ After(a[Len(a)]) = After(u)
    BY <1>1, <2>1
  <2>3. \A k \in 1 .. Len(a) - 1 : a[k + 1] = After(a[k])
    <3> TAKE k \in 1 .. Len(a) - 1
    <3>1. CASE k = Len(s)
      BY <1>1, <2>1, <3>1
    <3>2. CASE k # Len(s)
      <4>1. k \in 1 .. Len(s) - 1 /\ k \in 1 .. Len(s) /\ k + 1 \in 1 .. Len(s)
        BY <1>1, <3>2
      <4> QED BY <1>1, <2>1, <4>1
    <3> QED BY <3>1, <3>2
  <2> QED BY <1>1, <2>2, <2>3 DEF Run, a
<1> QED BY <1>2, <1>3

\* What a client sends before it goes on to the next request is the request.
LEMMA SameRequest ==
    ASSUME Typed, NEW s \in Seq(Real), NEW c, NEW i, NEW p, NEW u, Run(s, Token(c, i, p), u),
           \A k \in 1 .. Len(s) : s[k].req <= i
    PROVE  \A k \in 1 .. Len(s) : s[k] = Token(c, i, p + k - 1)
<1> DEFINE other == {k \in 1 .. Len(s) : s[k] # Token(c, i, p + k - 1)}
<1> SUFFICES ASSUME other # {} PROVE FALSE
  OBVIOUS
<1>1. Len(s) \in Nat /\ \A k \in 1 .. Len(s) : s[k] \in Real
  BY LenProperties, ElementOfSeq
<1>2. s # <<>> /\ 1 \in 1 .. Len(s)
  BY <1>1, EmptySeq
<1>3. s[1] = Token(c, i, p) /\ \A k \in 1 .. Len(s) - 1 : s[k + 1] = After(s[k])
  BY <1>2 DEF Run
<1>4. c \in Conns /\ i \in Nat \ {0} /\ i \in 1 .. Len(asks[c]) /\ p \in Nat
  <2>1. s[1] \in Real
    BY <1>1, <1>2
  <2>2. s[1].conn = c /\ s[1].req = i /\ s[1].place = p
    BY <1>3 DEF Token
  <2>3. c \in Conns /\ i \in 1 .. Len(asks[c]) /\ p \in Nat
    BY <2>1, <2>2, RealOnes
  <2> QED BY <2>3, KindsAsked
<1>5. PICK n \in other : \A k \in other : n <= k
  <2>1. other \in SUBSET Nat /\ other # {}
    BY <1>1
  <2> HIDE DEF other
  <2> QED BY <2>1, SmallestPlace
<1>6. n \in 1 .. Len(s) /\ s[n] # Token(c, i, p + n - 1)
  BY <1>5
<1>7. n # 1
  <2>1. p + 1 - 1 = p
    BY <1>4
  <2> QED BY <1>3, <1>6, <2>1
<1> DEFINE m == n - 1
<1>8. m \in 1 .. Len(s) - 1 /\ m \in 1 .. Len(s) /\ m + 1 = n /\ m \notin other
  <2>1. m \in 1 .. Len(s) - 1 /\ m \in 1 .. Len(s) /\ m + 1 = n /\ ~(n <= m)
    BY <1>1, <1>6, <1>7
  <2> QED BY <1>5, <2>1
<1>9. s[m] = Token(c, i, p + m - 1) /\ s[n] = After(s[m]) /\ s[m] \in Real
  BY <1>1, <1>3, <1>8
<1>10. s[m].conn = c /\ s[m].req = i /\ s[m].place = p + m - 1
  BY <1>9 DEF Token
<1>11. CASE s[m].place < BlankLine + KindOf(s[m]).entity
  <2>1. s[n] = Token(c, i, (p + m - 1) + 1)
    BY <1>9, <1>10, <1>11, Follows
  <2>2. (p + m - 1) + 1 = p + n - 1
    BY <1>1, <1>4, <1>8
  <2> QED BY <1>6, <2>1, <2>2
<1>12. CASE s[m].place = BlankLine + KindOf(s[m]).entity
  <2>1. s[n] = Start(c, i + 1)
    BY <1>9, <1>10, <1>12, Follows
  <2>2. s[n].req = i + 1
    BY <2>1 DEF Start, Token
  <2> QED BY <1>4, <1>6, <2>2
<1>13. s[m].place <= BlankLine + KindOf(s[m]).entity /\ s[m].place \in Nat /\ BlankLine + KindOf(s[m]).entity \in Nat
  BY <1>9, RealOnes DEF BlankLine
<1> QED BY <1>11, <1>12, <1>13

-----------------------------------------------------------------------------
(* What is pending of the client.                                          *)

LEMMA PendingReal ==
    ASSUME Typed, conn \in Conns
    PROVE  /\ m_buf \in Seq(Real) /\ wire[conn] \in Seq(Real) /\ Pending \in Seq(Real)
           /\ Len(m_buf) \in Nat /\ Len(wire[conn]) \in Nat /\ Len(Pending) = Len(m_buf) + Len(wire[conn])
           /\ \A k \in 1 .. Len(m_buf) : Pending[k] = m_buf[k]
           /\ \A k \in 1 .. Len(wire[conn]) : Pending[Len(m_buf) + k] = wire[conn][k]
           /\ \A k \in 1 .. Len(Pending) : Pending[k] \in Real
<1>1. m_buf \in Seq(Real) /\ wire[conn] \in Seq(Real)
  BY Owned DEF Typed
<1>2. /\ Pending \in Seq(Real) /\ Len(m_buf) \in Nat /\ Len(wire[conn]) \in Nat
      /\ Len(Pending) = Len(m_buf) + Len(wire[conn])
      /\ \A k \in 1 .. Len(m_buf) + Len(wire[conn]) :
            Pending[k] = IF k <= Len(m_buf) THEN m_buf[k] ELSE wire[conn][k - Len(m_buf)]
  BY <1>1, Together DEF Pending
<1>3. \A k \in 1 .. Len(m_buf) : Pending[k] = m_buf[k]
  BY <1>2
<1>4. \A k \in 1 .. Len(wire[conn]) : Pending[Len(m_buf) + k] = wire[conn][k]
  <2> TAKE k \in 1 .. Len(wire[conn])
  <2>1. Len(m_buf) + k \in 1 .. Len(m_buf) + Len(wire[conn]) /\ ~(Len(m_buf) + k <= Len(m_buf)) /\ (Len(m_buf) + k) - Len(m_buf) = k
    BY <1>2
  <2> QED BY <1>2, <2>1
<1> QED BY <1>1, <1>2, <1>3, <1>4, ElementOfSeq

LEMMA Regroup ==
    \A s, t, u \in Seq(Real) : (s \o t) \o u = s \o (t \o u)
<1> TAKE s, t, u \in Seq(Real)
<1> QED BY ConcatAssociative

\* recv moves tokens into the buffer of the reader, in order.
LEMMA PendingReceived ==
    ASSUME Typed, conn \in Conns, conn' = conn, NEW n \in 1 .. Len(wire[conn]), Receive(n),
           m_buf' = m_buf \o Received(n)
    PROVE  Pending' = Pending /\ Len(m_buf') = Len(m_buf) + n
<1> DEFINE w == wire[conn]
           a == SubSeq(w, 1, n)
           b == SubSeq(w, n + 1, Len(w))
<1>1. w \in Seq(Real) /\ m_buf \in Seq(Real) /\ Len(w) \in Nat /\ n \in 0 .. Len(w)
  BY PendingReal
<1> HIDE DEF w
<1>2. a \in Seq(Real) /\ b \in Seq(Real) /\ Len(a) = n
  BY <1>1, Split
<1>3. a \o b = w
  <2>1. 1 \in 1 .. Len(w) + 1 /\ n \in 1 - 1 .. Len(w) /\ Len(w) \in n .. Len(w)
    BY <1>1
  <2>2. a \o b = SubSeq(w, 1, Len(w))
    BY <1>1, <2>1, ConcatAdjacentSubSeq
  <2> QED BY <1>1, <2>2, SubSeqFull
<1>4. wire'[conn] = b
  BY DEF Receive, Typed, w
<1>5. m_buf' = m_buf \o a
  BY DEF Received, w
<1>8. Pending' = (m_buf \o a) \o b
  BY <1>4, <1>5 DEF Pending
<1> HIDE DEF a, b
<1>6. (m_buf \o a) \o b = m_buf \o w
  <2>1. (m_buf \o a) \o b = m_buf \o (a \o b)
    BY <1>1, <1>2, Regroup
  <2> QED BY <1>3, <2>1
<1>7. Len(m_buf') = Len(m_buf) + n
  BY <1>1, <1>2, <1>5, Together
<1> QED BY <1>6, <1>7, <1>8 DEF Pending, w

\* Two ways to write what stays of it.
LEMMA TailOfBoth ==
    ASSUME NEW s \in Seq(Real), NEW t \in Seq(Real), NEW n \in 0 .. Len(s)
    PROVE  SubSeq(s, n + 1, Len(s)) \o t = SubSeq(s \o t, n + 1, Len(s \o t))
<1> DEFINE b == SubSeq(s, n + 1, Len(s))
           st == s \o t
           c == SubSeq(st, n + 1, Len(st))
<1>1. /\ Len(s) \in Nat /\ n \in Nat /\ n <= Len(s) /\ Len(t) \in Nat
      /\ b \in Seq(Real) /\ Len(b) = Len(s) - n /\ \A i \in 1 .. Len(s) - n : b[i] = s[n + i]
  BY Split, LenProperties
<1>2. /\ st \in Seq(Real) /\ Len(st) = Len(s) + Len(t)
      /\ \A i \in 1 .. Len(s) + Len(t) : st[i] = IF i <= Len(s) THEN s[i] ELSE t[i - Len(s)]
  BY Together
<1> HIDE DEF b, st
<1>3. n \in 0 .. Len(st)
  BY <1>1, <1>2
<1>4. c \in Seq(Real) /\ Len(c) = Len(st) - n /\ \A i \in 1 .. Len(st) - n : c[i] = st[n + i]
  BY <1>2, <1>3, Split
<1>5. /\ b \o t \in Seq(Real) /\ Len(b \o t) = Len(b) + Len(t)
      /\ \A i \in 1 .. Len(b) + Len(t) : (b \o t)[i] = IF i <= Len(b) THEN b[i] ELSE t[i - Len(b)]
  BY <1>1, Together
<1> HIDE DEF c
<1>6. Len(b \o t) = Len(c)
  BY <1>1, <1>2, <1>4, <1>5
<1>7. \A i \in 1 .. Len(c) : (b \o t)[i] = c[i]
  <2> TAKE i \in 1 .. Len(c)
  <2>1. i \in 1 .. Len(st) - n /\ n + i \in 1 .. Len(s) + Len(t) /\ i \in 1 .. Len(b) + Len(t)
    BY <1>1, <1>2, <1>4
  <2>2. c[i] = IF n + i <= Len(s) THEN s[n + i] ELSE t[(n + i) - Len(s)]
    BY <1>2, <1>4, <2>1
  <2>3. (b \o t)[i] = IF i <= Len(b) THEN b[i] ELSE t[i - Len(b)]
    BY <1>5, <2>1
  <2>4. (i <= Len(b) <=> n + i <= Len(s)) /\ i - Len(b) = (n + i) - Len(s) /\ (i <= Len(b) => i \in 1 .. Len(s) - n)
    BY <1>1, <2>1
  <2> QED BY <1>1, <2>2, <2>3, <2>4
<1>8. b \o t = c
  BY <1>4, <1>5, <1>6, <1>7, SeqEqual
<1> QED BY <1>8 DEF b, c, st

LEMMA PendingTaken ==
    ASSUME Typed, conn \in Conns, UNCHANGED <<wire, conn>>, NEW n \in 0 .. Len(m_buf),
           m_buf' = SubSeq(m_buf, n + 1, Len(m_buf))
    PROVE  Pending' = SubSeq(Pending, n + 1, Len(Pending)) /\ n \in 0 .. Len(Pending)
<1>1. m_buf \in Seq(Real) /\ wire[conn] \in Seq(Real) /\ n \in 0 .. Len(Pending)
  BY PendingReal
<1>2. Pending' = SubSeq(m_buf, n + 1, Len(m_buf)) \o wire[conn]
  BY DEF Pending
<1> QED BY <1>1, <1>2, TailOfBoth DEF Pending

LEMMA PendingFetched ==
    ASSUME Typed, conn \in Conns, UNCHANGED <<m_buf, conn>>, m_buf = <<>>,
           NEW n \in 1 .. Len(wire[conn]), Receive(n)
    PROVE  /\ Pending' = SubSeq(Pending, n + 1, Len(Pending)) /\ n \in 1 .. Len(Pending)
           /\ Received(n) = SubSeq(Pending, 1, n)
<1>1. wire[conn] \in Seq(Real)
  BY PendingReal
<1>2. Pending = wire[conn]
  BY <1>1, ConcatEmptySeq DEF Pending
<1>3. wire'[conn] \in Seq(Real) /\ wire'[conn] = SubSeq(wire[conn], n + 1, Len(wire[conn]))
  BY Receives, Owned DEF Receive, Typed
<1>4. Pending' = wire'[conn]
  BY <1>3, ConcatEmptySeq DEF Pending
<1> QED BY <1>2, <1>3, <1>4 DEF Received

LEMMA PendingSent ==
    ASSUME Typed, conn \in Conns, ClientSends(conn)
    PROVE  Pending' = Append(Pending, next[conn]) /\ next[conn] \in Real
<1>1. next[conn] \in Real
  <2>1. Start(conn, Len(asks[conn]) + 1).req = Len(asks[conn]) + 1 /\ Len(asks[conn]) \in Nat
    BY KindsAsked, Starts
  <2>2. next[conn] # Start(conn, Len(asks[conn]) + 1)
    BY <2>1 DEF ClientSends
  <2> QED BY <2>2 DEF Typed, From
<1> DEFINE w == wire[conn]
           x == next[conn]
<1>2. m_buf \in Seq(Real) /\ w \in Seq(Real)
  BY PendingReal
<1>3. Pending' = m_buf \o Append(w, x)
  BY DEF Pending, ClientSends, Typed
<1> HIDE DEF w, x
<1>4. <<x>> \in Seq(Real)
  BY <1>1 DEF x
<1>5. m_buf \o (w \o <<x>>) = (m_buf \o w) \o <<x>>
  BY <1>2, <1>4, ConcatAssociative
<1>6. m_buf \o w \in Seq(Real)
  BY <1>2, Together
<1>7. Append(w, x) = w \o <<x>> /\ Append(m_buf \o w, x) = (m_buf \o w) \o <<x>>
  BY <1>1, <1>2, <1>6, AppendIsConcat DEF x
<1> QED BY <1>1, <1>3, <1>5, <1>7 DEF Pending, w, x

-----------------------------------------------------------------------------
(* Every step keeps the invariant.                                         *)

Matching == ReadingInv /\ EntityInv /\ AfterInv /\ ErrorInv /\ ClientInv /\ AnswersMatch

LEMMA Unmoved ==
    ASSUME UNCHANGED <<asks, conn, answers>>
    PROVE  /\ Current' = Current /\ Heads' = Heads
           /\ UNCHANGED <<state, request, header>> => \A t : Expected(t)' = Expected(t)
  BY DEF Current, Heads, Expected, Start, Token

LEMMA AnswersKept ==
    ASSUME Typed, AnswersMatch, UNCHANGED <<asks, answers>>,
           \A c \in Conns : (shut[c] => shut'[c]) /\ sent'[c] \in Nat /\ sent[c] <= sent'[c]
    PROVE  AnswersMatch'
<1>1. \A c \in Conns : sent[c] \in Nat /\ MaxMetadata \in Nat
  BY Sizes DEF Typed
<1>2. \A c \in Conns : sent[c] > MaxMetadata => sent'[c] > MaxMetadata
  BY <1>1
<1> QED BY <1>2 DEF AnswersMatch, Head3, Token

LEMMA SendsKeeps ==
    ASSUME SessionInv, NEW c \in Conns, ClientSends(c)
    PROVE  Matching'
<1>1. Typed /\ ReadingInv /\ EntityInv /\ AfterInv /\ ErrorInv /\ ClientInv /\ AnswersMatch /\ c = conn /\ conn \in Conns
  BY DEF SessionInv, ClientSends
<1>2. UNCHANGED <<asks, shut, answers, conn, pc, m_line, m_buf, state, header, request, total, in_size, entity, done>>
  BY DEF ClientSends, requestVars
<1>3. /\ \A d \in Conns \ {conn} : next'[d] = next[d] /\ wire'[d] = wire[d] /\ sent'[d] = sent[d]
      /\ next'[conn] = After(next[conn]) /\ wire'[conn] = Append(wire[conn], next[conn]) /\ sent'[conn] = sent[conn] + 1
      /\ Pipelining \/ next[conn].req = Current
  BY <1>1 DEF ClientSends, Typed, Current
<1>4. Pending' = Append(Pending, next[conn]) /\ next[conn] \in Real
  BY <1>1, PendingSent
<1>5. Pending \in Seq(Real) /\ Len(wire[conn]) \in Nat /\ \A d \in Conns : Len(wire[d]) \in Nat /\ sent[d] \in Nat
  BY <1>1, PendingReal, LenProperties DEF Typed
<1>6. Len(wire'[conn]) = Len(wire[conn]) + 1
  BY <1>1, <1>3, <1>4, PendingReal, AppendProperties
<1>7. ASSUME NEW t, PendingFrom(t)
      PROVE  PendingFrom(t)'
  <2>1. Run(Append(Pending, next[conn]), t, After(next[conn]))
    BY <1>4, <1>5, <1>7, RunOn DEF PendingFrom
  <2> QED BY <1>2, <1>3, <1>4, <2>1, RunOf
<1>8. ReadingInv'
  <2> SUFFICES ASSUME Reading PROVE ReadingInv'
    BY <1>2 DEF ReadingInv, Reading
  <2>1. PICK t \in Heads : Expected(t) /\ PendingFrom(t) /\ (MayServeOn => total <= t.place + Len(m_buf))
    BY <1>1 DEF ReadingInv
  <2>2. t \in Heads' /\ Expected(t)' /\ PendingFrom(t)' /\ (MayServeOn => (total <= t.place + Len(m_buf))')
    BY <1>2, <1>7, <2>1, Unmoved
  <2>3. total + Len(wire[conn]) <= sent[conn] /\ total \in Nat
    BY <1>1, Sizes DEF ReadingInv, Typed
  <2>4. total' + Len(wire'[conn']) <= sent'[conn']
    BY <1>1, <1>2, <1>3, <1>5, <1>6, <2>3
  <2> QED BY <1>1, <1>2, <2>2, <2>4 DEF ReadingInv
<1>9. EntityInv'
  BY <1>1, <1>2, <1>7, Unmoved, NothingElseAsked DEF EntityInv, Head3, Token
<1>10. AfterInv'
  BY <1>1, <1>2, <1>7, NothingElseAsked DEF AfterInv, Token, Serving
<1>11. ErrorInv'
  <2>1. sent[conn] > MaxMetadata => sent'[conn] > MaxMetadata
    BY <1>1, <1>3, <1>5, Sizes
  <2> QED BY <1>1, <1>2, <2>1, Unmoved DEF ErrorInv, Serving
<1>12. ClientInv'
  <2>1. \A d \in Conns : d > conn => d # conn
    BY Sizes
  <2>2. \A d \in Conns : d > conn' => next'[d] = Start(d, 1)' /\ wire'[d] = <<>> /\ answers'[d] = <<>>
    BY <1>1, <1>2, <1>3, <2>1, NothingElseAsked DEF ClientInv
  <2>3. \A d \in Conns : Len(wire'[d]) <= sent'[d]
    BY <1>1, <1>3, <1>5, <1>6 DEF ClientInv
  <2>4. ASSUME ~Pipelining, Serving', NEW k \in 1 .. Len(Pending')
        PROVE  Pending'[k].req <= Current'
    <3>1. Serving /\ Current' = Current /\ Current \in Nat
      BY <1>1, <1>2, <2>4, Unmoved, LenProperties DEF Serving, Current, Typed
    <3>2. Len(Pending) \in Nat /\ Len(Pending') = Len(Pending) + 1 /\ Pending'[Len(Pending) + 1] = next[conn]
          /\ \A j \in 1 .. Len(Pending) : Pending'[j] = Pending[j]
      BY <1>4, <1>5, AppendProperties, LenProperties
    <3>3. CASE k = Len(Pending) + 1
      BY <1>3, <2>4, <3>1, <3>2, <3>3
    <3>4. CASE k # Len(Pending) + 1
      <4>1. k \in 1 .. Len(Pending)
        BY <2>4, <3>2, <3>4
      <4> QED BY <1>1, <2>4, <3>1, <3>2, <4>1 DEF ClientInv
    <3> QED BY <3>3, <3>4
  <2> QED BY <2>2, <2>3, <2>4 DEF ClientInv
<1>13. AnswersMatch'
  <2>1. \A d \in Conns : shut'[d] = shut[d] /\ sent'[d] \in Nat /\ sent[d] <= sent'[d]
    BY <1>2, <1>3, <1>5
  <2> QED BY <1>1, <1>2, <2>1, AnswersKept
<1> QED BY <1>8, <1>9, <1>10, <1>11, <1>12, <1>13 DEF Matching

LEMMA ClosesKeeps ==
    ASSUME NothingIsLeft, SessionInv, NEW c \in Conns, ClientCloses(c)
    PROVE  Matching'
<1>1. Typed /\ ReadingInv /\ EntityInv /\ AfterInv /\ ErrorInv /\ ClientInv /\ AnswersMatch /\ c = conn /\ conn \in Conns
  BY DEF SessionInv, ClientCloses
<1>2. UNCHANGED <<asks, next, sent, wire, answers, conn, pc, m_line, m_buf, state, header, request, total, in_size, entity, done>>
  BY DEF ClientCloses, requestVars
<1>3. \A d \in Conns : shut[d] => shut'[d]
  BY <1>1 DEF ClientCloses, Typed
<1>4. ~MayServeOn
  BY DEF ClientCloses, NothingIsLeft
<1>5. Pending' = Pending
  BY <1>2 DEF Pending
<1>6. \A t : PendingFrom(t)' = PendingFrom(t)
  BY <1>2, <1>5, RunOf
<1>7. ReadingInv'
  BY <1>1, <1>2, <1>4, <1>6, Unmoved DEF ReadingInv, Reading
<1>8. EntityInv'
  BY <1>1, <1>2, <1>4, <1>6, Unmoved, NothingElseAsked DEF EntityInv, Head3, Token
<1>9. AfterInv'
  BY <1>1, <1>2, <1>6, NothingElseAsked DEF AfterInv, Token, Serving
<1>10. ErrorInv'
  BY <1>1, <1>2, <1>3, <1>4, Unmoved DEF ErrorInv
<1>11. ClientInv'
  BY <1>1, <1>2, <1>5, Unmoved, NothingElseAsked DEF ClientInv, Serving
<1>12. AnswersMatch'
  <2>1. \A d \in Conns : sent'[d] \in Nat /\ sent[d] <= sent'[d]
    BY <1>1, <1>2 DEF Typed
  <2> QED BY <1>1, <1>2, <1>3, <2>1, AnswersKept
<1> QED BY <1>7, <1>8, <1>9, <1>10, <1>11, <1>12 DEF Matching

LEMMA AcceptKeeps ==
    ASSUME SessionInv, Accept
    PROVE  Matching'
<1>1. Typed /\ AfterInv /\ ErrorInv /\ ClientInv /\ AnswersMatch
  BY DEF SessionInv
<1>2. UNCHANGED <<asks, next, sent, shut, wire, answers, m_buf>> /\ pc = "accept" /\ conn < NrConns
  BY DEF Accept, clientVars
<1>3. /\ conn' = conn + 1 /\ done' = FALSE /\ pc' = "recv" /\ state' = "STUSLINES" /\ header' = NoHeader
      /\ request' = <<>> /\ total' = 0 /\ in_size' = 0 /\ entity' = <<>> /\ m_line' = <<>>
  BY DEF Accept, ResetRequest
<1> DEFINE c == conn + 1
<1>4. c \in Conns /\ c > conn /\ conn \in Nat
  BY <1>1, <1>2, Sizes DEF Conns, Typed
<1>5. next[c] = Start(c, 1) /\ wire[c] = <<>> /\ answers[c] = <<>> /\ m_buf = <<>>
  BY <1>1, <1>2, <1>4 DEF ClientInv, AfterInv, Serving
<1>6. Pending' = <<>> /\ Current' = 1
  <2>1. Pending' = m_buf \o wire[c]
    BY <1>2, <1>3 DEF Pending
  <2>2. Current' = Len(answers[c]) + 1
    BY <1>2, <1>3 DEF Current
  <2>3. <<>> \o <<>> = <<>> /\ Len(<<>>) + 1 = 1
    BY ConcatEmptySeq, EmptySeq
  <2> HIDE DEF c
  <2> QED BY <1>5, <2>1, <2>2, <2>3
<1>7. ReadingInv'
  <2>0. PICK t : t = Start(c, 1)
    OBVIOUS
  <2>1. t = Start(conn, Current)'
    BY <1>2, <1>3, <1>6, <2>0 DEF Start, Token
  <2>2. Run(<<>>, t, next[c]) /\ next[c] = next[conn]'
    BY <1>2, <1>3, <1>5, <2>0 DEF Run
  <2>3. PendingFrom(t)'
    BY <1>2, <1>6, <2>2, RunOf
  <2>4. t \in Heads' /\ Expected(t)'
    BY <1>3, <2>1 DEF Heads, Expected
  <2>5. t.place \in Nat
    BY <1>1, <1>4, <2>0, Starts DEF LeadingBlank, StatusLine
  <2>6. Len(m_buf) = 0 /\ Len(wire[c]) = 0 /\ sent[c] \in Nat
    BY <1>1, <1>4, <1>5, EmptySeq DEF Typed
  <2>7. total' <= t.place + Len(m_buf') /\ total' + Len(wire'[conn']) <= sent'[conn']
    BY <1>2, <1>3, <2>5, <2>6
  <2> QED BY <1>3, <2>3, <2>4, <2>7 DEF ReadingInv
<1>8. EntityInv' /\ AfterInv'
  BY <1>3 DEF EntityInv, AfterInv, Serving
<1>9. ErrorInv'
  <2>1. \A d \in Conns : d < conn \/ d = conn => d < conn'
    BY <1>3, <1>4, Sizes
  <2> QED BY <1>1, <1>2, <1>3, <2>1 DEF ErrorInv
<1>10. ClientInv'
  <2>1. \A d \in Conns : d > conn' => d > conn
    BY <1>3, <1>4, Sizes
  <2>2. \A k \in 1 .. Len(Pending') : FALSE
    BY <1>6, EmptySeq
  <2> QED BY <1>1, <1>2, <2>1, <2>2, NothingElseAsked DEF ClientInv
<1>11. AnswersMatch'
  <2>1. \A d \in Conns : shut'[d] = shut[d] /\ sent'[d] \in Nat /\ sent[d] <= sent'[d]
    BY <1>1, <1>2 DEF Typed
  <2> QED BY <1>1, <1>2, <2>1, AnswersKept
<1> QED BY <1>7, <1>8, <1>9, <1>10, <1>11 DEF Matching

LEMMA NoMoreKeeps ==
    ASSUME SessionInv, NoMoreClients
    PROVE  Matching'
<1>1. Typed /\ AfterInv /\ ErrorInv /\ ClientInv /\ AnswersMatch
  BY DEF SessionInv
<1>2. UNCHANGED <<asks, next, sent, shut, wire, answers, conn, m_line, m_buf, done>> /\ pc = "accept" /\ pc' = "over"
  BY DEF NoMoreClients, clientVars
<1>3. ReadingInv' /\ EntityInv' /\ AfterInv' /\ ErrorInv'
  BY <1>1, <1>2 DEF ReadingInv, Reading, EntityInv, AfterInv, ErrorInv, Serving
<1>4. ClientInv'
  BY <1>1, <1>2, NothingElseAsked DEF ClientInv, Serving
<1>5. AnswersMatch'
  <2>1. \A d \in Conns : shut'[d] = shut[d] /\ sent'[d] \in Nat /\ sent[d] <= sent'[d]
    BY <1>1, <1>2 DEF Typed
  <2> QED BY <1>1, <1>2, <2>1, AnswersKept
<1> QED BY <1>3, <1>4, <1>5 DEF Matching

\* A client that waits for its answers sends no more than the request it is at.
LEMMA PendingOfRequest ==
    ASSUME SessionInv, Serving, ~Pipelining, NEW i, NEW p, PendingFrom(Token(conn, i, p)), i = Current
    PROVE  \A k \in 1 .. Len(Pending) :
              /\ Pending[k] = Token(conn, i, p + k - 1) /\ Pending[k] \in Real
              /\ i \in 1 .. Len(asks[conn]) /\ p \in Nat /\ p + k - 1 <= BlankLine + asks[conn][i].entity
              /\ asks[conn][i] \in Kinds /\ asks[conn][i].entity \in Nat
<1>1. Typed /\ ClientInv /\ conn \in Conns
  BY DEF SessionInv, Typed
<1>2. Pending \in Seq(Real) /\ (\A k \in 1 .. Len(Pending) : Pending[k] \in Real /\ Pending[k].req <= i) /\ Len(Pending) \in Nat
  BY <1>1, PendingReal, LenProperties DEF ClientInv
<1>3. \A k \in 1 .. Len(Pending) : Pending[k] = Token(conn, i, p + k - 1)
  BY <1>1, <1>2, SameRequest DEF PendingFrom
<1> TAKE k \in 1 .. Len(Pending)
<1>4. Pending[k] = Token(conn, i, p + k - 1) /\ Pending[k] \in Real
  BY <1>2, <1>3
<1>5. Pending[k].conn = conn /\ Pending[k].req = i /\ Pending[k].place = p + k - 1
  BY <1>4 DEF Token
<1>6. /\ i \in 1 .. Len(asks[conn]) /\ KindOf(Pending[k]) = asks[conn][i]
      /\ p + k - 1 <= BlankLine + asks[conn][i].entity /\ asks[conn][i] \in Kinds /\ asks[conn][i].entity \in Nat
  BY <1>4, <1>5, RealOnes, <1>1 DEF KindOf
<1>7. p \in Nat
  <2>1. 1 \in 1 .. Len(Pending)
    BY <1>2
  <2>2. Pending[1] = Token(conn, i, p + 1 - 1) /\ Pending[1] \in Real
    BY <1>2, <1>3, <2>1
  <2>3. Run(Pending, Token(conn, i, p), next[conn]) /\ Pending # <<>>
    BY <1>2, <2>1, EmptySeq DEF PendingFrom
  <2>4. Pending[1] = Token(conn, i, p)
    BY <2>3 DEF Run
  <2>5. Pending[1].place = p
    BY <2>4 DEF Token
  <2> QED BY <1>1, <2>2, <2>5, RealOnes
<1> QED BY <1>4, <1>6, <1>7

\* The heads are tokens of the request.
LEMMA HeadsAre ==
    ASSUME Typed, conn \in Conns, NEW t \in Heads
    PROVE  /\ t = Token(conn, Current, t.place) /\ t.conn = conn /\ t.req = Current
           /\ t.place \in LeadingBlank .. BlankLine /\ t.place \in Nat /\ Current \in Nat \ {0}
<1>1. Current \in Nat \ {0}
  BY LenProperties DEF Current, Typed
<1>2. Start(conn, Current) = Token(conn, Current, Start(conn, Current).place) /\ Start(conn, Current).place \in {LeadingBlank, StatusLine}
  BY DEF Start, Token
<1>3. \A p : Token(conn, Current, p).conn = conn /\ Token(conn, Current, p).req = Current /\ Token(conn, Current, p).place = p
  BY DEF Token
<1>4. t = Token(conn, Current, t.place) /\ t.place \in LeadingBlank .. BlankLine
  <2>1. CASE t = Start(conn, Current)
    BY <1>2, <2>1 DEF LeadingBlank, StatusLine, BlankLine
  <2>2. CASE \E p \in StatusLine .. BlankLine : t = Token(conn, Current, p)
    BY <1>3, <2>2 DEF LeadingBlank, StatusLine, BlankLine
  <2> QED BY <2>1, <2>2 DEF Heads
<1> QED BY <1>1, <1>3, <1>4 DEF LeadingBlank, BlankLine

LEMMA RecvKeeps ==
    ASSUME NothingIsLeft, SessionInv, Recv
    PROVE  Matching'
<1>1. Typed /\ ReadingInv /\ ErrorInv /\ ClientInv /\ AnswersMatch /\ Serving /\ Reading /\ conn \in Conns
  BY DEF SessionInv, Recv, Serving, Reading, Typed
<1>2. UNCHANGED <<asks, next, sent, shut, answers, conn, m_line, state, header, request, in_size, entity>>
  BY DEF Recv, clientVars
<1>3. PICK n \in 1 .. Len(wire[conn]) :
            /\ Receive(n)
            /\ IF total + n > MaxMetadata
               THEN done' = TRUE /\ pc' = "document" /\ UNCHANGED <<m_buf, total>>
               ELSE /\ m_buf' = m_buf \o Received(n) /\ total' = total + n
                    /\ pc' = "consume" /\ UNCHANGED done
  BY DEF Recv
<1>4. /\ Len(wire[conn]) \in Nat /\ n \in Nat /\ n <= Len(wire[conn]) /\ wire'[conn] \in Seq(From(conn))
      /\ Len(wire'[conn]) = Len(wire[conn]) - n /\ \A d \in Conns \ {conn} : wire'[d] = wire[d]
      /\ \A i \in 1 .. Len(wire[conn]) - n : wire'[conn][i] = wire[conn][n + i]
  BY <1>1, <1>3, Receives
<1>5. total \in Nat /\ MaxMetadata \in Nat /\ sent[conn] \in Nat /\ Len(m_buf) \in Nat
  BY <1>1, Sizes, PendingReal DEF Typed
<1>6. PICK t \in Heads : Expected(t) /\ PendingFrom(t) /\ (MayServeOn => total <= t.place + Len(m_buf))
  BY <1>1 DEF ReadingInv
<1>7. ~done /\ m_line = <<>> /\ entity = <<>> /\ total + Len(wire[conn]) <= sent[conn] /\ t.place \in Nat
  BY <1>1, HeadsAre DEF ReadingInv
<1>8. \A d \in Conns : Len(wire'[d]) <= sent'[d]
  BY <1>1, <1>2, <1>4, <1>5 DEF ClientInv
<1>9. \A d \in Conns : d > conn => d # conn
  BY Sizes
<1>10. \A d \in Conns : d > conn' => next'[d] = Start(d, 1)' /\ wire'[d] = <<>> /\ answers'[d] = <<>>
  BY <1>1, <1>2, <1>4, <1>9, NothingElseAsked DEF ClientInv
<1>11. AnswersMatch'
  <2>1. \A d \in Conns : shut'[d] = shut[d] /\ sent'[d] \in Nat /\ sent[d] <= sent'[d]
    BY <1>1, <1>2 DEF Typed
  <2> QED BY <1>1, <1>2, <2>1, AnswersKept
<1>12. CASE ~(total + n > MaxMetadata)
  <2>1. m_buf' = m_buf \o Received(n) /\ total' = total + n /\ pc' = "consume" /\ done' = done
    BY <1>3, <1>12
  <2>2. Pending' = Pending /\ Len(m_buf') = Len(m_buf) + n
    BY <1>1, <1>2, <1>3, <2>1, PendingReceived
  <2>3. PendingFrom(t)'
    BY <1>2, <1>6, <2>2, RunOf
  <2>4. t \in Heads' /\ Expected(t)'
    BY <1>2, <1>6, Unmoved
  <2>5. (MayServeOn => total' <= t.place + Len(m_buf')) /\ total' + Len(wire'[conn']) <= sent'[conn']
    BY <1>2, <1>4, <1>5, <1>6, <1>7, <2>1, <2>2
  <2>6. ReadingInv'
    BY <1>2, <1>7, <2>1, <2>3, <2>4, <2>5 DEF ReadingInv
  <2>7. EntityInv' /\ AfterInv'
    BY <2>1 DEF EntityInv, AfterInv, Serving
  <2>8. ErrorInv'
    BY <1>1, <1>2, <2>1 DEF ErrorInv, Serving
  <2>9. ClientInv'
    BY <1>1, <1>2, <1>8, <1>10, <2>1, <2>2, Unmoved DEF ClientInv, Serving
  <2> QED BY <1>11, <2>6, <2>7, <2>8, <2>9 DEF Matching
<1>13. CASE total + n > MaxMetadata
  <2>1. done' = TRUE /\ pc' = "document" /\ m_buf' = m_buf /\ total' = total
    BY <1>3, <1>13
  <2>2. ReadingInv' /\ EntityInv' /\ AfterInv'
    BY <2>1 DEF ReadingInv, Reading, EntityInv, AfterInv, Serving
  <2>3. sent[conn] > MaxMetadata
    BY <1>4, <1>5, <1>7, <1>13
  <2>4. ~MayServeOn
    <3> SUFFICES ASSUME MayServeOn PROVE FALSE
      OBVIOUS
    <3> DEFINE k == Len(m_buf) + n
    <3>1. ~Pipelining /\ \A kind \in Kinds : BlankLine + kind.entity < MaxMetadata
      BY DEF NothingIsLeft
    <3>2. k \in 1 .. Len(Pending) /\ total + n <= t.place + k
      <4>1. Len(Pending) = Len(m_buf) + Len(wire[conn])
        BY <1>1, PendingReal
      <4>2. total <= t.place + Len(m_buf) /\ t.place \in Nat
        BY <1>6, <1>7
      <4>3. n \in Nat /\ 1 <= n /\ n <= Len(wire[conn]) /\ Len(wire[conn]) \in Nat
        BY <1>4
      <4>4. k \in 1 .. Len(Pending)
        BY <1>5, <4>1, <4>3
      <4>5. total + n <= t.place + k
        BY <1>5, <4>2, <4>3
      <4> QED BY <4>4, <4>5
    <3>3. t = Token(conn, Current, t.place)
      BY <1>1, HeadsAre
    <3> HIDE DEF k
    <3>4. /\ t.place + k - 1 <= BlankLine + asks[conn][Current].entity
          /\ asks[conn][Current] \in Kinds /\ asks[conn][Current].entity \in Nat
      BY <1>1, <1>6, <3>1, <3>2, <3>3, PendingOfRequest
    <3>5. BlankLine + asks[conn][Current].entity < MaxMetadata /\ k \in Int
      BY <3>1, <3>2, <3>4
    <3>6. /\ total \in Nat /\ n \in Nat /\ t.place \in Nat /\ MaxMetadata \in Nat
          /\ BlankLine + asks[conn][Current].entity \in Nat
      <4>1. total \in Nat /\ n \in Nat /\ t.place \in Nat /\ MaxMetadata \in Nat
        BY <1>4, <1>5, <1>7
      <4>2. asks[conn][Current].entity \in Nat
        BY <3>4
      <4>3. BlankLine + asks[conn][Current].entity \in Nat
        BY <4>2 DEF BlankLine
      <4> QED BY <4>1, <4>3
    <3>7. total + n <= BlankLine + asks[conn][Current].entity + 1
      <4> DEFINE a == total + n
                 e == BlankLine + asks[conn][Current].entity
                 p == t.place
      <4>1. a \in Int /\ e \in Int /\ p \in Int /\ k \in Int /\ a <= p + k /\ p + k - 1 <= e
        BY <3>2, <3>4, <3>5, <3>6
      <4> HIDE DEF a, e, p
      <4>2. a <= e + 1
        BY <4>1
      <4> QED BY <4>2 DEF a, e
    <3> QED BY <1>13, <3>5, <3>6, <3>7
  <2>5. ErrorInv'
    BY <1>1, <1>2, <2>1, <2>3, <2>4 DEF ErrorInv
  <2>6. ASSUME ~Pipelining, NEW k \in 1 .. Len(Pending')
        PROVE  Pending'[k].req <= Current'
    <3>1. /\ Len(Pending') = Len(m_buf) + Len(wire'[conn])
          /\ Pending'[k] = IF k <= Len(m_buf) THEN m_buf[k] ELSE wire'[conn][k - Len(m_buf)]
      <4>1. Pending' = m_buf \o wire'[conn] /\ m_buf \in Seq(Real) /\ wire'[conn] \in Seq(Real)
        BY <1>1, <1>2, <1>4, <2>1, PendingReal, Owned DEF Pending
      <4>2. /\ Len(m_buf \o wire'[conn]) = Len(m_buf) + Len(wire'[conn])
            /\ \A i \in 1 .. Len(m_buf) + Len(wire'[conn]) :
                  (m_buf \o wire'[conn])[i] = IF i <= Len(m_buf) THEN m_buf[i] ELSE wire'[conn][i - Len(m_buf)]
        BY <4>1, Together
      <4> QED BY <2>6, <4>1, <4>2
    <3>2. Current' = Current /\ \A j \in 1 .. Len(Pending) : Pending[j].req <= Current
      BY <1>1, <1>2, <2>6, Unmoved DEF ClientInv
    <3>3. CASE k <= Len(m_buf)
      <4>1. k \in 1 .. Len(m_buf) /\ k \in 1 .. Len(Pending)
        BY <1>1, <1>4, <1>5, <2>6, <3>3, PendingReal
      <4>2. Pending'[k] = Pending[k]
        BY <1>1, <3>1, <3>3, <4>1, PendingReal
      <4> QED BY <3>2, <4>1, <4>2
    <3>4. CASE ~(k <= Len(m_buf))
      <4> DEFINE j == k - Len(m_buf)
      <4>1. /\ j \in 1 .. Len(wire[conn]) - n /\ n + j \in 1 .. Len(wire[conn])
            /\ Len(m_buf) + (n + j) \in 1 .. Len(m_buf) + Len(wire[conn])
        BY <1>4, <1>5, <2>6, <3>1, <3>4
      <4>2. Pending'[k] = wire'[conn][j]
        BY <3>1, <3>4
      <4> HIDE DEF j
      <4>3. Pending'[k] = Pending[Len(m_buf) + (n + j)] /\ Len(m_buf) + (n + j) \in 1 .. Len(Pending)
        BY <1>1, <1>4, <4>1, <4>2, PendingReal
      <4> QED BY <3>2, <4>3
    <3> QED BY <3>3, <3>4
  <2>7. ClientInv'
    BY <1>8, <1>10, <2>6 DEF ClientInv
  <2> QED BY <1>11, <2>2, <2>5, <2>7 DEF Matching
<1> QED BY <1>12, <1>13

LEMMA RecvEndKeeps ==
    ASSUME NothingIsLeft, SessionInv, RecvEnd \/ RecvFails
    PROVE  Matching'
<1>1. /\ Typed /\ ReadingInv /\ ErrorInv /\ ClientInv /\ AnswersMatch /\ conn \in Conns
      /\ pc = "recv" /\ Serving /\ Reading /\ shut[conn]
  BY DEF SessionInv, RecvEnd, RecvFails, Serving, Reading, Typed
<1>2. UNCHANGED <<asks, next, sent, shut, wire, answers, conn, m_line, m_buf, state, header, request, total, in_size, entity>>
  BY DEF RecvEnd, RecvFails, clientVars, requestVars
<1>3. Pending' = Pending /\ \A t : PendingFrom(t)' = PendingFrom(t)
  BY <1>2, RunOf DEF Pending
<1>4. (pc' = "consume" /\ done' = done) \/ (pc' = "document" /\ done' = TRUE)
  BY DEF RecvEnd, RecvFails
<1>5. ReadingInv'
  BY <1>1, <1>2, <1>3, <1>4, Unmoved DEF ReadingInv, Reading
<1>6. EntityInv' /\ AfterInv'
  BY <1>4 DEF EntityInv, AfterInv, Serving
<1>7. ~MayServeOn
  BY <1>1, Sizes DEF ErrorInv
<1>8. ErrorInv'
  BY <1>1, <1>2, <1>4, <1>7 DEF ErrorInv
<1>9. ClientInv'
  BY <1>1, <1>2, <1>3, <1>4, Unmoved, NothingElseAsked DEF ClientInv
<1>10. AnswersMatch'
  <2>1. \A d \in Conns : shut'[d] = shut[d] /\ sent'[d] \in Nat /\ sent[d] <= sent'[d]
    BY <1>1, <1>2 DEF Typed
  <2> QED BY <1>1, <1>2, <2>1, AnswersKept
<1> QED BY <1>5, <1>6, <1>8, <1>9, <1>10 DEF Matching

\* What is taken of the pending tokens leaves the rest as it was sent.
LEMMA ClientsKept ==
    ASSUME SessionInv, Serving, UNCHANGED <<asks, next, sent, answers, conn>>,
           \A d \in Conns : Len(wire'[d]) <= Len(wire[d]) /\ Len(wire'[d]) \in Nat,
           \A d \in Conns \ {conn} : wire'[d] = wire[d],
           NEW n \in 0 .. Len(Pending), Pending' = SubSeq(Pending, n + 1, Len(Pending))
    PROVE  ClientInv'
<1>1. Typed /\ ClientInv /\ conn \in Conns
  BY DEF SessionInv, Typed
<1>2. \A d \in Conns : Len(wire'[d]) <= sent'[d]
  <2> TAKE d \in Conns
  <2>1. Len(wire[d]) <= sent[d] /\ Len(wire[d]) \in Nat /\ sent[d] \in Nat /\ Len(wire'[d]) <= Len(wire[d]) /\ Len(wire'[d]) \in Nat
    BY <1>1, LenProperties DEF ClientInv, Typed
  <2> QED BY <2>1
<1>3. \A d \in Conns : d > conn => d # conn
  BY Sizes
<1>4. \A d \in Conns : d > conn' => next'[d] = Start(d, 1)' /\ wire'[d] = <<>> /\ answers'[d] = <<>>
  BY <1>1, <1>3, NothingElseAsked DEF ClientInv
<1>5. ASSUME ~Pipelining, NEW k \in 1 .. Len(Pending')
      PROVE  Pending'[k].req <= Current'
  <2>1. Pending \in Seq(Real) /\ Len(Pending) \in Nat
    BY <1>1, PendingReal, LenProperties
  <2>2. Len(Pending') = Len(Pending) - n /\ \A i \in 1 .. Len(Pending) - n : Pending'[i] = Pending[n + i]
    BY <2>1, Split
  <2>3. n + k \in 1 .. Len(Pending) /\ Pending'[k] = Pending[n + k]
    BY <1>5, <2>1, <2>2
  <2>4. Current' = Current
    BY Unmoved
  <2> QED BY <1>1, <1>5, <2>3, <2>4 DEF ClientInv
<1> QED BY <1>2, <1>4, <1>5 DEF ClientInv

\* The line from_buffer returns is the next token of the head, without anything
\* before it.
LEMMA LineTaken ==
    ASSUME SessionInv, TakeLine, NEW t \in Heads, Expected(t), PendingFrom(t)
    PROVE  /\ NextLine = <<t>> /\ NextLine[1] = t /\ Len(NextLine) = 1
           /\ t \in Real /\ t = Token(conn, Current, t.place) /\ t.place \in LeadingBlank .. BlankLine
           /\ Current \in 1 .. Len(asks[conn]) /\ KindOf(t) = asks[conn][Current]
           /\ asks[conn][Current] \in Kinds /\ asks[conn][Current].entity \in Nat
           /\ Len(m_buf') = Len(m_buf) - 1 /\ Len(m_buf) \in Nat
           /\ ClientInv'
           /\ \A u : u = After(t) => PendingFrom(u)'
           /\ \A u : t.place < BlankLine /\ u = Token(conn, Current, t.place + 1) => PendingFrom(u)'
<1>1. /\ Typed /\ ReadingInv /\ conn \in Conns /\ Serving /\ Reading /\ m_line = <<>>
      /\ HasLine(m_buf) /\ m_buf' = RestOfBuf
      /\ UNCHANGED <<asks, next, sent, answers, wire, conn>>
  BY DEF SessionInv, TakeLine, ReadingInv, Reading, Serving, Typed, clientVars
<1>2. m_buf \in Seq(Real) /\ Pending \in Seq(Real) /\ Len(m_buf) \in Nat /\ Len(Pending) = Len(m_buf) + Len(wire[conn])
      /\ Len(wire[conn]) \in Nat /\ (\A k \in 1 .. Len(m_buf) : Pending[k] = m_buf[k]) /\ \A k \in 1 .. Len(Pending) : Pending[k] \in Real
  BY <1>1, PendingReal
<1>3. /\ FirstLine(m_buf) \in 1 .. Len(m_buf) /\ IsLine(m_buf[FirstLine(m_buf)])
      /\ \A j \in 1 .. FirstLine(m_buf) - 1 : ~IsLine(m_buf[j])
  BY <1>1, <1>2, FirstLineIs
<1>4. 1 \in 1 .. Len(m_buf) /\ 1 \in 1 .. Len(Pending) /\ 1 \in 0 .. Len(m_buf) /\ 1 \in 0 .. Len(Pending)
  BY <1>2, <1>3
<1>5. Pending[1] = t /\ m_buf[1] = t /\ t \in Real
  BY <1>2, <1>4, RunRest DEF PendingFrom
<1>6. t = Token(conn, Current, t.place) /\ t.conn = conn /\ t.req = Current /\ t.place \in LeadingBlank .. BlankLine /\ t.place \in Nat
  BY <1>1, HeadsAre
<1>7. FirstLine(m_buf) = 1
  <2>1. IsLine(m_buf[1])
    BY <1>5, <1>6 DEF IsLine, LeadingBlank, BlankLine
  <2> QED BY <1>2, <1>3, <2>1
<1>8. NextLine = <<t>>
  <2>1. SubSeq(m_buf, 1, 1) \in Seq(Real) /\ Len(SubSeq(m_buf, 1, 1)) = 1 /\ SubSeq(m_buf, 1, 1)[1] = m_buf[1]
    BY <1>2, <1>4, Split
  <2>2. SubSeq(m_buf, 1, 1) = <<t>>
    <3>1. <<t>> \in Seq(Real) /\ Len(<<t>>) = 1 /\ \A i \in 1 .. 1 : SubSeq(m_buf, 1, 1)[i] = <<t>>[i]
      BY <1>5, <2>1
    <3> QED BY <2>1, <3>1, SeqEqual
  <2>3. <<>> \o <<t>> = <<t>>
    BY <1>5, ConcatEmptySeq
  <2> QED BY <1>1, <1>7, <2>2, <2>3 DEF NextLine
<1>9. m_buf' = SubSeq(m_buf, 1 + 1, Len(m_buf)) /\ Len(m_buf') = Len(m_buf) - 1
  <2>1. m_buf' = SubSeq(m_buf, 1 + 1, Len(m_buf))
    BY <1>1, <1>7 DEF RestOfBuf
  <2> QED BY <1>2, <1>4, <2>1, Split
<1>10. Pending' = SubSeq(Pending, 1 + 1, Len(Pending))
  BY <1>1, <1>4, <1>9, PendingTaken
<1>11. ClientInv'
  <2>1. \A d \in Conns : wire'[d] = wire[d] /\ Len(wire'[d]) <= Len(wire[d]) /\ Len(wire'[d]) \in Nat
    BY <1>1, LenProperties DEF Typed
  <2> QED BY <1>1, <1>4, <1>10, <2>1, ClientsKept
<1>12. Run(Pending', After(t), next[conn])
  BY <1>2, <1>4, <1>5, <1>10, RunRest DEF PendingFrom
<1>13. \A u : u = After(t) => PendingFrom(u)'
  BY <1>1, <1>12, RunOf
<1>14. /\ t.req \in 1 .. Len(asks[t.conn]) /\ KindOf(t) \in Kinds /\ KindOf(t).entity \in Nat
       /\ KindOf(t) = asks[conn][Current]
  BY <1>1, <1>5, <1>6, RealOnes DEF KindOf
<1>15. t.place < BlankLine => After(t) = Token(conn, Current, t.place + 1)
  BY <1>1, <1>5, <1>6, <1>14, Follows DEF BlankLine
<1>16. <<t>>[1] = t /\ Len(<<t>>) = 1
  OBVIOUS
<1> QED BY <1>2, <1>5, <1>6, <1>8, <1>9, <1>11, <1>13, <1>14, <1>15, <1>16

LEMMA NothingKeeps ==
    ASSUME SessionInv, ConsumeNothing
    PROVE  Matching'
<1>1. /\ Typed /\ ReadingInv /\ ErrorInv /\ ClientInv /\ AnswersMatch /\ conn \in Conns
      /\ pc = "consume" /\ Serving /\ Reading /\ ~HasLine(m_buf)
  BY DEF SessionInv, ConsumeNothing, Serving, Reading, Typed
<1>2. UNCHANGED <<asks, next, sent, shut, wire, answers, conn, state, header, request, total, in_size, entity, done>>
      /\ pc' = "recv" /\ m_line' = m_line \o m_buf /\ m_buf' = <<>>
  BY DEF ConsumeNothing, clientVars, requestVars
<1>3. m_buf = <<>>
  <2> SUFFICES ASSUME m_buf # <<>> PROVE FALSE
    OBVIOUS
  <2>1. PICK t \in Heads : PendingFrom(t)
    BY <1>1 DEF ReadingInv
  <2>2. m_buf \in Seq(Real) /\ Len(m_buf) \in Nat \ {0} /\ 1 \in 1 .. Len(m_buf)
    BY <1>1, PendingReal, EmptySeq
  <2>3. Pending \in Seq(Real) /\ 1 \in 1 .. Len(Pending) /\ Pending[1] = m_buf[1]
    BY <1>1, <2>2, PendingReal
  <2>4. m_buf[1] = t
    BY <2>1, <2>3, RunRest DEF PendingFrom
  <2>5. t.place \in LeadingBlank .. BlankLine
    BY <1>1, HeadsAre
  <2>6. IsLine(m_buf[1])
    BY <2>4, <2>5 DEF IsLine, LeadingBlank, BlankLine
  <2> QED BY <1>1, <2>2, <2>6 DEF HasLine
<1>4. m_buf' = m_buf /\ m_line' = m_line
  <2>1. m_line = <<>>
    BY <1>1 DEF ReadingInv
  <2>2. <<>> \o <<>> = <<>>
    BY ConcatEmptySeq, EmptySeq
  <2> QED BY <1>2, <1>3, <2>1, <2>2
<1>5. Pending' = Pending /\ \A t : PendingFrom(t)' = PendingFrom(t)
  BY <1>2, <1>4, RunOf DEF Pending
<1>6. ReadingInv'
  BY <1>1, <1>2, <1>4, <1>5, Unmoved DEF ReadingInv, Reading
<1>7. EntityInv' /\ AfterInv'
  BY <1>2 DEF EntityInv, AfterInv, Serving
<1>8. ErrorInv'
  BY <1>1, <1>2 DEF ErrorInv, Serving
<1>9. ClientInv'
  BY <1>1, <1>2, <1>5, Unmoved, NothingElseAsked DEF ClientInv
<1>10. AnswersMatch'
  <2>1. \A d \in Conns : shut'[d] = shut[d] /\ sent'[d] \in Nat /\ sent[d] <= sent'[d]
    BY <1>1, <1>2 DEF Typed
  <2> QED BY <1>1, <1>2, <2>1, AnswersKept
<1> QED BY <1>6, <1>7, <1>8, <1>9, <1>10 DEF Matching

LEMMA Lines ==
    \A a, b, c : <<a>> \o <<b>> = <<a, b>> /\ <<a, b>> \o <<c>> = <<a, b, c>>
<1> TAKE a, b, c
<1> DEFINE S == {a, b, c}
<1>1. <<a>> \in Seq(S) /\ <<b>> \in Seq(S) /\ <<c>> \in Seq(S) /\ <<a, b>> \in Seq(S) /\ <<a, b, c>> \in Seq(S)
  OBVIOUS
<1>2. /\ Len(<<a>>) = 1 /\ Len(<<b>>) = 1 /\ Len(<<c>>) = 1 /\ Len(<<a, b>>) = 2 /\ Len(<<a, b, c>>) = 3
      /\ <<a>>[1] = a /\ <<b>>[1] = b /\ <<c>>[1] = c /\ <<a, b>>[1] = a /\ <<a, b>>[2] = b
      /\ <<a, b, c>>[1] = a /\ <<a, b, c>>[2] = b /\ <<a, b, c>>[3] = c
  OBVIOUS
<1> HIDE DEF S
<1>3. <<a>> \o <<b>> \in Seq(S) /\ Len(<<a>> \o <<b>>) = 2 /\ \A i \in 1 .. 2 : (<<a>> \o <<b>>)[i] = <<a, b>>[i]
  <2>1. /\ <<a>> \o <<b>> \in Seq(S) /\ Len(<<a>> \o <<b>>) = 1 + 1
        /\ \A i \in 1 .. 1 + 1 : (<<a>> \o <<b>>)[i] = IF i <= 1 THEN <<a>>[i] ELSE <<b>>[i - 1]
    BY <1>1, <1>2, ConcatProperties
  <2> QED BY <1>2, <2>1
<1>4. /\ <<a, b>> \o <<c>> \in Seq(S) /\ Len(<<a, b>> \o <<c>>) = 3
      /\ \A i \in 1 .. 3 : (<<a, b>> \o <<c>>)[i] = <<a, b, c>>[i]
  <2>1. /\ <<a, b>> \o <<c>> \in Seq(S) /\ Len(<<a, b>> \o <<c>>) = 2 + 1
        /\ \A i \in 1 .. 2 + 1 : (<<a, b>> \o <<c>>)[i] = IF i <= 2 THEN <<a, b>>[i] ELSE <<c>>[i - 2]
    BY <1>1, <1>2, ConcatProperties
  <2> QED BY <1>2, <2>1
<1> QED BY <1>1, <1>2, <1>3, <1>4, SeqEqual

\* What every line that is taken leaves as it is.
LEMMA LineFrame ==
    ASSUME SessionInv, TakeLine, pc' \in {"recv", "consume", "document"}
    PROVE  /\ Typed /\ ReadingInv /\ ErrorInv /\ conn \in Conns /\ Serving /\ Serving' /\ pc = "consume" /\ Reading
           /\ m_line' = <<>> /\ UNCHANGED <<asks, next, sent, shut, wire, answers, conn, total, in_size, entity>>
           /\ ~done /\ entity = <<>> /\ total \in Nat /\ total' + Len(wire'[conn']) <= sent'[conn']
           /\ AfterInv' /\ AnswersMatch'
           /\ Current' = Current /\ Heads' = Heads
<1>1. /\ Typed /\ ReadingInv /\ ErrorInv /\ AnswersMatch /\ conn \in Conns /\ Serving /\ pc = "consume" /\ Reading
      /\ m_line' = <<>> /\ UNCHANGED <<asks, next, sent, shut, wire, answers, conn, total, in_size, entity>>
      /\ Serving'
  BY DEF SessionInv, TakeLine, Typed, Serving, Reading, clientVars
<1>2. ~done /\ entity = <<>> /\ total + Len(wire[conn]) <= sent[conn]
  BY <1>1 DEF ReadingInv
<1>3. total \in Nat
  BY <1>1, Sizes DEF Typed
<1>4. AfterInv'
  BY <1>1 DEF AfterInv, Serving
<1>5. AnswersMatch'
  <2>1. \A d \in Conns : shut'[d] = shut[d] /\ sent'[d] \in Nat /\ sent[d] <= sent'[d]
    BY <1>1 DEF Typed
  <2> QED BY <1>1, <2>1, AnswersKept
<1> QED BY <1>1, <1>2, <1>3, <1>4, <1>5, Unmoved

\* Reading goes on with the next token of the head.
LEMMA ReadsOn ==
    ASSUME SessionInv, TakeLine, pc' \in {"recv", "consume"}, done' = done,
           NEW t \in Heads, Expected(t), PendingFrom(t), (MayServeOn => total <= t.place + Len(m_buf)), t.place < BlankLine,
           \A u : u = Token(conn, Current, t.place + 1) => Expected(u)'
    PROVE  Matching'
<1>1. /\ Typed /\ ReadingInv /\ ErrorInv /\ conn \in Conns /\ Serving /\ Serving' /\ pc = "consume"
      /\ m_line' = <<>> /\ UNCHANGED <<asks, next, sent, shut, wire, answers, conn, total, in_size, entity>>
      /\ ~done /\ entity = <<>> /\ total \in Nat /\ total' + Len(wire'[conn']) <= sent'[conn']
      /\ AfterInv' /\ AnswersMatch' /\ Current' = Current /\ Heads' = Heads
  BY LineFrame
<1>2. /\ t.place \in LeadingBlank .. BlankLine /\ Len(m_buf') = Len(m_buf) - 1 /\ Len(m_buf) \in Nat /\ ClientInv'
      /\ \A u : t.place < BlankLine /\ u = Token(conn, Current, t.place + 1) => PendingFrom(u)'
  BY LineTaken
<1>3. PICK u : u = Token(conn, Current, t.place + 1)
  OBVIOUS
<1>4. PendingFrom(u)' /\ Expected(u)'
  BY <1>2, <1>3
<1>5. u \in Heads' /\ u.place = t.place + 1
  <2>1. t.place + 1 \in StatusLine .. BlankLine
    BY <1>2 DEF LeadingBlank, StatusLine, BlankLine
  <2>2. u \in Heads
    BY <1>3, <2>1 DEF Heads
  <2> QED BY <1>1, <1>3, <2>2 DEF Token
<1>6. MayServeOn => total' <= u.place + Len(m_buf')
  <2>1. t.place \in Nat
    BY <1>2 DEF LeadingBlank, BlankLine
  <2> QED BY <1>1, <1>2, <1>5, <2>1
<1>7. ReadingInv'
  BY <1>1, <1>4, <1>5, <1>6 DEF ReadingInv
<1>8. EntityInv' /\ ErrorInv'
  BY <1>1 DEF EntityInv, ErrorInv
<1> QED BY <1>1, <1>2, <1>7, <1>8 DEF Matching

LEMMA LineHead ==
    ASSUME SessionInv, pc = "consume"
    PROVE  \E t \in Heads : Expected(t) /\ PendingFrom(t) /\ (MayServeOn => total <= t.place + Len(m_buf))
  BY DEF SessionInv, ReadingInv, Reading

LEMMA SkipKeeps ==
    ASSUME SessionInv, SkipBlank
    PROVE  Matching'
<1>1. /\ TakeLine /\ state = "STUSLINES" /\ IsBlank(NextLine) /\ pc' = "recv" /\ pc = "consume"
      /\ UNCHANGED <<state, header, request, done>>
  BY DEF SkipBlank, TakeLine
<1>2. PICK t \in Heads : Expected(t) /\ PendingFrom(t) /\ (MayServeOn => total <= t.place + Len(m_buf))
  BY <1>1, LineHead
<1>3. NextLine[1] = t /\ t.place \in LeadingBlank .. BlankLine
  BY <1>1, <1>2, LineTaken
<1>4. UNCHANGED <<asks, conn, answers>> /\ Current' = Current
  BY <1>1, LineFrame
<1>5. request = <<>> /\ header = NoHeader /\ t.place \in {LeadingBlank, StatusLine}
  BY <1>1, <1>2 DEF Expected, Start, Token
<1>6. t.place = LeadingBlank
  BY <1>1, <1>3, <1>5 DEF IsBlank, LeadingBlank, StatusLine, BlankLine
<1>7. \A u : u = Token(conn, Current, t.place + 1) => Expected(u)'
  BY <1>1, <1>4, <1>5, <1>6 DEF Expected, LeadingBlank, StatusLine
<1>8. t.place < BlankLine
  BY <1>6 DEF LeadingBlank, BlankLine
<1> QED BY <1>1, <1>2, <1>7, <1>8, ReadsOn

LEMMA StatusKeeps ==
    ASSUME NothingIsLeft, SessionInv, ConsumeStatus
    PROVE  Matching'
<1>1. /\ TakeLine /\ state = "STUSLINES" /\ ~IsBlank(NextLine) /\ pc = "consume" /\ pc' \in {"consume", "document"}
      /\ request' = request \o NextLine /\ header' = header
      /\ \/ TwoWords(NextLine) /\ state' = "HDRLINES" /\ pc' = "consume" /\ done' = done
         \/ ~TwoWords(NextLine) /\ done' = TRUE /\ pc' = "document"
  BY DEF ConsumeStatus, TakeLine, ReadAsRequest, RefuseRequest
<1>2. PICK t \in Heads : Expected(t) /\ PendingFrom(t) /\ (MayServeOn => total <= t.place + Len(m_buf))
  BY <1>1, LineHead
<1>3. /\ NextLine = <<t>> /\ NextLine[1] = t /\ Len(NextLine) = 1 /\ t.place \in LeadingBlank .. BlankLine
      /\ t \in Real /\ t = Token(conn, Current, t.place) /\ KindOf(t) = asks[conn][Current] /\ asks[conn][Current] \in Kinds
      /\ ClientInv'
  BY <1>1, <1>2, LineTaken
<1>4. /\ Typed /\ ErrorInv /\ conn \in Conns /\ Serving' /\ UNCHANGED <<asks, shut, conn, answers>>
      /\ Current' = Current /\ AfterInv' /\ AnswersMatch'
  BY <1>1, LineFrame
<1>5. request = <<>> /\ header = NoHeader /\ t.place \in {LeadingBlank, StatusLine}
  BY <1>1, <1>2 DEF Expected, Start, Token
<1>6. t.place = StatusLine /\ t = Token(conn, Current, StatusLine)
  BY <1>1, <1>3, <1>5 DEF IsBlank, LeadingBlank, StatusLine, BlankLine
<1>7. request' = <<t>>
  <2>1. <<>> \o <<t>> = <<t>>
    BY <1>3, ConcatEmptySeq
  <2> QED BY <1>1, <1>3, <1>5, <2>1
<1>8. CASE TwoWords(NextLine)
  <2>1. state' = "HDRLINES" /\ pc' = "consume" /\ done' = done
    BY <1>1, <1>8
  <2>2. \A u : u = Token(conn, Current, t.place + 1) => Expected(u)'
    BY <1>1, <1>4, <1>5, <1>6, <1>7, <2>1 DEF Expected, StatusLine, HeaderLine, Token
  <2>3. t.place < BlankLine
    BY <1>6 DEF StatusLine, BlankLine
  <2> QED BY <1>1, <1>2, <2>1, <2>2, <2>3, ReadsOn
<1>9. CASE ~TwoWords(NextLine)
  <2>1. done' = TRUE /\ pc' = "document"
    BY <1>1, <1>9
  <2>2. ~asks[conn][Current].good
    BY <1>3, <1>6, <1>9 DEF TwoWords, IsStatus
  <2>3. ~MayServeOn
    BY <1>3, <2>2 DEF NothingIsLeft
  <2>4. ErrorInv'
    BY <1>4, <2>1, <2>2, <2>3 DEF ErrorInv
  <2>5. ReadingInv' /\ EntityInv'
    BY <2>1 DEF ReadingInv, Reading, EntityInv
  <2> QED BY <1>3, <1>4, <2>4, <2>5 DEF Matching
<1> QED BY <1>8, <1>9

LEMMA HeaderKeeps ==
    ASSUME SessionInv, ConsumeHeader
    PROVE  Matching'
<1>1. /\ TakeLine /\ state = "HDRLINES" /\ ~IsBlank(NextLine) /\ pc = "consume"
      /\ request' = request \o NextLine /\ header' = IF IsHeader(NextLine) THEN NextLine[1] ELSE header
      /\ HasColon(NextLine) => pc' = "consume" /\ done' = done
      /\ state' = state
  BY DEF ConsumeHeader, TakeLine, ReadAsRequest
<1>2. PICK t \in Heads : Expected(t) /\ PendingFrom(t) /\ (MayServeOn => total <= t.place + Len(m_buf))
  BY <1>1, LineHead
<1>3. /\ NextLine = <<t>> /\ NextLine[1] = t /\ Len(NextLine) = 1 /\ t.place \in LeadingBlank .. BlankLine
      /\ t = Token(conn, Current, t.place)
  BY <1>1, <1>2, LineTaken
<1>4. t = Token(conn, Current, HeaderLine) /\ t.place = HeaderLine /\ request = <<Token(conn, Current, StatusLine)>>
  <2>1. t # Token(conn, Current, BlankLine)
    BY <1>1, <1>3 DEF IsBlank, Token
  <2> QED BY <1>1, <1>2, <2>1 DEF Expected, Token
<1>5. IsHeader(NextLine) /\ HasColon(NextLine)
  BY <1>3, <1>4 DEF IsHeader, HasColon
<1>6. /\ header' = t /\ pc' = "consume" /\ done' = done /\ state' = "HDRLINES"
      /\ request' = <<Token(conn, Current, StatusLine), t>>
  <2>1. header' = t /\ pc' = "consume" /\ done' = done /\ state' = "HDRLINES"
    BY <1>1, <1>3, <1>5
  <2>2. request' = <<Token(conn, Current, StatusLine)>> \o <<t>>
    BY <1>1, <1>3, <1>4
  <2> QED BY <2>1, <2>2, Lines
<1>7. UNCHANGED <<asks, conn, answers>> /\ Current' = Current
  BY <1>1, <1>6, LineFrame
<1>8. \A u : u = Token(conn, Current, t.place + 1) => Expected(u)'
  BY <1>4, <1>6, <1>7 DEF Expected, HeaderLine, BlankLine
<1>9. t.place < BlankLine
  BY <1>4 DEF HeaderLine, BlankLine
<1> QED BY <1>1, <1>2, <1>6, <1>8, <1>9, ReadsOn

LEMMA BlankKeeps ==
    ASSUME SessionInv, ConsumeBlank
    PROVE  Matching'
<1>1. /\ TakeLine /\ state = "HDRLINES" /\ IsBlank(NextLine) /\ pc = "consume"
      /\ request' = request \o NextLine /\ header' = header
      /\ done' = ~Valid /\ pc' = "document"
  BY DEF ConsumeBlank, TakeLine, ReadAsRequest
<1>2. PICK t \in Heads : Expected(t) /\ PendingFrom(t) /\ (MayServeOn => total <= t.place + Len(m_buf))
  BY <1>1, LineHead
<1>3. /\ NextLine = <<t>> /\ NextLine[1] = t /\ Len(NextLine) = 1 /\ t.place \in LeadingBlank .. BlankLine
      /\ t = Token(conn, Current, t.place) /\ ClientInv' /\ \A u : u = After(t) => PendingFrom(u)'
  BY <1>1, <1>2, LineTaken
<1>4. /\ Typed /\ ErrorInv /\ conn \in Conns /\ Serving /\ Serving' /\ m_line' = <<>> /\ UNCHANGED <<asks, shut, conn, answers, entity>>
      /\ Current' = Current /\ AfterInv' /\ AnswersMatch' /\ entity = <<>>
  BY <1>1, LineFrame
<1>5. /\ t = Token(conn, Current, BlankLine) /\ header = Token(conn, Current, HeaderLine)
      /\ request = <<Token(conn, Current, StatusLine), Token(conn, Current, HeaderLine)>>
  <2>1. t # Token(conn, Current, HeaderLine)
    BY <1>1, <1>3 DEF IsBlank, Token, LeadingBlank, HeaderLine, BlankLine
  <2> QED BY <1>1, <1>2, <2>1 DEF Expected
<1>6. Len(request) = 2 /\ request[1] = Token(conn, Current, StatusLine) /\ request[2] = header /\ request \in Seq(Real)
  BY <1>4, <1>5 DEF Typed
<1>7. header # NoHeader
  <2>1. request[2] \in Real
    BY <1>6, ElementOfSeq
  <2> QED BY <1>6, <2>1, Sizes
<1>8. FirstLine(request) = 1
  <2>1. IsLine(request[1])
    BY <1>6 DEF IsLine, Token, StatusLine, BlankLine
  <2>2. HasLine(request)
    BY <1>6, <2>1 DEF HasLine
  <2>3. FirstLine(request) \in 1 .. 2 /\ \A j \in 1 .. FirstLine(request) - 1 : ~IsLine(request[j])
    BY <1>6, <2>2, FirstLineIs
  <2> QED BY <2>1, <2>3
<1>9. done' = FALSE
  <2>1. StatusToken = Token(conn, Current, StatusLine)
    BY <1>6, <1>8 DEF StatusToken
  <2>2. StatusToken.place = StatusLine
    BY <2>1 DEF Token
  <2>3. Valid
    BY <1>7, <2>2 DEF Valid
  <2> QED BY <1>1, <2>3
<1>10. request' = Head3(conn, Current)
  BY <1>1, <1>3, <1>5, Lines DEF Head3
<1>11. PICK u : u = After(t)
  OBVIOUS
<1>12. PendingFrom(u)'
  BY <1>3, <1>11
<1>13. EntityInv'
  <2>1. BlankLine + Len(<<>>) = BlankLine /\ Len(<<>>) = 0
    BY EmptySeq DEF BlankLine
  <2>2. u = After(Token(conn, Current, BlankLine + Len(entity)))'
    <3>1. Token(conn, Current, BlankLine + Len(entity))' = t
      BY <1>4, <1>5, <2>1 DEF Token
    <3> QED BY <1>4, <1>11, <3>1, NothingElseAsked
  <2>3. Head3(conn, Current)' = Head3(conn, Current) /\ Token(conn, Current, HeaderLine)' = Token(conn, Current, HeaderLine)
    BY <1>4 DEF Head3, Token
  <2> QED BY <1>1, <1>4, <1>5, <1>10, <1>12, <2>1, <2>2, <2>3 DEF EntityInv
<1>14. ReadingInv' /\ ErrorInv'
  BY <1>1, <1>4, <1>9 DEF ReadingInv, Reading, ErrorInv
<1> QED BY <1>3, <1>4, <1>13, <1>14 DEF Matching

\* The request is what it was sent as.
LEMMA HeadRead ==
    ASSUME SessionInv, pc \in {"document", "entity"}, ~done
    PROVE  /\ Current \in 1 .. Len(asks[conn]) /\ asks[conn][Current] \in Kinds
           /\ asks[conn][Current] \in KindType /\ asks[conn][Current].entity \in Nat
           /\ Kind = asks[conn][Current] /\ Length = asks[conn][Current].entity
           /\ header # NoHeader /\ Token(conn, Current, BlankLine) \in Real
<1>1. /\ Typed /\ conn \in Conns /\ header = Token(conn, Current, HeaderLine) /\ request = Head3(conn, Current)
      /\ request \in Seq(Real)
  BY DEF SessionInv, EntityInv, Typed, Serving
<1> DEFINE s == Token(conn, Current, StatusLine)
           b == Token(conn, Current, BlankLine)
<1>2. Len(request) = 3 /\ request[1] = s /\ request[2] = header /\ request[3] = b
  BY <1>1 DEF Head3
<1>3. s \in Real /\ header \in Real /\ b \in Real
  BY <1>1, <1>2, ElementOfSeq
<1>4. s.conn = conn /\ s.req = Current /\ s.place = StatusLine /\ header.conn = conn /\ header.req = Current
  BY <1>1 DEF Token
<1>5. Current \in 1 .. Len(asks[conn]) /\ KindOf(s) = asks[conn][Current] /\ KindOf(header) = asks[conn][Current]
  BY <1>1, <1>3, <1>4, RealOnes DEF KindOf
<1>6. FirstLine(request) = 1
  <2>1. IsLine(request[1])
    BY <1>2, <1>4 DEF IsLine, StatusLine, BlankLine
  <2>2. HasLine(request)
    BY <1>2, <2>1 DEF HasLine
  <2>3. FirstLine(request) \in 1 .. 3 /\ \A j \in 1 .. FirstLine(request) - 1 : ~IsLine(request[j])
    BY <1>1, <1>2, <2>2, FirstLineIs
  <2> QED BY <2>1, <2>3
<1>7. Kind = asks[conn][Current] /\ Length = asks[conn][Current].entity
  BY <1>2, <1>5, <1>6 DEF Kind, Length, StatusToken
<1>8. asks[conn][Current] \in Kinds /\ asks[conn][Current] \in KindType /\ asks[conn][Current].entity \in Nat
  BY <1>1, <1>5, KindsAsked
<1> QED BY <1>3, <1>5, <1>7, <1>8, Sizes

\* A client that waits for its answers has sent nothing of its next request.
LEMMA NothingPending ==
    ASSUME SessionInv, Serving, ~Pipelining, PendingFrom(Start(conn, Current + 1))
    PROVE  m_buf = <<>>
<1> SUFFICES ASSUME m_buf # <<>> PROVE FALSE
  OBVIOUS
<1>1. Typed /\ ClientInv /\ conn \in Conns
  BY DEF SessionInv, Typed
<1>2. m_buf \in Seq(Real) /\ Len(m_buf) \in Nat \ {0}
  BY <1>1, PendingReal, EmptySeq
<1>3. Pending \in Seq(Real) /\ 1 \in 1 .. Len(Pending)
  BY <1>1, <1>2, PendingReal
<1>4. Pending[1] = Start(conn, Current + 1) /\ Pending[1].req <= Current
  BY <1>1, <1>3, RunRest DEF PendingFrom, ClientInv
<1>5. Start(conn, Current + 1).req = Current + 1
  BY DEF Start, Token
<1>6. Current \in Nat
  BY <1>1, LenProperties DEF Current, Typed
<1> QED BY <1>4, <1>5, <1>6

\* When the entity was read to its end the next request follows.
LEMMA AtEnd ==
    ASSUME SessionInv, pc \in {"document", "entity"}, ~done, Len(entity) = asks[conn][Current].entity
    PROVE  PendingFrom(Start(conn, Current + 1))
<1>1. Typed /\ conn \in Conns /\ PendingFrom(After(Token(conn, Current, BlankLine + Len(entity))))
  BY DEF SessionInv, EntityInv, Typed, Serving
<1>2. Current \in 1 .. Len(asks[conn]) /\ asks[conn][Current].entity \in Nat /\ Token(conn, Current, BlankLine) \in Real
  BY HeadRead
<1> DEFINE t == Token(conn, Current, BlankLine + Len(entity))
<1>3. t.conn = conn /\ t.req = Current /\ t.place = BlankLine + Len(entity) /\ KindOf(t) = asks[conn][Current]
  BY DEF Token, KindOf
<1>4. After(t) = Start(conn, Current + 1)
  BY <1>2, <1>3 DEF After, BlankLine
<1> QED BY <1>1, <1>4

\* What an answer leaves as it is, and that it is the right one.
LEMMA Answered ==
    ASSUME SessionInv, NEW ok \in BOOLEAN, Answer(ok), pc \in {"document", "entity"},
           UNCHANGED <<clientVars, wire, conn, m_line, m_buf, requestVars, done>>,
           IF ok THEN Current <= Len(asks[conn]) /\ request = Head3(conn, Current)
                 ELSE shut[conn] \/ ~asks[conn][Current].good \/ sent[conn] > MaxMetadata
    PROVE  /\ ReadingInv' /\ EntityInv' /\ ErrorInv' /\ ClientInv' /\ AnswersMatch'
           /\ pc' = "after" /\ Len(answers'[conn]) = Current
<1>1. Typed /\ ErrorInv /\ ClientInv /\ AnswersMatch /\ conn \in Conns /\ Serving
  BY DEF SessionInv, Typed, Serving
<1>2. UNCHANGED <<asks, next, sent, shut, wire, conn, m_line, m_buf, done>> /\ pc' = "after"
  BY DEF Answer, clientVars
<1> DEFINE a == [to |-> request, ok |-> ok]
<1>3. answers'[conn] = Append(answers[conn], a) /\ \A d \in Conns \ {conn} : answers'[d] = answers[d]
  BY <1>1 DEF Answer, Typed
<1>4. /\ Len(answers[conn]) \in Nat /\ Len(answers'[conn]) = Len(answers[conn]) + 1
      /\ answers'[conn][Len(answers[conn]) + 1] = a /\ \A i \in 1 .. Len(answers[conn]) : answers'[conn][i] = answers[conn][i]
  <2>1. a \in [to : Seq(Real), ok : BOOLEAN] /\ answers[conn] \in Seq([to : Seq(Real), ok : BOOLEAN])
    BY <1>1 DEF Typed
  <2> HIDE DEF a
  <2> QED BY <1>3, <2>1, AppendProperties, LenProperties
<1>5. ReadingInv' /\ EntityInv'
  BY <1>2 DEF ReadingInv, Reading, EntityInv
<1>6. ErrorInv'
  BY <1>1, <1>2 DEF ErrorInv, Serving
<1>7. ClientInv'
  <2>1. \A d \in Conns : d > conn => d # conn
    BY <1>1, Sizes
  <2>2. \A d \in Conns : d > conn' => next'[d] = Start(d, 1)' /\ wire'[d] = <<>> /\ answers'[d] = <<>>
    BY <1>1, <1>2, <1>3, <2>1, NothingElseAsked DEF ClientInv
  <2>3. Pending' = Pending /\ Current' = Current + 1 /\ Current \in Nat
    BY <1>2, <1>4 DEF Pending, Current
  <2>4. ASSUME ~Pipelining, NEW k \in 1 .. Len(Pending') PROVE Pending'[k].req <= Current'
    <3>1. k \in 1 .. Len(Pending) /\ Pending[k].req <= Current /\ Pending[k] \in Real
      BY <1>1, <2>3, <2>4, PendingReal DEF ClientInv
    <3>2. Pending[k].req \in Int
      BY <3>1 DEF Real, Tokens
    <3> QED BY <2>3, <3>1, <3>2
  <2> QED BY <1>1, <1>2, <2>2, <2>4 DEF ClientInv
<1>8. AnswersMatch'
  <2> SUFFICES ASSUME NEW c \in Conns, NEW i \in 1 .. Len(answers'[c])
               PROVE  IF answers'[c][i].ok THEN i <= Len(asks[c]) /\ answers'[c][i].to = Head3(c, i)
                                           ELSE shut[c] \/ ~asks[c][i].good \/ sent[c] > MaxMetadata
    BY <1>2 DEF AnswersMatch, Head3, Token
  <2>1. CASE c # conn \/ i # Current
    <3>1. i \in 1 .. Len(answers[c]) /\ answers'[c][i] = answers[c][i]
      BY <1>3, <1>4, <2>1 DEF Current
    <3> QED BY <1>1, <3>1 DEF AnswersMatch
  <2>2. CASE c = conn /\ i = Current
    BY <1>4, <2>2 DEF Current
  <2> QED BY <2>1, <2>2
<1> QED BY <1>2, <1>4, <1>5, <1>6, <1>7, <1>8 DEF Current

LEMMA ErrorKeeps ==
    ASSUME SessionInv, AnswerError
    PROVE  Matching'
<1>1. /\ Answer(FALSE) /\ pc = "document" /\ done
      /\ UNCHANGED <<clientVars, wire, conn, m_line, m_buf, requestVars, done>>
  BY DEF AnswerError
<1>2. (shut[conn] \/ ~asks[conn][Current].good \/ sent[conn] > MaxMetadata) /\ ~MayServeOn
  BY <1>1 DEF SessionInv, ErrorInv
<1>3. ReadingInv' /\ EntityInv' /\ ErrorInv' /\ ClientInv' /\ AnswersMatch' /\ pc' = "after"
  BY <1>1, <1>2, Answered
<1>4. AfterInv'
  BY <1>1, <1>2, <1>3 DEF AfterInv, Serving
<1> QED BY <1>3, <1>4 DEF Matching

\* An answer is given after which the next request is read, or none.
LEMMA RightKeeps ==
    ASSUME EntitiesAreRead, NothingIsLeft, SessionInv, AnswerAtOnce \/ EndDocument
    PROVE  Matching'
<1>1. /\ Answer(TRUE) /\ pc \in {"document", "entity"} /\ ~done
      /\ UNCHANGED <<clientVars, wire, conn, m_line, m_buf, requestVars, done>>
  BY DEF AnswerAtOnce, EndDocument, SessionInv, ErrorInv
<1>2. UNCHANGED <<asks, next, wire, conn, m_buf, header, done>>
  BY <1>1 DEF clientVars, requestVars
<1> DEFINE k == asks[conn][Current]
<1>3. Current \in 1 .. Len(asks[conn]) /\ k \in Kinds /\ k \in KindType /\ k.entity \in Nat
      /\ Kind = k /\ Length = k.entity /\ header # NoHeader
  BY <1>1, HeadRead
<1>4. request = Head3(conn, Current) /\ header = Token(conn, Current, HeaderLine) /\ Typed /\ conn \in Conns /\ Serving
  BY <1>1 DEF SessionInv, EntityInv, Typed, Serving
<1>5. /\ ReadingInv' /\ EntityInv' /\ ErrorInv' /\ ClientInv' /\ AnswersMatch'
      /\ pc' = "after" /\ Len(answers'[conn]) = Current
  <2>1. IF TRUE THEN Current <= Len(asks[conn]) /\ request = Head3(conn, Current)
                ELSE shut[conn] \/ ~asks[conn][Current].good \/ sent[conn] > MaxMetadata
    BY <1>3, <1>4
  <2> HIDE DEF k
  <2> QED BY <1>1, <2>1, Answered
<1>6. \/ Len(entity) = k.entity
      \/ /\ k.entity > 0
         /\ \/ pc = "document" /\ k.resource = "file"
            \/ pc = "entity" /\ k.resource = "cgi" /\ entity # <<>>
  <2>1. CASE AnswerAtOnce
    <3>1. pc = "document" /\ (k.resource = "file" \/ k.entity = 0)
      BY <1>3, <2>1 DEF AnswerAtOnce
    <3>2. Len(entity) = 0
      BY <1>1, <3>1, EmptySeq DEF SessionInv, EntityInv
    <3> QED BY <1>3, <3>1, <3>2
  <2>2. CASE EndDocument
    <3>1. pc = "entity" /\ (in_size = 0 \/ (k.resource = "cgi" /\ entity # <<>>))
      BY <1>3, <2>2 DEF EndDocument
    <3>2. Len(entity) + in_size = k.entity /\ k.entity > 0 /\ Len(entity) \in Nat
      BY <1>1, <1>4, <3>1, LenProperties DEF SessionInv, EntityInv, Typed
    <3> QED BY <3>1, <3>2
  <2> QED BY <2>1, <2>2
<1>7. Len(entity) = k.entity \/ k.close
  <2>1. k.entity > 0 /\ k.resource \in {"file", "cgi"} => k.close
    BY <1>3 DEF EntitiesAreRead
  <2> QED BY <1>6, <2>1
<1>8. MayServeOn => m_buf = <<>>
  <2> SUFFICES ASSUME MayServeOn PROVE m_buf = <<>>
    OBVIOUS
  <2>1. ~Pipelining /\ (k.resource = "file" => k.entity = 0)
    BY <1>3 DEF NothingIsLeft
  <2>2. CASE Len(entity) = k.entity
    BY <1>1, <1>4, <2>1, <2>2, AtEnd, NothingPending
  <2>3. CASE pc = "entity" /\ k.resource = "cgi" /\ entity # <<>>
    BY <1>1, <2>3 DEF SessionInv, EntityInv
  <2> QED BY <1>6, <2>1, <2>2, <2>3
<1>9. Len(entity) = k.entity => PendingFrom(Start(conn, Current + 1))
  BY <1>1, AtEnd
<1>10. AfterInv'
  <2>1. \A t : PendingFrom(t)' = PendingFrom(t)
    <3>1. Pending' = Pending
      BY <1>2 DEF Pending
    <3> QED BY <1>2, <3>1, RunOf
  <2>2. PICK t : t = Start(conn, Current + 1)
    OBVIOUS
  <2>3. t = Start(conn, Len(answers[conn]) + 1)'
    BY <1>2, <1>5, <2>2 DEF Start, Token
  <2>4. k.close \/ PendingFrom(t)'
    BY <1>7, <1>9, <2>1, <2>2
  <2>5. header' = Token(conn', Len(answers'[conn']), HeaderLine) /\ header' # NoHeader /\ asks'[conn'][Len(answers'[conn'])] = k
    BY <1>2, <1>3, <1>4, <1>5
  <2> QED BY <1>2, <1>5, <1>8, <2>3, <2>4, <2>5 DEF AfterInv, Serving, Token
<1> QED BY <1>5, <1>10 DEF Matching

LEMMA StartKeeps ==
    ASSUME SessionInv, StartEntity
    PROVE  Matching'
<1>1. /\ pc = "document" /\ ~done /\ Kind.resource # "file" /\ Length > 0 /\ in_size' = Length /\ pc' = "entity"
      /\ UNCHANGED <<asks, next, sent, shut, wire, answers, conn, m_line, m_buf, header, request, done, entity>>
  BY DEF StartEntity, clientVars
<1>2. /\ Typed /\ EntityInv /\ ErrorInv /\ ClientInv /\ AnswersMatch /\ conn \in Conns /\ Serving /\ entity = <<>>
  BY <1>1 DEF SessionInv, EntityInv, Typed, Serving
<1>3. Kind = asks[conn][Current] /\ Length = asks[conn][Current].entity /\ asks[conn][Current].entity \in Nat
  BY <1>1, HeadRead
<1>4. Pending' = Pending /\ \A t : PendingFrom(t)' = PendingFrom(t)
  BY <1>1, RunOf DEF Pending
<1>5. ReadingInv' /\ AfterInv'
  BY <1>1 DEF ReadingInv, Reading, AfterInv, Serving
<1>6. EntityInv'
  <2>1. Len(entity) + in_size' = asks[conn][Current].entity /\ Len(entity) = 0
    BY <1>1, <1>2, <1>3, EmptySeq
  <2> QED BY <1>1, <1>2, <1>3, <1>4, <2>1, Unmoved, NothingElseAsked DEF EntityInv, Head3, Token
<1>7. ErrorInv'
  BY <1>1, <1>2 DEF ErrorInv, Serving
<1>8. ClientInv'
  BY <1>1, <1>2, <1>4, Unmoved, NothingElseAsked DEF ClientInv
<1>9. AnswersMatch'
  <2>1. \A d \in Conns : shut'[d] = shut[d] /\ sent'[d] \in Nat /\ sent[d] <= sent'[d]
    BY <1>1, <1>2 DEF Typed
  <2> QED BY <1>1, <1>2, <2>1, AnswersKept
<1> QED BY <1>5, <1>6, <1>7, <1>8, <1>9 DEF Matching

\* What is pending while the resource takes an entity is what is left of it.
LEMMA EntityPending ==
    ASSUME EntitiesAreRead, SessionInv, pc = "entity", in_size > 0
    PROVE  \A k \in 1 .. Len(Pending) :
              LET p == BlankLine + Len(entity) + 1
              IN  /\ Pending[k] = Token(conn, Current, p + k - 1)
                  /\ p + k - 1 <= BlankLine + asks[conn][Current].entity
<1> DEFINE i == Current
           e == asks[conn][Current].entity
           l == Len(entity)
           p == BlankLine + l + 1
<1>1. /\ Typed /\ EntityInv /\ conn \in Conns /\ Serving /\ ~done
  BY DEF SessionInv, ErrorInv, Typed, Serving
<1>2. /\ PendingFrom(After(Token(conn, i, BlankLine + l)))
      /\ l + in_size = e /\ e > 0
  BY <1>1 DEF EntityInv
<1>3. i \in 1 .. Len(asks[conn]) /\ asks[conn][i] \in Kinds /\ e \in Nat
  BY <1>1, HeadRead
<1>4. l \in Nat /\ in_size \in Nat /\ l < e
  BY <1>1, <1>2, <1>3, LenProperties DEF Typed
<1>5. ~Pipelining
  BY <1>2, <1>3 DEF EntitiesAreRead
<1>6. After(Token(conn, i, BlankLine + l)) = Token(conn, i, p)
  <2>1. KindOf(Token(conn, i, BlankLine + l)).entity = e
    BY DEF Token, KindOf
  <2>2. BlankLine + l < BlankLine + e
    BY <1>3, <1>4 DEF BlankLine
  <2> QED BY <2>1, <2>2 DEF After, Token
<1>7. \A k \in 1 .. Len(Pending) : Pending[k] = Token(conn, i, p + k - 1) /\ p + k - 1 <= BlankLine + e
  <2>1. PendingFrom(Token(conn, i, p))
    BY <1>2, <1>6
  <2> HIDE DEF p
  <2> QED BY <1>1, <1>5, <2>1, PendingOfRequest
<1> QED BY <1>7

LEMMA Joined ==
    \A s, t \in Seq(Real) :
        /\ Len(s \o t) = Len(s) + Len(t)
        /\ \A i \in 1 .. Len(s) + Len(t) : (s \o t)[i] = IF i <= Len(s) THEN s[i] ELSE t[i - Len(s)]
<1> TAKE s, t \in Seq(Real)
<1> QED BY Together

\* What the resource is given continues the entity, and does not pass its end.
LEMMA EntityTaken ==
    ASSUME EntitiesAreRead, SessionInv, pc = "entity", in_size > 0,
           UNCHANGED <<asks, next, sent, shut, answers, conn, pc, m_line, header, request, done>>,
           NEW n \in 1 .. Len(Pending), Flush(SubSeq(Pending, 1, n)),
           Pending' = SubSeq(Pending, n + 1, Len(Pending)),
           \A d \in Conns : Len(wire'[d]) <= Len(wire[d]) /\ Len(wire'[d]) \in Nat,
           \A d \in Conns \ {conn} : wire'[d] = wire[d],
           (MayServeOn /\ asks[conn][Current].resource = "cgi") => m_buf' = <<>>
    PROVE  Matching'
<1> DEFINE i == Current
           e == asks[conn][Current].entity
           l == Len(entity)
           p == BlankLine + l + 1
           a == SubSeq(Pending, 1, n)
<1>1. /\ Typed /\ EntityInv /\ ErrorInv /\ ClientInv /\ AnswersMatch /\ conn \in Conns /\ Serving /\ ~done
  BY DEF SessionInv, ErrorInv, Typed, Serving
<1>2. /\ PendingFrom(After(Token(conn, i, BlankLine + l))) /\ \A k \in 1 .. l : entity[k] = Token(conn, i, BlankLine + k)
      /\ m_line = <<>> /\ request = Head3(conn, i) /\ header = Token(conn, i, HeaderLine)
      /\ l + in_size = e /\ e > 0 /\ asks[conn][i].resource # "file"
  BY <1>1 DEF EntityInv
<1>3. i \in 1 .. Len(asks[conn]) /\ asks[conn][i] \in Kinds /\ e \in Nat
  BY <1>1, HeadRead
<1>4. l \in Nat /\ in_size \in Nat /\ l < e /\ entity \in Seq(Real)
  <2>1. entity \in Seq(Real) /\ in_size \in Nat
    BY <1>1 DEF Typed
  <2>2. l \in Nat
    BY <2>1, LenProperties
  <2>3. l + in_size = e
    BY <1>2
  <2> HIDE DEF l, e
  <2>4. l < e
    BY <1>3, <2>1, <2>2, <2>3
  <2> QED BY <2>1, <2>2, <2>4
<1>7. \A k \in 1 .. Len(Pending) : Pending[k] = Token(conn, i, p + k - 1) /\ p + k - 1 <= BlankLine + e
  BY EntityPending
<1>8. Pending \in Seq(Real) /\ n \in 0 .. Len(Pending) /\ Len(Pending) \in Nat /\ n \in Nat
  BY <1>1, PendingReal, LenProperties
<1>9. a \in Seq(Real) /\ Len(a) = n /\ \A k \in 1 .. n : a[k] = Pending[k]
  BY <1>8, Split
<1>10. n <= in_size /\ l + n <= e
  <2>1. p + n - 1 <= BlankLine + e
    BY <1>7
  <2> QED BY <1>2, <1>3, <1>4, <1>8, <2>1 DEF BlankLine
<1>11. entity' = entity \o a /\ in_size' = in_size - Smaller(in_size, Len(a))
  BY DEF Flush
<1> HIDE DEF a, l
<1>12. /\ Len(entity') = l + n /\ l + n \in Nat
       /\ \A k \in 1 .. l + n : entity'[k] = IF k <= l THEN entity[k] ELSE a[k - l]
  <2>1. entity \in Seq(Real) /\ a \in Seq(Real) /\ Len(a) = n /\ Len(entity) = l /\ l \in Nat /\ n \in Nat
    BY <1>4, <1>8, <1>9 DEF l
  <2>2. /\ Len(entity \o a) = Len(entity) + Len(a)
        /\ \A k \in 1 .. Len(entity) + Len(a) : (entity \o a)[k] = IF k <= Len(entity) THEN entity[k] ELSE a[k - Len(entity)]
    BY <2>1, Joined
  <2> QED BY <1>11, <2>1, <2>2
<1>13. in_size' = in_size - n /\ Len(entity') + in_size' = e
  <2>1. in_size' = in_size - n
    BY <1>4, <1>8, <1>9, <1>10, <1>11 DEF Smaller
  <2> QED BY <1>2, <1>4, <1>8, <1>12, <2>1
<1>14. \A k \in 1 .. l + n : entity'[k] = Token(conn, i, BlankLine + k)
  <2> TAKE k \in 1 .. l + n
  <2>1. CASE k <= l
    <3>1. k \in 1 .. l
      BY <1>4, <1>8, <2>1
    <3> QED BY <1>2, <1>12, <2>1, <3>1 DEF l
  <2>2. CASE ~(k <= l)
    <3>1. k - l \in 1 .. n /\ k - l \in 1 .. Len(Pending) /\ p + (k - l) - 1 = BlankLine + k
      BY <1>4, <1>8, <2>2 DEF BlankLine
    <3>2. a[k - l] = Token(conn, i, p + (k - l) - 1)
      BY <1>7, <1>9, <3>1
    <3> QED BY <1>12, <2>2, <3>1, <3>2
  <2> QED BY <2>1, <2>2
<1>15. Run(Pending', After(Pending[n]), next[conn]) /\ Pending[n] = Token(conn, i, BlankLine + (l + n))
  <2>1. p + n - 1 = BlankLine + (l + n)
    BY <1>4, <1>8 DEF BlankLine
  <2> QED BY <1>2, <1>7, <1>8, <2>1, RunRest DEF PendingFrom, l
<1>16. PICK u : u = After(Pending[n])
  OBVIOUS
<1>17. PendingFrom(u)'
  BY <1>15, <1>16, RunOf
<1>18. UNCHANGED <<asks, conn, answers>> /\ Current' = i
  BY Unmoved
<1>19. EntityInv'
  <2>1. u = After(Token(conn, Current, BlankLine + Len(entity)))'
    <3>1. Token(conn, Current, BlankLine + Len(entity))' = Pending[n]
      BY <1>12, <1>15, <1>18 DEF Token, BlankLine
    <3> QED BY <1>16, <1>18, <3>1, NothingElseAsked
  <2>2. Head3(conn, Current)' = Head3(conn, i) /\ Token(conn, Current, HeaderLine)' = Token(conn, i, HeaderLine)
    BY <1>18 DEF Head3, Token
  <2>3. \A k \in 1 .. Len(entity') : entity'[k] = Token(conn, Current, BlankLine + k)'
    BY <1>12, <1>14, <1>18 DEF Token, BlankLine
  <2> QED BY <1>2, <1>13, <1>17, <1>18, <2>1, <2>2, <2>3 DEF EntityInv
<1>20. ReadingInv' /\ AfterInv'
  BY DEF ReadingInv, Reading, AfterInv, Serving
<1>21. ErrorInv'
  BY <1>1 DEF ErrorInv, Serving
<1>22. ClientInv'
  BY <1>1, <1>8, ClientsKept
<1>23. AnswersMatch'
  <2>1. \A d \in Conns : shut'[d] = shut[d] /\ sent'[d] \in Nat /\ sent[d] <= sent'[d]
    BY <1>1 DEF Typed
  <2> QED BY <1>1, <2>1, AnswersKept
<1> QED BY <1>19, <1>20, <1>21, <1>22, <1>23 DEF Matching

LEMMA FromBufferKeeps ==
    ASSUME EntitiesAreRead, NothingIsLeft, SessionInv, EntityFromBuffer
    PROVE  Matching'
<1> DEFINE n == Smaller(EntityBuf, Len(m_buf))
<1>1. /\ pc = "entity" /\ in_size > 0 /\ m_buf # <<>> /\ Flush(SubSeq(m_buf, 1, n)) /\ m_buf' = SubSeq(m_buf, n + 1, Len(m_buf))
      /\ UNCHANGED <<asks, next, sent, shut, wire, answers, conn, pc, m_line, header, request, done>>
  BY DEF EntityFromBuffer, clientVars
<1>2. Typed /\ conn \in Conns /\ ~done /\ EntityInv
  BY <1>1 DEF SessionInv, ErrorInv, Typed, Serving
<1>3. m_buf \in Seq(Real) /\ wire[conn] \in Seq(Real) /\ Len(m_buf) \in Nat \ {0} /\ Len(Pending) = Len(m_buf) + Len(wire[conn])
      /\ Len(wire[conn]) \in Nat
  BY <1>1, <1>2, PendingReal, EmptySeq
<1>4. n \in 1 .. Len(m_buf) /\ n \in 1 .. Len(Pending) /\ n \in 0 .. Len(m_buf)
  BY <1>3, Sizes DEF Smaller
<1>5. SubSeq(m_buf, 1, n) = SubSeq(Pending, 1, n)
  <2> HIDE DEF n
  <2>1. 1 \in 1 .. Len(m_buf)
    BY <1>3
  <2> QED BY <1>3, <1>4, <2>1, SubSeqOfConcat1 DEF Pending
<1>6. Pending' = SubSeq(Pending, n + 1, Len(Pending))
  <2> HIDE DEF n
  <2> QED BY <1>1, <1>2, <1>4, PendingTaken
<1>7. \A d \in Conns : wire'[d] = wire[d] /\ Len(wire'[d]) <= Len(wire[d]) /\ Len(wire'[d]) \in Nat
  BY <1>1, <1>2, LenProperties DEF Typed
<1>8. (MayServeOn /\ asks[conn][Current].resource = "cgi") => m_buf' = <<>>
  <2> SUFFICES ASSUME MayServeOn, asks[conn][Current].resource = "cgi" PROVE m_buf' = <<>>
    OBVIOUS
  <2> DEFINE e == asks[conn][Current].entity
             l == Len(entity)
  <2>1. e <= EntityBuf /\ e \in Nat /\ EntityBuf \in Nat
    BY <1>1, <1>2, HeadRead, Sizes DEF NothingIsLeft
  <2>2. l \in Nat
    BY <1>2, LenProperties DEF Typed
  <2>3. (BlankLine + l + 1) + Len(m_buf) - 1 <= BlankLine + e
    <3>1. Len(m_buf) \in 1 .. Len(Pending)
      BY <1>3
    <3> QED BY <1>1, <3>1, EntityPending
  <2> HIDE DEF e, l
  <2>4. n = Len(m_buf)
    BY <1>3, <2>1, <2>2, <2>3 DEF Smaller, BlankLine
  <2>5. m_buf' = SubSeq(m_buf, Len(m_buf) + 1, Len(m_buf))
    BY <1>1, <2>4
  <2> QED BY <1>3, <2>5, SubSeqEmpty
<1> HIDE DEF n
<1>9. Flush(SubSeq(Pending, 1, n))
  BY <1>1, <1>5
<1> QED BY <1>1, <1>4, <1>6, <1>7, <1>8, <1>9, EntityTaken

LEMMA FromRecvKeeps ==
    ASSUME EntitiesAreRead, SessionInv, EntityFromRecv
    PROVE  Matching'
<1>1. /\ pc = "entity" /\ in_size > 0 /\ m_buf = <<>>
      /\ UNCHANGED <<asks, next, sent, shut, answers, conn, pc, m_line, m_buf, header, request, done>>
  BY DEF EntityFromRecv, clientVars
<1>2. Typed /\ conn \in Conns
  BY <1>1 DEF SessionInv, Typed, Serving
<1>3. PICK n \in 1 .. Smaller(EntityBuf, Len(wire[conn])) : Flush(Received(n)) /\ Receive(n)
  BY DEF EntityFromRecv
<1>4. n \in 1 .. Len(wire[conn])
  BY <1>2, Taken
<1>5. /\ Pending' = SubSeq(Pending, n + 1, Len(Pending)) /\ n \in 1 .. Len(Pending)
      /\ Received(n) = SubSeq(Pending, 1, n)
  BY <1>1, <1>2, <1>3, <1>4, PendingFetched
<1>6. Flush(SubSeq(Pending, 1, n))
  BY <1>3, <1>5
<1>7. /\ \A d \in Conns \ {conn} : wire'[d] = wire[d]
      /\ Len(wire'[conn]) = Len(wire[conn]) - n /\ n \in Nat /\ \A d \in Conns : Len(wire[d]) \in Nat
  BY <1>2, <1>3, <1>4, Receives, LenProperties DEF Typed
<1>8. \A d \in Conns : Len(wire'[d]) <= Len(wire[d]) /\ Len(wire'[d]) \in Nat
  BY <1>4, <1>7
<1> QED BY <1>1, <1>5, <1>6, <1>7, <1>8, EntityTaken

LEMMA NextKeeps ==
    ASSUME SessionInv, NextRequest
    PROVE  Matching'
<1>1. /\ Typed /\ AfterInv /\ ErrorInv /\ ClientInv /\ AnswersMatch /\ conn \in Conns /\ pc = "after" /\ Serving
      /\ UNCHANGED <<asks, next, sent, shut, wire, answers, conn, m_buf>>
  BY DEF SessionInv, NextRequest, Typed, Serving, clientVars
<1>2. Pending' = Pending /\ \A t : PendingFrom(t)' = PendingFrom(t)
  BY <1>1, RunOf DEF Pending
<1>3. \/ pc' = "release" /\ done' = TRUE
      \/ /\ pc' = "recv" /\ done' = FALSE /\ ~done /\ ~(header # NoHeader /\ KindOf(header).close)
         /\ state' = "STUSLINES" /\ header' = NoHeader /\ request' = <<>> /\ total' = 0 /\ entity' = <<>> /\ m_line' = <<>>
  BY <1>1 DEF NextRequest, ResetRequest, Typed
<1>4. ClientInv'
  BY <1>1, <1>2, Unmoved, NothingElseAsked DEF ClientInv
<1>5. AnswersMatch'
  <2>1. \A d \in Conns : shut'[d] = shut[d] /\ sent'[d] \in Nat /\ sent[d] <= sent'[d]
    BY <1>1 DEF Typed
  <2> QED BY <1>1, <2>1, AnswersKept
<1>6. EntityInv' /\ AfterInv' /\ ErrorInv'
  BY <1>1, <1>3 DEF EntityInv, AfterInv, ErrorInv, Serving
<1>7. ReadingInv'
  <2>1. CASE pc' = "release"
    BY <2>1 DEF ReadingInv, Reading
  <2>2. CASE pc' = "recv"
    <3> DEFINE i == Len(answers[conn])
    <3>1. header = Token(conn, i, HeaderLine) /\ header # NoHeader /\ (asks[conn][i].close \/ PendingFrom(Start(conn, i + 1)))
      BY <1>1, <1>3, <2>2 DEF AfterInv
    <3>2. ~asks[conn][i].close
      BY <1>3, <2>2, <3>1 DEF KindOf, Token
    <3>3. PICK t : t = Start(conn, i + 1)
      OBVIOUS
    <3>4. PendingFrom(t)'
      BY <1>2, <3>1, <3>2, <3>3
    <3>5. t = Start(conn, Current)'
      BY <1>1, <3>3 DEF Start, Token, Current
    <3>6. t \in Heads' /\ Expected(t)'
      BY <1>3, <2>2, <3>5 DEF Heads, Expected
    <3>7. t.place \in Nat /\ Len(m_buf) \in Nat /\ Len(wire[conn]) <= sent[conn] /\ Len(wire[conn]) \in Nat /\ sent[conn] \in Nat
      <4>1. i + 1 \in Nat \ {0}
        BY <1>1, LenProperties DEF Typed
      <4>2. t.place \in Nat
        BY <1>1, <3>3, <4>1, Starts DEF LeadingBlank, StatusLine
      <4> QED BY <1>1, <4>2, PendingReal DEF ClientInv, Typed
    <3>8. total' <= t.place + Len(m_buf') /\ total' + Len(wire'[conn']) <= sent'[conn']
      BY <1>1, <1>3, <2>2, <3>7
    <3> QED BY <1>3, <2>2, <3>4, <3>6, <3>8 DEF ReadingInv
  <2> QED BY <1>3, <2>1, <2>2
<1> QED BY <1>4, <1>5, <1>6, <1>7 DEF Matching

LEMMA ReleaseKeeps ==
    ASSUME SessionInv, ServeAnother \/ EndTask
    PROVE  Matching'
<1>1. /\ Typed /\ AfterInv /\ ErrorInv /\ ClientInv /\ AnswersMatch /\ conn \in Conns /\ pc = "release" /\ pc' = "accept"
      /\ UNCHANGED <<asks, next, sent, wire, answers, conn, done>>
  BY DEF SessionInv, ServeAnother, EndTask, Typed, Serving
<1>2. shut' = [shut EXCEPT ![conn] = TRUE]
  BY DEF ServeAnother, EndTask, Disconnect
<1>3. \A d \in Conns : (shut[d] => shut'[d]) /\ (shut'[d] => shut[d] \/ d = conn)
  BY <1>1, <1>2 DEF Typed
<1>4. m_buf' = <<>>
  BY <1>1 DEF ServeAnother, EndTask, AfterInv
<1>5. ReadingInv' /\ EntityInv' /\ AfterInv'
  BY <1>1, <1>4 DEF ReadingInv, Reading, EntityInv, AfterInv
<1>6. ErrorInv'
  BY <1>1, <1>3 DEF ErrorInv, Serving
<1>7. ClientInv'
  BY <1>1, NothingElseAsked DEF ClientInv, Serving
<1>8. AnswersMatch'
  <2>1. \A d \in Conns : sent'[d] \in Nat /\ sent[d] <= sent'[d]
    BY <1>1 DEF Typed
  <2> QED BY <1>1, <1>3, <2>1, AnswersKept
<1> QED BY <1>5, <1>6, <1>7, <1>8 DEF Matching

LEMMA MatchingInit ==
    SessionInit => SessionInv
<1> SUFFICES ASSUME SessionInit PROVE SessionInv
  OBVIOUS
<1>1. Typed
  BY TypedInit
<1>2. /\ pc = "accept" /\ ~done /\ m_buf = <<>> /\ conn = 0
      /\ \A c \in Conns : next[c] = Start(c, 1) /\ wire[c] = <<>> /\ answers[c] = <<>> /\ sent[c] = 0 /\ ~shut[c]
  BY DEF SessionInit
<1>3. Len(<<>>) = 0
  BY EmptySeq
<1> QED BY <1>1, <1>2, <1>3 DEF SessionInv, ReadingInv, Reading, EntityInv, AfterInv, ErrorInv, ClientInv, AnswersMatch, Serving

LEMMA MatchingStep ==
    ASSUME EntitiesAreRead, NothingIsLeft, SessionInv, [SessionNext]_vars
    PROVE  SessionInv'
<1>1. Typed'
  BY TypedStep DEF SessionInv
<1>2. Matching'
  <2>1. CASE UNCHANGED vars
    <3>1. UNCHANGED <<asks, next, sent, shut, wire, answers, conn, pc, m_line, m_buf, state, header, request, total, done, in_size, entity>>
      BY <2>1 DEF vars
    <3>2. Pending' = Pending /\ \A t : PendingFrom(t)' = PendingFrom(t)
      BY <3>1, RunOf DEF Pending
    <3>3. ReadingInv'
      BY <3>1, <3>2, Unmoved DEF SessionInv, ReadingInv, Reading
    <3>4. EntityInv'
      BY <3>1, <3>2, Unmoved, NothingElseAsked DEF SessionInv, EntityInv, Head3, Token
    <3>5. AfterInv' /\ ErrorInv'
      BY <3>1, <3>2, Unmoved, NothingElseAsked DEF SessionInv, AfterInv, ErrorInv, Token, Serving
    <3>6. ClientInv'
      BY <3>1, <3>2, Unmoved, NothingElseAsked DEF SessionInv, ClientInv, Serving
    <3>7. AnswersMatch'
      BY <3>1 DEF SessionInv, AnswersMatch, Head3, Token
    <3> QED BY <3>3, <3>4, <3>5, <3>6, <3>7 DEF Matching
  <2>2. CASE ClientNext
    BY <2>2, SendsKeeps, ClosesKeeps DEF ClientNext
  <2>3. CASE ThreadNext
    BY <2>3, AcceptKeeps, NoMoreKeeps, RecvKeeps, RecvEndKeeps, NothingKeeps, SkipKeeps, StatusKeeps,
       HeaderKeeps, BlankKeeps, ErrorKeeps, RightKeeps, StartKeeps, FromBufferKeeps, FromRecvKeeps,
       NextKeeps, ReleaseKeeps DEF ThreadNext
  <2> QED BY <2>1, <2>2, <2>3 DEF SessionNext, Over
<1> QED BY <1>1, <1>2 DEF SessionInv, Matching

LEMMA AlwaysMatching ==
    ASSUME EntitiesAreRead, NothingIsLeft
    PROVE  SessionSpec => []SessionInv
<1>1. SessionInv /\ [SessionNext]_vars => SessionInv'
  BY MatchingStep
<1> QED BY <1>1, MatchingInit, PTL DEF SessionSpec

\* Whatever the clients' pieces and the moments of the thread, the n-th answer of
\* a client is the answer to its n-th request, whose head was read as it was sent,
\* and an error page is the client's doing: provided that the entities that were
\* asked to be sent are read to their end or the connection ends with them, and
\* that a thread that goes on with the next client has nothing left of this one.
THEOREM AnswersMatchRequests ==
    ASSUME EntitiesAreRead, NothingIsLeft
    PROVE  SessionSpec => []AnswersMatch
<1>1. SessionInv => AnswersMatch
  BY DEF SessionInv
<1> QED BY <1>1, AlwaysMatching, PTL

\* On the same terms the resource gets the entity of the request it answers,
\* token by token from its start, and none of the next request.
THEOREM EntitiesAreOwn ==
    ASSUME EntitiesAreRead, NothingIsLeft
    PROVE  SessionSpec => []EntityIsOwn
<1>1. SessionInv => EntityIsOwn
  <2> SUFFICES ASSUME SessionInv, pc = "entity", NEW k \in 1 .. Len(entity)
               PROVE  /\ entity[k] = Token(conn, Len(answers[conn]) + 1, BlankLine + k)
                      /\ k <= asks[conn][Len(answers[conn]) + 1].entity
    BY DEF EntityIsOwn
  <2>1. ~done /\ EntityInv /\ Typed
    BY DEF SessionInv, ErrorInv
  <2>2. /\ entity[k] = Token(conn, Current, BlankLine + k)
        /\ Len(entity) + in_size = asks[conn][Current].entity /\ Len(entity) \in Nat /\ in_size \in Nat
    BY <2>1, LenProperties DEF EntityInv, Typed
  <2>3. k <= asks[conn][Current].entity
    BY <2>2
  <2> QED BY <2>2, <2>3 DEF Current
<1> QED BY <1>1, AlwaysMatching, PTL

\* What the thread reads, keeps and hands on while it serves a client came from
\* that client: always where the pool gives each connection a thread of its own,
\* and on the terms above where a thread goes on with the next client.
THEOREM ClientsAreKeptApart ==
    ASSUME ~MayServeOn \/ (EntitiesAreRead /\ NothingIsLeft)
    PROVE  SessionSpec => []OnlyThisClient
<1>1. Owns => OnlyThisClient
  <2> SUFFICES ASSUME Owns, Serving, NEW held \in {m_line, m_buf, request, entity}, NEW k \in 1 .. Len(held)
               PROVE  held[k].conn = conn
    BY DEF OnlyThisClient, Serving
  <2>1. held \in Seq(From(conn))
    BY DEF Owns
  <2> QED BY <2>1, ElementOfSeq DEF From
<1>2. CASE ~MayServeOn
  <2>1. Typed /\ Owns /\ [SessionNext]_vars => Owns'
    BY <1>2, OwnsStep DEF ServeAnother
  <2> QED BY <1>1, <2>1, AlwaysTyped, OwnsInit, PTL DEF SessionSpec
<1>3. CASE MayServeOn /\ EntitiesAreRead /\ NothingIsLeft
  <2>1. SessionInv /\ ServeAnother => Typed /\ m_buf = <<>>
    BY DEF SessionInv, AfterInv, ServeAnother
  <2>2. SessionInv /\ Owns /\ [SessionNext]_vars => Owns'
    BY <2>1, OwnsStep DEF SessionInv
  <2>3. SessionSpec => []SessionInv
    BY <1>3, AlwaysMatching
  <2> QED BY <1>1, <2>2, <2>3, OwnsInit, PTL DEF SessionSpec
<1>4. MayServeOn \in BOOLEAN
  BY SessionAssumption
<1> QED BY <1>2, <1>3, <1>4
=============================================================================
