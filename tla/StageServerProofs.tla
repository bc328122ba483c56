------------------------- MODULE StageServerProofs --------------------------
(***************************************************************************)
(* Theorems about the server of ziahttpd-mod, for any number of clients    *)
(* and requests, any file and a table of any size.                         *)
(***************************************************************************)
EXTENDS StageServer, FiniteSetTheorems, SequenceTheorems, TLAPS

-----------------------------------------------------------------------------
(* The inductive invariant.                                                *)

Entry == [used : BOOLEAN, hsock : ConFds \cup {0, ListenFd},
          onread : {"none", "accept", "read"}, onwrite : {"none", "send"}]

Session == [hsock : ConFds, stage : Stages, lines : SUBSET Clients,
            chunked : BOOLEAN, first : BOOLEAN, last : BOOLEAN, header : BOOLEAN,
            content : {"none", "data", "chunk", "end"}, left : Nat]

\* A client has one connection, in the queue or behind a descriptor.
Connections ==
    /\ \A h, k \in ConFds : owner[h] = owner[k] /\ owner[h] # NoClient => h = k
    /\ \A i, j \in DOMAIN queue : queue[i] = queue[j] => i = j
    /\ \A i \in DOMAIN queue : peer[queue[i]] # "away" /\ \A h \in ConFds : owner[h] # queue[i]
    /\ \A h \in ConFds : owner[h] # NoClient => peer[owner[h]] # "away"

\* The first entry is the listening socket's, always asked for; the others are
\* connections, no two of them the same.
Table ==
    /\ sockios[1] = [used |-> TRUE, hsock |-> ListenFd, onread |-> "accept", onwrite |-> "none"]
    /\ \A e \in Used \ {1} :
            /\ sockios[e].hsock \in ConFds /\ owner[sockios[e].hsock] # NoClient
            /\ sockios[e].onread \in {"none", "read"}
    /\ \A d, e \in Used : sockios[d].hsock = sockios[e].hsock => d = e
    /\ nr_used = Cardinality(Used)
    /\ hsock_max = Highest({sockios[e].hsock : e \in Used})

\* A session for every entry and every connection that can be closed, none for
\* two sessions.
OneSession ==
    /\ \A j, k \in DOMAIN sessions : sessions[j].hsock = sessions[k].hsock => j = k
    /\ \A k \in DOMAIN sessions : owner[sessions[k].hsock] # NoClient
    /\ \A e \in Used \ {1} : \E k \in DOMAIN sessions : sessions[k].hsock = sockios[e].hsock
    /\ \A h \in ConFds : owner[h] # NoClient /\ peer[owner[h]] # "dead" =>
            \E k \in DOMAIN sessions : sessions[k].hsock = h

\* What a handler is there for is what its session waits for; what is sent has
\* been altered.
Asked ==
    /\ \A k \in DOMAIN sessions : \A e \in Used : sockios[e].hsock = sessions[k].hsock =>
            /\ sockios[e].onread = "read" => sessions[k].stage = "READ_RQST_METADATA"
            /\ sockios[e].onwrite = "send" => /\ sessions[k].stage = "SEND_RESP"
                                              /\ sessions[k].header \/ sessions[k].content # "none"
    /\ \A k \in DOMAIN sessions :
            /\ sessions[k].stage = "ALTER_RESP_DATA" => sessions[k].chunked
            /\ sessions[k].content = "data" => sessions[k].stage = "ALTER_RESP_DATA"

\* The entries the loop has still to come to.
ToRead(p)  == {e \in Entries : e >= p /\ Reads(e)}
ToWrite(p) == {e \in Entries : e >= p /\ Writes(e)}

\* Every event counted is one of them, with its handler; only the entry whose
\* handler is being run has none.
Events ==
    /\ at \in {"select", "process"} => pos = 1 /\ rdset = {} /\ wrset = {}
    /\ at \in {"loop", "lines", "close"} =>
            nev = Cardinality(ToRead(pos)) + Cardinality(ToWrite(pos))
    /\ at \in {"loop", "lines", "close"} =>
            \A e \in Entries : e > pos \/ (e = pos /\ at = "loop") =>
                /\ Reads(e)  => sockios[e].onread # "none"
                /\ Writes(e) => sockios[e].onwrite # "none"
    /\ at \in {"lines", "close"} =>
            /\ pos \in Used \ {1} /\ sockios[pos].onread = "none" /\ sockios[pos].onwrite = "none"
            /\ IF at = "lines" THEN Reads(pos) /\ ~Writes(pos) ELSE Reads(pos) <=> ~Writes(pos)
    /\ at = "lines" => \E k \in DOMAIN sessions : /\ sessions[k].hsock = sockios[pos].hsock
                                                  /\ sessions[k].stage = "READ_RQST_METADATA"
    /\ at = "loop" /\ pos = 1 =>
            /\ ListenFd \in rdset => queue # <<>>
            /\ \A h \in rdset \cup wrset : \E e \in Used : sockios[e].hsock = h

\* What has not been taken from a client.
Last(s) == s[Len(s)].what

\* The bytes in a block are its client's own, but for the beginning of a line
\* that a client has left behind; a beginning of its own is the last it has sent
\* when there is nothing else.
Bytes ==
    /\ \A c \in Clients :
            /\ \A i \in DOMAIN inbox[c] : inbox[c][i].from = c
            /\ inbox[c] # <<>> /\ Last(inbox[c]) = "half" => mid[c] = "half"
            /\ peer[c] = "away" => mid[c] = "none"
            /\ mid[c] # "none" => asked[c] < MaxRequests[c]
    /\ \A h \in ConFds :
            /\ owner[h] = NoClient => blocks[h].buf = <<>>
            /\ \A i \in DOMAIN blocks[h].buf : blocks[h].buf[i].from = owner[h]
            /\ \A d \in blocks[h].line : d = owner[h] \/ (mid[d] = "half" /\ peer[d] # "open")
            /\ owner[h] # NoClient /\ inbox[owner[h]] = <<>> =>
                /\ blocks[h].buf # <<>> /\ Last(blocks[h].buf) = "half" => mid[owner[h]] = "half"
                /\ blocks[h].buf = <<>> /\ owner[h] \in blocks[h].line => mid[owner[h]] = "half"

\* A connection is closed when its peer has left and everything was read, or is
\* leaked.
Closing ==
    at = "close" =>
        LET h == sockios[pos].hsock
        IN  \/ peer[owner[h]] = "dead"
            \/ peer[owner[h]] = "closed" /\ blocks[h].buf = <<>> /\ inbox[owner[h]] = <<>>

\* The types, in four parts.
PeopleTyped ==
    /\ owner \in [ConFds -> Clients \cup {NoClient}] /\ queue \in Seq(Clients)
    /\ peer \in [Clients -> {"away", "open", "closed", "reset", "dead"}]
    /\ mid \in [Clients -> {"none", "half", "line"}]
    /\ asked \in [Clients -> Nat] /\ \A c \in Clients : asked[c] <= MaxRequests[c]
    /\ got \in [Clients -> Seq({"header", "chunk", "end"})] /\ served \in [Clients -> Seq(Nat)]

BytesTyped ==
    /\ inbox \in [Clients -> Seq(Token)]
    /\ blocks \in [ConFds -> [buf : Seq(Token), line : SUBSET Clients]]

LoopTyped ==
    /\ at \in {"select", "loop", "lines", "close", "process"}
    /\ pos \in Nat /\ nev \in Nat /\ cur \in Nat
    /\ rdset \subseteq ConFds \cup {ListenFd} /\ wrset \subseteq ConFds

TablesTyped ==
    /\ sockios \in [Entries -> Entry] /\ sessions \in Seq(Session)
    /\ nr_used \in 0 .. NSOCKIO /\ hsock_max \in ConFds \cup {0, ListenFd}

Typed == PeopleTyped /\ BytesTyped /\ LoopTyped /\ TablesTyped

StageInv == Typed /\ Connections /\ Table /\ OneSession /\ Asked /\ Events /\ Bytes /\ Closing /\ OwnLines

-----------------------------------------------------------------------------
(* Numbers.                                                                *)

LEMMA Sizes ==
    /\ Cardinality(Clients) \in Nat /\ NSOCKIO \in Nat \ {0} /\ ListenFd = 1
    /\ ConFds = 2 .. Cardinality(Clients) + 1 /\ ListenFd \notin ConFds /\ ConFds \subseteq Nat \ {0}
    /\ Entries = 1 .. NSOCKIO /\ 1 \in Entries
  BY StageAssumption, FS_CardinalityType DEF ConFds, ListenFd, Entries

LEMMA Subsets ==
    \A S \in SUBSET Entries :
        /\ IsFiniteSet(S) /\ Cardinality(S) \in Nat
        /\ \A x \in S : Cardinality(S \ {x}) = Cardinality(S) - 1 /\ Cardinality(S) > 0
        /\ \A x \in Entries \ S : Cardinality(S \cup {x}) = Cardinality(S) + 1
        /\ Cardinality(S) <= NSOCKIO
        /\ Cardinality(S) = NSOCKIO => S = Entries
<1> TAKE S \in SUBSET Entries
<1>1. IsFiniteSet(Entries) /\ Cardinality(Entries) = NSOCKIO
  BY Sizes, FS_Interval
<1>2. /\ IsFiniteSet(S) /\ Cardinality(S) \in Nat /\ Cardinality(S) <= NSOCKIO
      /\ Cardinality(S) = NSOCKIO => S = Entries
  BY <1>1, FS_Subset, FS_CardinalityType
<1>3. ASSUME NEW x \in S
      PROVE  Cardinality(S \ {x}) = Cardinality(S) - 1 /\ Cardinality(S) > 0
  <2>1. IsFiniteSet(S \ {x}) /\ Cardinality(S \ {x}) = Cardinality(S) - 1
    BY <1>2, FS_RemoveElement
  <2>2. Cardinality(S \ {x}) \in Nat
    BY <2>1, FS_CardinalityType
  <2> QED BY <1>2, <2>1, <2>2
<1>4. \A x \in Entries \ S : Cardinality(S \cup {x}) = Cardinality(S) + 1
  BY <1>2, FS_AddElement
<1> QED BY <1>2, <1>3, <1>4

LEMMA SmallestNat ==
    ASSUME NEW S \in SUBSET Nat, S # {}
    PROVE  \E n \in S : \A k \in S : n <= k
<1> DEFINE less == {ss \in Nat \X Nat : ss[1] < ss[2]}
<1>1. IsWellFoundedOn(less, Nat)
  BY NatLessThanWellFounded DEF OpToRel
<1>2. PICK n \in S : \A k \in S : <<k, n>> \notin less
  <2> HIDE DEF less
  <2> QED BY <1>1, WFMin
<1>3. \A k \in S : ~(k < n)
  BY <1>2
<1> QED BY <1>3

LEMMA LowestIn ==
    ASSUME NEW S \in SUBSET Nat, S # {}
    PROVE  Lowest(S) \in S
  BY SmallestNat DEF Lowest

LEMMA HighestIs ==
    ASSUME NEW S \in SUBSET Nat, NEW h \in S, \A k \in S : k <= h
    PROVE  Highest(S) = h
<1>1. S # {} /\ \E x \in S : \A k \in S : k <= x
  OBVIOUS
<1>2. Highest(S) \in S /\ \A k \in S : k <= Highest(S)
  BY <1>1 DEF Highest
<1> DEFINE g == Highest(S)
<1>3. g \in Nat /\ h \in Nat /\ g <= h /\ h <= g
  BY <1>2
<1> HIDE DEF g
<1>4. g = h
  BY <1>3
<1> QED BY <1>4 DEF g

LEMMA HighestIn ==
    ASSUME NEW S \in SUBSET Nat, S # {}, NEW n \in Nat, \A k \in S : k <= n
    PROVE  Highest(S) \in S /\ \A k \in S : k <= Highest(S)
<1> DEFINE T == {m \in Nat : \E k \in S : m = n - k}
<1>1. PICK m \in T : \A j \in T : m <= j
  <2>1. T \in SUBSET Nat /\ T # {}
    <3>1. PICK k \in S : TRUE
      OBVIOUS
    <3>2. n - k \in T
      BY <3>1
    <3> QED BY <3>2
  <2> HIDE DEF T
  <2> QED BY <2>1, SmallestNat
<1>2. PICK h \in S : m = n - h
  BY <1>1
<1>3. \A k \in S : n - k \in T /\ m <= n - k
  BY <1>1
<1>4. \A k \in S : k <= h
  BY <1>2, <1>3
<1> QED BY <1>4, HighestIs

-----------------------------------------------------------------------------
(* The table.                                                              *)

LEMMA CalledIs ==
    ASSUME NEW t \in [Entries -> Entry], NEW e \in Entries
    PROVE  /\ Called(t, e, "onread") \in [Entries -> Entry]
           /\ Called(t, e, "onwrite") \in [Entries -> Entry]
           /\ \A d \in Entries :
                /\ Called(t, e, "onread")[d].used = t[d].used
                /\ Called(t, e, "onread")[d].hsock = t[d].hsock
                /\ Called(t, e, "onread")[d].onwrite = t[d].onwrite
                /\ Called(t, e, "onread")[d].onread = IF d = e THEN "none" ELSE t[d].onread
                /\ Called(t, e, "onwrite")[d].used = t[d].used
                /\ Called(t, e, "onwrite")[d].hsock = t[d].hsock
                /\ Called(t, e, "onwrite")[d].onread = t[d].onread
                /\ Called(t, e, "onwrite")[d].onwrite = IF d = e THEN "none" ELSE t[d].onwrite
                /\ d # e => Called(t, e, "onread")[d] = t[d] /\ Called(t, e, "onwrite")[d] = t[d]
  BY DEF Called, Entry

LEMMA ArmedToRead ==
    ASSUME NEW t \in [Entries -> Entry], NEW h, NEW x \in {"accept", "read"}
    PROVE  /\ Armed(t, h, "onread", x) \in [Entries -> Entry]
           /\ \A d \in Entries :
                /\ Armed(t, h, "onread", x)[d].used = t[d].used
                /\ Armed(t, h, "onread", x)[d].hsock = t[d].hsock
                /\ Armed(t, h, "onread", x)[d].onwrite = t[d].onwrite
                /\ Armed(t, h, "onread", x)[d].onread =
                     IF t[d].used /\ t[d].hsock = h /\ t[d].onread = "none" THEN x ELSE t[d].onread
                /\ t[d].hsock # h => Armed(t, h, "onread", x)[d] = t[d]
  BY DEF Armed, Entry

LEMMA ArmedToWrite ==
    ASSUME NEW t \in [Entries -> Entry], NEW h
    PROVE  /\ Armed(t, h, "onwrite", "send") \in [Entries -> Entry]
           /\ \A d \in Entries :
                /\ Armed(t, h, "onwrite", "send")[d].used = t[d].used
                /\ Armed(t, h, "onwrite", "send")[d].hsock = t[d].hsock
                /\ Armed(t, h, "onwrite", "send")[d].onread = t[d].onread
                /\ Armed(t, h, "onwrite", "send")[d].onwrite =
                     IF t[d].used /\ t[d].hsock = h /\ t[d].onwrite = "none" THEN "send" ELSE t[d].onwrite
                /\ t[d].hsock # h => Armed(t, h, "onwrite", "send")[d] = t[d]
  BY DEF Armed, Entry

-----------------------------------------------------------------------------
(* The sessions.                                                           *)

LEMMA Members ==
    ASSUME TablesTyped
    PROVE  /\ Len(sessions) \in Nat /\ DOMAIN sessions = 1 .. Len(sessions)
           /\ \A k \in DOMAIN sessions :
                /\ sessions[k] \in Session /\ sessions[k].hsock \in ConFds
                /\ \A d \in sessions[k].lines : d \in Clients
<1>1. /\ Len(sessions) \in Nat /\ DOMAIN sessions = 1 .. Len(sessions)
      /\ \A k \in DOMAIN sessions : sessions[k] \in Session
  BY DEF TablesTyped
<1>2. \A s \in Session : s.hsock \in ConFds /\ \A d \in s.lines : d \in Clients
  BY DEF Session
<1> QED BY <1>1, <1>2

LEMMA SessionFound ==
    ASSUME OneSession, NEW k \in DOMAIN sessions, sessions \in Seq(Session)
    PROVE  SessionOf(sessions[k].hsock) = k
<1> DEFINE S == {j \in DOMAIN sessions : sessions[j].hsock = sessions[k].hsock}
<1>1. S = {k}
  BY DEF OneSession
<1>2. k \in Nat
  OBVIOUS
<1>3. Lowest(S) = k
  BY <1>1, <1>2 DEF Lowest
<1> QED BY <1>1, <1>3 DEF SessionOf

LEMMA WithoutIs ==
    ASSUME sessions \in Seq(Session), NEW k \in DOMAIN sessions
    PROVE  /\ Without(k) \in Seq(Session)
           /\ DOMAIN Without(k) = 1 .. Len(sessions) - 1
           /\ \A i \in DOMAIN Without(k) :
                  Without(k)[i] = sessions[IF i < k THEN i ELSE i + 1]
<1> DEFINE a == SubSeq(sessions, 1, k - 1)
           b == SubSeq(sessions, k + 1, Len(sessions))
<1>1. /\ Len(sessions) \in Nat /\ k \in 1 .. Len(sessions)
      /\ \A i \in 1 .. Len(sessions) : sessions[i] \in Session
  OBVIOUS
<1>2. /\ a \in Seq(Session) /\ Len(a) = k - 1
      /\ \A i \in 1 .. k - 1 : a[i] = sessions[i]
  <2>1. 1 \in Int /\ k - 1 \in Int /\ \A i \in 1 .. k - 1 : sessions[i] \in Session
    BY <1>1
  <2>2. /\ a \in Seq(Session) /\ Len(a) = IF 1 <= k - 1 THEN (k - 1) - 1 + 1 ELSE 0
        /\ \A i \in 1 .. (k - 1) - 1 + 1 : a[i] = sessions[1 + i - 1]
    BY <2>1, SubSeqProperties
  <2> QED BY <1>1, <2>2
<1>3. /\ b \in Seq(Session) /\ Len(b) = Len(sessions) - k
      /\ \A i \in 1 .. Len(sessions) - k : b[i] = sessions[k + i]
  <2>1. k + 1 \in Int /\ Len(sessions) \in Int /\ \A i \in k + 1 .. Len(sessions) : sessions[i] \in Session
    BY <1>1
  <2>2. /\ b \in Seq(Session) /\ Len(b) = IF k + 1 <= Len(sessions) THEN Len(sessions) - (k + 1) + 1 ELSE 0
        /\ \A i \in 1 .. Len(sessions) - (k + 1) + 1 : b[i] = sessions[(k + 1) + i - 1]
    BY <2>1, SubSeqProperties
  <2> QED BY <1>1, <2>2
<1> HIDE DEF a, b
<1>4. /\ a \o b \in Seq(Session) /\ Len(a \o b) = Len(a) + Len(b)
      /\ \A i \in 1 .. Len(a) + Len(b) : (a \o b)[i] = IF i <= Len(a) THEN a[i] ELSE b[i - Len(a)]
  BY <1>2, <1>3, ConcatProperties
<1>5. Without(k) = a \o b
  BY DEF Without, a, b
<1>6. DOMAIN Without(k) = 1 .. Len(sessions) - 1
  BY <1>1, <1>2, <1>3, <1>4, <1>5
<1>7. ASSUME NEW i \in 1 .. Len(sessions) - 1
      PROVE  (a \o b)[i] = sessions[IF i < k THEN i ELSE i + 1]
  <2>1. (a \o b)[i] = IF i <= k - 1 THEN a[i] ELSE b[i - (k - 1)]
    <3>1. Len(a) + Len(b) = Len(sessions) - 1
      BY <1>1, <1>2, <1>3
    <3> QED BY <1>2, <1>4, <3>1
  <2>2. CASE i < k
    BY <1>1, <1>2, <2>1, <2>2
  <2>3. CASE ~(i < k)
    <3>1. i - (k - 1) \in 1 .. Len(sessions) - k /\ ~(i <= k - 1) /\ k + (i - (k - 1)) = i + 1
      BY <1>1, <2>3
    <3> QED BY <1>3, <2>1, <2>3, <3>1
  <2> QED BY <2>2, <2>3
<1> QED BY <1>4, <1>5, <1>6, <1>7

\* A stage leads to another one of the same connection, or to a new request.
LEMMA NextStageIs ==
    ASSUME NEW s \in Session
    PROVE  /\ NextStage(s) \in Session /\ NextStage(s).hsock = s.hsock
           /\ NextStage(s).lines = s.lines \/ NextStage(s).lines = {}
           /\ NextStage(s).stage = "ALTER_RESP_DATA" => s.stage = "BUILD_RESP_DATA"
           /\ s.stage = "BUILD_RESP_DATA" => NextStage(s).stage = "ALTER_RESP_DATA"
           /\ s.stage # "SEND_RESP" => NextStage(s).chunked = s.chunked
           /\ NextStage(s).content = s.content \/ NextStage(s).content = "none"
<1>1. CASE s.stage = "SEND_RESP" /\ ~s.chunked
  BY <1>1 DEF NextStage, NewSession, Session, Stages
<1>2. CASE s.stage = "SEND_RESP" /\ s.chunked
  BY <1>2 DEF NextStage, Session, Stages
<1>3. CASE s.stage # "SEND_RESP"
  BY <1>3 DEF NextStage, Session, Stages
<1> QED BY <1>1, <1>2, <1>3

-----------------------------------------------------------------------------
(* The clients.                                                            *)

LEMMA ConnectInv ==
    ASSUME StageInv, NEW c \in Clients, Connect(c)
    PROVE  StageInv'
<1>1. /\ peer[c] = "away" /\ peer' = [peer EXCEPT ![c] = "open"] /\ queue' = Append(queue, c)
      /\ UNCHANGED <<owner, inbox, mid, asked, got, table, loop, sessions, cur, blocks, served>>
  BY DEF Connect
<1>2. UNCHANGED <<sockios, nr_used, hsock_max, at, pos, nev, rdset, wrset>>
  BY <1>1 DEF table, loop
<1>3. PeopleTyped /\ BytesTyped /\ LoopTyped /\ TablesTyped
  BY DEF StageInv, Typed
<1>4. PeopleTyped'
  BY <1>1, <1>3 DEF PeopleTyped
<1>5. Typed'
  BY <1>1, <1>2, <1>3, <1>4 DEF Typed, BytesTyped, LoopTyped, TablesTyped
<1>6. /\ \A i \in DOMAIN queue : queue[i] # c
      /\ \A h \in ConFds : owner[h] # NoClient => owner[h] # c
  BY <1>1 DEF StageInv, Connections
<1>7. \A d \in Clients : d # c => peer'[d] = peer[d]
  BY <1>1, <1>3 DEF PeopleTyped
<1>8. peer'[c] = "open" /\ c # NoClient
  BY <1>1, <1>3, StageAssumption DEF PeopleTyped
<1>9. /\ Len(queue) \in Nat /\ DOMAIN queue' = 1 .. Len(queue) + 1 /\ queue'[Len(queue) + 1] = c
      /\ \A i \in 1 .. Len(queue) : queue'[i] = queue[i] /\ queue[i] \in Clients
      /\ DOMAIN queue = 1 .. Len(queue)
  BY <1>1, <1>3 DEF PeopleTyped
<1>10. \A h \in ConFds : owner[h] \in Clients \cup {NoClient}
  BY <1>3 DEF PeopleTyped
<1>11. Connections'
  <2>1. \A i \in 1 .. Len(queue) + 1 : i \in DOMAIN queue \/ (i = Len(queue) + 1 /\ queue'[i] = c)
    BY <1>9
  <2> QED BY <1>1, <1>6, <1>7, <1>8, <1>9, <1>10, <2>1 DEF StageInv, Connections
<1>12. Table'
  BY <1>1, <1>2 DEF StageInv, Table, Used
<1>13. OneSession'
  BY <1>1, <1>2, <1>6, <1>7, <1>10 DEF StageInv, OneSession, Used
<1>14. Asked'
  BY <1>1, <1>2 DEF StageInv, Asked, Used
<1>15. Events'
  <2>1. queue' # <<>>
    BY <1>9
  <2> QED BY <1>1, <1>2, <2>1 DEF StageInv, Events, ToRead, ToWrite, Reads, Writes, Used
<1>16. mid[c] = "none"
  BY <1>1 DEF StageInv, Bytes
<1>17. \A d \in Clients : mid[d] = "half" => peer'[d] = peer[d]
  BY <1>7, <1>16
<1>18. Bytes'
  <2>1. \A h \in ConFds : \A d \in blocks[h].line : d \in Clients
    BY <1>3 DEF BytesTyped
  <2> QED BY <1>1, <1>8, <1>7, <1>17, <2>1 DEF StageInv, Bytes, Last
<1>19. Closing'
  <2>1. at = "close" => sockios[pos].hsock \in ConFds /\ owner[sockios[pos].hsock] # NoClient
    BY DEF StageInv, Events, Table
  <2> QED BY <1>1, <1>2, <1>6, <1>7, <1>10, <2>1 DEF StageInv, Closing
<1>20. OwnLines'
  <2>1. \A k \in DOMAIN sessions : \A d \in sessions[k].lines : d \in Clients
    BY <1>3, Members
  <2> QED BY <1>1, <1>17, <2>1 DEF StageInv, OwnLines
<1> QED BY <1>5, <1>11, <1>12, <1>13, <1>14, <1>15, <1>18, <1>19, <1>20 DEF StageInv

LEMMA LeaveInv ==
    ASSUME StageInv, NEW c \in Clients, Leave(c)
    PROVE  StageInv'
<1>1. PICK how \in {"closed", "reset"} : peer' = [peer EXCEPT ![c] = how]
  BY DEF Leave
<1>2. /\ peer[c] = "open"
      /\ UNCHANGED <<owner, queue, inbox, mid, asked, got, sessions, cur, blocks, served>>
      /\ UNCHANGED <<sockios, nr_used, hsock_max, at, pos, nev, rdset, wrset>>
  BY DEF Leave, table, loop
<1>3. PeopleTyped /\ BytesTyped /\ LoopTyped /\ TablesTyped
  BY DEF StageInv, Typed
<1>4. PeopleTyped'
  BY <1>1, <1>2, <1>3 DEF PeopleTyped
<1>5. Typed'
  BY <1>2, <1>3, <1>4 DEF Typed, BytesTyped, LoopTyped, TablesTyped
<1>6. \A d \in Clients : IF d = c THEN peer'[d] \in {"closed", "reset"} /\ peer[d] = "open" ELSE peer'[d] = peer[d]
  BY <1>1, <1>2, <1>3 DEF PeopleTyped
<1>7. /\ \A h \in ConFds : owner[h] \in Clients \cup {NoClient}
      /\ \A i \in DOMAIN queue : queue[i] \in Clients
  BY <1>3 DEF PeopleTyped
<1>8. Connections'
  BY <1>2, <1>6, <1>7 DEF StageInv, Connections
<1>9. Table' /\ Asked'
  BY <1>2 DEF StageInv, Table, Asked, Used
<1>10. OneSession'
  BY <1>2, <1>6, <1>7 DEF StageInv, OneSession, Used
<1>11. Events'
  BY <1>2 DEF StageInv, Events, ToRead, ToWrite, Reads, Writes, Used
<1>12. Bytes'
  <2>1. \A h \in ConFds : \A d \in blocks[h].line : d \in Clients
    BY <1>3 DEF BytesTyped
  <2> QED BY <1>2, <1>6, <2>1 DEF StageInv, Bytes, Last
<1>13. Closing'
  <2>1. at = "close" => sockios[pos].hsock \in ConFds /\ owner[sockios[pos].hsock] # NoClient
    BY DEF StageInv, Events, Table
  <2> QED BY <1>2, <1>6, <1>7, <2>1 DEF StageInv, Closing
<1>14. OwnLines'
  <2>1. \A k \in DOMAIN sessions : \A d \in sessions[k].lines : d \in Clients
    BY <1>3, Members
  <2> QED BY <1>2, <1>6, <2>1 DEF StageInv, OwnLines
<1> QED BY <1>5, <1>8, <1>9, <1>10, <1>11, <1>12, <1>13, <1>14 DEF StageInv

\* What a client sends comes last, and half a line leaves it in the middle of one.
LEMMA SendInv ==
    ASSUME StageInv, NEW c \in Clients,
           NEW what \in {"half", "line", "blank"}, NEW next \in {"none", "half", "line"},
           Send(c, what, next), what = "half" => next = "half",
           asked' \in [Clients -> Nat], \A d \in Clients : asked'[d] <= MaxRequests[d],
           \A d \in Clients : d # c => asked'[d] = asked[d],
           next # "none" => asked'[c] < MaxRequests[c]
    PROVE  StageInv'
<1> DEFINE token == [from |-> c, what |-> what]
<1>1. /\ peer[c] = "open" /\ inbox' = [inbox EXCEPT ![c] = Append(@, token)]
      /\ mid' = [mid EXCEPT ![c] = next]
      /\ UNCHANGED <<owner, queue, peer, got, sessions, cur, blocks, served>>
      /\ UNCHANGED <<sockios, nr_used, hsock_max, at, pos, nev, rdset, wrset>>
  BY DEF Send, table, loop
<1>2. token \in Token /\ token.from = c /\ token.what = what
  BY DEF Token
<1> HIDE DEF token
<1>3. PeopleTyped /\ BytesTyped /\ LoopTyped /\ TablesTyped
  BY DEF StageInv, Typed
<1>4. PeopleTyped'
  BY <1>1, <1>3 DEF PeopleTyped
<1>5. inbox' \in [Clients -> Seq(Token)]
  BY <1>1, <1>2, <1>3 DEF BytesTyped
<1>6. Typed'
  BY <1>1, <1>3, <1>4, <1>5 DEF Typed, BytesTyped, LoopTyped, TablesTyped
<1>7. /\ inbox'[c] # <<>> /\ Last(inbox'[c]) = what
      /\ \A i \in DOMAIN inbox'[c] : inbox'[c][i] = token \/ (i \in DOMAIN inbox[c] /\ inbox'[c][i] = inbox[c][i])
  <2>1. inbox[c] \in Seq(Token) /\ inbox'[c] = Append(inbox[c], token)
    BY <1>1, <1>3 DEF BytesTyped
  <2>2. /\ inbox'[c] # <<>> /\ inbox'[c][Len(inbox'[c])] = token
        /\ \A i \in DOMAIN inbox'[c] : inbox'[c][i] = token \/ (i \in DOMAIN inbox[c] /\ inbox'[c][i] = inbox[c][i])
    BY <1>2, <2>1
  <2> QED BY <1>2, <2>2 DEF Last
<1>8. /\ \A d \in Clients : d # c => inbox'[d] = inbox[d] /\ mid'[d] = mid[d]
      /\ mid'[c] = next
  BY <1>1, <1>3 DEF PeopleTyped, BytesTyped
<1>9. /\ \A h \in ConFds : owner[h] \in Clients \cup {NoClient}
      /\ \A h \in ConFds : \A d \in blocks[h].line : d \in Clients
      /\ \A k \in DOMAIN sessions : \A d \in sessions[k].lines : d \in Clients
  BY <1>3, Members DEF PeopleTyped, BytesTyped
<1>10. Connections' /\ Table' /\ OneSession' /\ Asked'
  BY <1>1 DEF StageInv, Connections, Table, OneSession, Asked, Used
<1>11. Events'
  BY <1>1 DEF StageInv, Events, ToRead, ToWrite, Reads, Writes, Used
<1>12. Bytes'
  <2>1. ASSUME NEW d \in Clients
        PROVE  /\ \A i \in DOMAIN inbox'[d] : inbox'[d][i].from = d
               /\ inbox'[d] # <<>> /\ Last(inbox'[d]) = "half" => mid'[d] = "half"
               /\ peer'[d] = "away" => mid'[d] = "none"
               /\ mid'[d] # "none" => asked'[d] < MaxRequests[d]
    <3>1. CASE d = c
      BY <1>1, <1>2, <1>7, <1>8, <3>1 DEF StageInv, Bytes
    <3>2. CASE d # c
      BY <1>1, <1>8, <3>2 DEF StageInv, Bytes
    <3> QED BY <3>1, <3>2
  <2>2. ASSUME NEW h \in ConFds
        PROVE  /\ owner'[h] = NoClient => blocks'[h].buf = <<>>
               /\ \A i \in DOMAIN blocks'[h].buf : blocks'[h].buf[i].from = owner'[h]
               /\ \A d \in blocks'[h].line : d = owner'[h] \/ (mid'[d] = "half" /\ peer'[d] # "open")
    BY <1>1, <1>8, <1>9 DEF StageInv, Bytes
  <2>3. ASSUME NEW h \in ConFds, owner'[h] # NoClient, inbox'[owner'[h]] = <<>>
        PROVE  /\ blocks'[h].buf # <<>> /\ Last(blocks'[h].buf) = "half" => mid'[owner'[h]] = "half"
               /\ blocks'[h].buf = <<>> /\ owner'[h] \in blocks'[h].line => mid'[owner'[h]] = "half"
    <3>1. owner[h] \in Clients /\ owner[h] # c
      BY <1>1, <1>7, <1>9, <2>3
    <3> QED BY <1>1, <1>8, <2>3, <3>1 DEF StageInv, Bytes
  <2> QED BY <2>1, <2>2, <2>3 DEF Bytes
<1>13. Closing'
  <2>1. at = "close" => sockios[pos].hsock \in ConFds /\ owner[sockios[pos].hsock] # NoClient
    BY DEF StageInv, Events, Table
  <2> QED BY <1>1, <1>8, <1>9, <2>1 DEF StageInv, Closing
<1>14. OwnLines'
  BY <1>1, <1>8, <1>9 DEF StageInv, OwnLines
<1> QED BY <1>6, <1>10, <1>11, <1>12, <1>13, <1>14 DEF StageInv

LEMMA BeginRequestInv ==
    ASSUME StageInv, NEW c \in Clients, BeginRequest(c)
    PROVE  StageInv'
<1>1. asked' = asked /\ asked[c] < MaxRequests[c]
  BY DEF BeginRequest
<1>2. asked \in [Clients -> Nat] /\ \A d \in Clients : asked[d] <= MaxRequests[d]
  BY DEF StageInv, Typed, PeopleTyped
<1>3. CASE Send(c, "half", "half")
  BY <1>1, <1>2, <1>3, SendInv
<1>4. CASE Send(c, "line", "line")
  BY <1>1, <1>2, <1>4, SendInv
<1> QED BY <1>3, <1>4 DEF BeginRequest

LEMMA GoOnWithRequestInv ==
    ASSUME StageInv, NEW c \in Clients, GoOnWithRequest(c)
    PROVE  StageInv'
<1>1. asked \in [Clients -> Nat] /\ \A d \in Clients : asked[d] <= MaxRequests[d]
  BY DEF StageInv, Typed, PeopleTyped
<1>2. mid[c] # "none" => asked[c] < MaxRequests[c]
  BY DEF StageInv, Bytes
<1>3. CASE mid[c] = "half" /\ Send(c, "line", "line") /\ UNCHANGED asked
  BY <1>1, <1>2, <1>3, SendInv
<1>4. CASE mid[c] = "line" /\ Send(c, "blank", "none") /\ asked' = [asked EXCEPT ![c] = @ + 1]
  <2>1. /\ asked' \in [Clients -> Nat]
        /\ \A d \in Clients : asked'[d] = IF d = c THEN asked[d] + 1 ELSE asked[d]
    BY <1>1, <1>4
  <2>2. MaxRequests[c] \in Nat /\ asked[c] \in Nat /\ asked[c] < MaxRequests[c]
    BY <1>1, <1>2, <1>4, StageAssumption
  <2>3. \A d \in Clients : asked'[d] <= MaxRequests[d]
    BY <1>1, <2>1, <2>2
  <2> QED BY <1>4, <2>1, <2>3, SendInv
<1> QED BY <1>3, <1>4 DEF GoOnWithRequest

-----------------------------------------------------------------------------
(* The loop over the table.                                                *)

\* No two entries have the same descriptor: a set of descriptors is counted by
\* its entries.
LEMMA CountedOnce ==
    ASSUME NEW S \in SUBSET Entries, NEW f \in [S -> Nat],
           \A d, e \in S : f[d] = f[e] => d = e
    PROVE  Cardinality({f[e] : e \in S}) = Cardinality(S)
<1> DEFINE T == {f[e] : e \in S}
<1>1. f \in [S -> T] /\ \A t \in T : \E e \in S : f[e] = t
  OBVIOUS
<1>2. f \in Bijection(S, T)
  BY <1>1 DEF Bijection, Injection, Surjection, IsInjective
<1>3. ExistsBijection(S, T)
  BY <1>2 DEF ExistsBijection
<1> QED BY <1>3, Subsets, FS_Bijection

\* The loop goes on to the next entry, and has counted the one it leaves.
LEMMA Passed ==
    ASSUME Events, Typed, pos \in Entries, at \in {"loop", "lines", "close"},
           at' = "loop", pos' = pos + 1,
           IF Reads(pos) THEN ~Writes(pos) /\ nev' = nev - 1
           ELSE nev' = IF Writes(pos) THEN nev - 1 ELSE nev,
           \A e \in Entries : e > pos =>
                /\ Reads(e)' <=> Reads(e)
                /\ Writes(e)' <=> Writes(e)
                /\ Reads(e) => sockios'[e].onread = sockios[e].onread
                /\ Writes(e) => sockios'[e].onwrite = sockios[e].onwrite
    PROVE  Events' /\ nev' \in Nat
<1> DEFINE R == ToRead(pos)
           W == ToWrite(pos)
           R2 == ToRead(pos)'
           W2 == ToWrite(pos)'
<1>1. /\ pos \in Nat /\ pos' \in Nat /\ pos' # 1
      /\ \A e \in Entries : e \in Nat /\ (e >= pos' <=> e > pos) /\ (e >= pos <=> e > pos \/ e = pos)
  BY Sizes
<1>2. /\ R2 = R \ {pos} /\ W2 = W \ {pos}
      /\ pos \in R <=> Reads(pos)
      /\ pos \in W <=> Writes(pos)
  <2>1. /\ R = {e \in Entries : e >= pos /\ Reads(e)} /\ R2 = {e \in Entries : e >= pos' /\ Reads(e)'}
        /\ W = {e \in Entries : e >= pos /\ Writes(e)} /\ W2 = {e \in Entries : e >= pos' /\ Writes(e)'}
    BY DEF ToRead, ToWrite
  <2>2. ASSUME NEW e \in Entries
        PROVE  /\ e \in R2 <=> e \in R /\ e # pos
               /\ e \in W2 <=> e \in W /\ e # pos
    <3> HIDE DEF R, W, R2, W2
    <3>1. CASE e > pos
      BY <1>1, <2>1, <3>1
    <3>2. CASE ~(e > pos)
      BY <1>1, <2>1, <3>2
    <3> QED BY <3>1, <3>2
  <2>3. R \subseteq Entries /\ W \subseteq Entries /\ R2 \subseteq Entries /\ W2 \subseteq Entries
    BY <2>1
  <2>4. pos \in Entries /\ pos >= pos
    BY <1>1
  <2> HIDE DEF R, W, R2, W2
  <2> QED BY <2>1, <2>2, <2>3, <2>4
<1>3. R \in SUBSET Entries /\ W \in SUBSET Entries /\ R2 \in SUBSET Entries /\ W2 \in SUBSET Entries
  BY DEF ToRead, ToWrite
<1>4. nev = Cardinality(R) + Cardinality(W)
  BY DEF Events
<1> HIDE DEF R, W, R2, W2
<1>5. /\ Cardinality(R) \in Nat /\ Cardinality(W) \in Nat
      /\ Cardinality(R2) \in Nat /\ Cardinality(W2) \in Nat
  BY <1>3, Subsets
<1>6. /\ Reads(pos) => Cardinality(R2) = Cardinality(R) - 1
      /\ ~Reads(pos) => R2 = R
      /\ Writes(pos) => Cardinality(W2) = Cardinality(W) - 1
      /\ ~Writes(pos) => W2 = W
  BY <1>2, <1>3, Subsets
<1>7. nev' = Cardinality(R2) + Cardinality(W2)
  <2>1. CASE Reads(pos)
    BY <1>4, <1>5, <1>6, <2>1
  <2>2. CASE ~Reads(pos) /\ Writes(pos)
    BY <1>4, <1>5, <1>6, <2>2
  <2>3. CASE ~Reads(pos) /\ ~Writes(pos)
    BY <1>4, <1>6, <2>3
  <2> QED BY <2>1, <2>2, <2>3
<1>8. \A e \in Entries : e > pos' \/ e = pos' =>
        /\ Reads(e)'  => sockios'[e].onread # "none"
        /\ Writes(e)' => sockios'[e].onwrite # "none"
  <2>1. \A e \in Entries : e > pos' \/ e = pos' => e > pos
    BY <1>1
  <2> QED BY <2>1 DEF Events
<1>9. nev' \in Nat
  BY <1>5, <1>7
<1> QED BY <1>1, <1>7, <1>8, <1>9 DEF Events, R2, W2

LEMMA SkipEntryInv ==
    ASSUME StageInv, SkipEntry
    PROVE  StageInv'
<1>1. /\ at = "loop" /\ at' = "loop" /\ pos \in Entries /\ ~Reads(pos) /\ ~Writes(pos)
      /\ pos' = pos + 1 /\ UNCHANGED <<nev, rdset, wrset, sessions, cur, blocks, served>>
      /\ UNCHANGED <<owner, queue, peer, inbox, mid, asked, got, sockios, nr_used, hsock_max>>
  BY DEF SkipEntry, InLoop, world, table
<1>2. Events' /\ nev' \in Nat
  BY <1>1, Passed DEF StageInv, Reads, Writes
<1>3. Typed'
  BY <1>1, Sizes DEF StageInv, Typed, PeopleTyped, BytesTyped, LoopTyped, TablesTyped
<1>4. Connections' /\ Table' /\ OneSession' /\ Asked' /\ Bytes' /\ OwnLines'
  BY <1>1 DEF StageInv, Connections, Table, OneSession, Asked, Bytes, OwnLines, Used, Last
<1>5. Closing'
  BY <1>1 DEF Closing
<1> QED BY <1>2, <1>3, <1>4, <1>5 DEF StageInv

LEMMA LoopEndsInv ==
    ASSUME StageInv, LoopEnds
    PROVE  StageInv'
<1>1. /\ at' = "process" /\ pos' = 1 /\ rdset' = {} /\ wrset' = {}
      /\ UNCHANGED <<nev, sessions, cur, blocks, served>>
      /\ UNCHANGED <<owner, queue, peer, inbox, mid, asked, got, sockios, nr_used, hsock_max>>
  BY DEF LoopEnds, world, table
<1>2. Events' /\ Closing'
  BY <1>1 DEF Events, Closing
<1>3. Typed'
  BY <1>1 DEF StageInv, Typed, PeopleTyped, BytesTyped, LoopTyped, TablesTyped
<1>4. Connections' /\ Table' /\ OneSession' /\ Asked' /\ Bytes' /\ OwnLines'
  BY <1>1 DEF StageInv, Connections, Table, OneSession, Asked, Bytes, OwnLines, Used, Last
<1> QED BY <1>2, <1>3, <1>4 DEF StageInv

LEMMA ProcessEndsInv ==
    ASSUME StageInv, ProcessEnds
    PROVE  StageInv'
<1>1. /\ at = "process" /\ at' = "select" /\ cur' = 1
      /\ UNCHANGED <<pos, nev, rdset, wrset, sessions, blocks, served>>
      /\ UNCHANGED <<owner, queue, peer, inbox, mid, asked, got, sockios, nr_used, hsock_max>>
  BY DEF ProcessEnds, GoTo, world, table
<1>2. Events' /\ Closing'
  BY <1>1 DEF StageInv, Events, Closing
<1>3. Typed'
  BY <1>1 DEF StageInv, Typed, PeopleTyped, BytesTyped, LoopTyped, TablesTyped
<1>4. Connections' /\ Table' /\ OneSession' /\ Asked' /\ Bytes' /\ OwnLines'
  BY <1>1 DEF StageInv, Connections, Table, OneSession, Asked, Bytes, OwnLines, Used, Last
<1> QED BY <1>2, <1>3, <1>4 DEF StageInv

\* An event is reported for the one entry of its descriptor, which has a handler.
LEMMA SelectInv ==
    ASSUME StageInv, Select
    PROVE  StageInv'
<1> DEFINE asksRead == {e \in Used : sockios[e].onread # "none"}
           asksWrite == {e \in Used : sockios[e].onwrite # "none"}
<1>1. /\ at = "select"
      /\ rdset' = {h \in {sockios[e].hsock : e \in asksRead} : h <= hsock_max /\ Readable(h)}
      /\ wrset' = {h \in {sockios[e].hsock : e \in asksWrite} : h <= hsock_max}
      /\ IF asksRead \cup asksWrite = {} THEN at' = "process" ELSE rdset' \cup wrset' # {} /\ at' = "loop"
      /\ nev' = Cardinality(rdset') + Cardinality(wrset')
      /\ UNCHANGED <<pos, sessions, cur, blocks, served>>
      /\ UNCHANGED <<owner, queue, peer, inbox, mid, asked, got, sockios, nr_used, hsock_max>>
  <2>1. SelectOn(asksRead, asksWrite)
    BY DEF Select
  <2> HIDE DEF asksRead, asksWrite
  <2> QED BY <2>1 DEF SelectOn, world, table
<1>2. /\ pos = 1 /\ \A d, e \in Used : sockios[d].hsock = sockios[e].hsock => d = e
      /\ Used \in SUBSET Entries /\ 1 \in Used /\ sockios[1].onread = "accept" /\ sockios[1].onwrite = "none"
      /\ sockios[1].hsock = ListenFd
      /\ \A e \in Used : e # 1 => sockios[e].hsock \in ConFds
      /\ \A e \in Entries : e \in Used <=> sockios[e].used
  BY <1>1, Sizes DEF StageInv, Table, Events, Used
<1>3. at' = "loop"
  <2>1. 1 \in asksRead
    BY <1>2
  <2> QED BY <1>1, <2>1
<1>4. /\ \A h \in rdset' : \E e \in Used : sockios[e].hsock = h /\ sockios[e].onread # "none" /\ Readable(h)
      /\ \A h \in wrset' : \E e \in Used : sockios[e].hsock = h /\ sockios[e].onwrite # "none"
  BY <1>1
<1> HIDE DEF asksRead, asksWrite
<1>5. rdset' \subseteq ConFds \cup {ListenFd} /\ wrset' \subseteq ConFds
  BY <1>2, <1>4
<1>6. ASSUME NEW e \in Entries
      PROVE  /\ Reads(e)'  => e \in Used /\ sockios[e].onread # "none"
             /\ Writes(e)' => e \in Used /\ sockios[e].onwrite # "none"
  BY <1>1, <1>2, <1>4 DEF Reads, Writes
<1>7. ASSUME NEW H \in SUBSET (ConFds \cup {ListenFd}), \A h \in H : \E e \in Used : sockios[e].hsock = h
      PROVE  /\ Cardinality({e \in Entries : e >= 1 /\ sockios[e].used /\ sockios[e].hsock \in H}) = Cardinality(H)
             /\ Cardinality(H) \in Nat
  <2> DEFINE S == {e \in Entries : e >= 1 /\ sockios[e].used /\ sockios[e].hsock \in H}
             f == [e \in S |-> sockios[e].hsock]
  <2>1. S \in SUBSET Entries /\ \A e \in S : e \in Used /\ sockios[e].hsock \in H
    BY <1>2
  <2>2. \A e \in Used : sockios[e].hsock \in H => e \in S
    BY <1>2, Sizes
  <2>3. H = {f[e] : e \in S}
    BY <1>7, <2>1, <2>2
  <2>4. f \in [S -> Nat] /\ \A d, e \in S : f[d] = f[e] => d = e
    BY <1>2, <2>1, Sizes
  <2> HIDE DEF S, f
  <2>5. Cardinality(H) = Cardinality(S)
    BY <2>1, <2>3, <2>4, CountedOnce
  <2>6. Cardinality(S) \in Nat
    BY <2>1, Subsets
  <2> QED BY <2>5, <2>6 DEF S
<1>8. /\ Cardinality(ToRead(pos)') = Cardinality(rdset') /\ Cardinality(rdset') \in Nat
      /\ Cardinality(ToWrite(pos)') = Cardinality(wrset') /\ Cardinality(wrset') \in Nat
  <2>1. /\ ToRead(pos)' = {e \in Entries : e >= 1 /\ sockios[e].used /\ sockios[e].hsock \in rdset'}
        /\ ToWrite(pos)' = {e \in Entries : e >= 1 /\ sockios[e].used /\ sockios[e].hsock \in wrset'}
    BY <1>1, <1>2 DEF ToRead, ToWrite, Reads, Writes
  <2>2. /\ rdset' \in SUBSET (ConFds \cup {ListenFd}) /\ \A h \in rdset' : \E e \in Used : sockios[e].hsock = h
        /\ wrset' \in SUBSET (ConFds \cup {ListenFd}) /\ \A h \in wrset' : \E e \in Used : sockios[e].hsock = h
    BY <1>4, <1>5
  <2> QED BY <1>7, <2>1, <2>2
<1>9. Events'
  <2>1. ListenFd \in rdset' => queue' # <<>>
    BY <1>1, <1>4 DEF Readable
  <2>2. \A h \in (rdset \cup wrset)' : \E e \in Used' : sockios'[e].hsock = h
    BY <1>1, <1>4 DEF Used
  <2>3. nev' = Cardinality(ToRead(pos)') + Cardinality(ToWrite(pos)')
    BY <1>1, <1>8
  <2> QED BY <1>1, <1>3, <1>6, <2>1, <2>2, <2>3 DEF Events
<1>10. nev' \in Nat
  BY <1>1, <1>8
<1>11. Typed'
  BY <1>1, <1>3, <1>5, <1>10 DEF StageInv, Typed, PeopleTyped, BytesTyped, LoopTyped, TablesTyped
<1>12. Connections' /\ Table' /\ OneSession' /\ Asked' /\ Bytes' /\ OwnLines'
  BY <1>1 DEF StageInv, Connections, Table, OneSession, Asked, Bytes, OwnLines, Used, Last
<1>13. Closing'
  BY <1>3 DEF Closing
<1> QED BY <1>9, <1>11, <1>12, <1>13 DEF StageInv

-----------------------------------------------------------------------------
(* Steps that keep the entries, and steps that keep the sessions.          *)

\* The handlers of connections come and go.
LEMMA SameEntries ==
    ASSUME Table, sockios' \in [Entries -> Entry], sockios'[1] = sockios[1],
           \A e \in Entries : sockios'[e].used = sockios[e].used /\ sockios'[e].hsock = sockios[e].hsock,
           \A e \in Used \ {1} : sockios'[e].onread \in {"none", "read"},
           UNCHANGED <<nr_used, hsock_max, owner>>
    PROVE  Used' = Used /\ Table'
<1>1. Used' = Used
  BY DEF Used
<1>2. {sockios'[e].hsock : e \in Used} = {sockios[e].hsock : e \in Used}
  BY DEF Used
<1>3. \A e \in Used : e \in Entries
  BY DEF Used
<1>4. hsock_max' = Highest({sockios'[e].hsock : e \in Used'})
  BY <1>1, <1>2 DEF Table
<1>5. nr_used' = Cardinality(Used')
  BY <1>1 DEF Table
<1> QED BY <1>1, <1>3, <1>4, <1>5 DEF Table

\* What changes of a session does not make it another's.
LEMMA SameSession ==
    ASSUME TablesTyped, OneSession, NEW k \in DOMAIN sessions, NEW s \in Session,
           s.hsock = sessions[k].hsock, sessions' = [sessions EXCEPT ![k] = s],
           owner' = owner, Used' = Used,
           \A e \in Entries : sockios'[e].hsock = sockios[e].hsock,
           \A h \in ConFds : owner[h] # NoClient /\ peer[owner[h]] = "dead" => peer'[owner[h]] = "dead"
    PROVE  /\ sessions' \in Seq(Session) /\ DOMAIN sessions' = DOMAIN sessions
           /\ sessions'[k] = s /\ \A j \in DOMAIN sessions : j # k => sessions'[j] = sessions[j]
           /\ OneSession'
<1>1. /\ sessions' \in Seq(Session) /\ DOMAIN sessions' = DOMAIN sessions
      /\ sessions'[k] = s /\ \A j \in DOMAIN sessions : j # k => sessions'[j] = sessions[j]
  BY DEF TablesTyped
<1>2. \A j \in DOMAIN sessions : sessions'[j].hsock = sessions[j].hsock
  BY <1>1
<1>3. \A e \in Used : e \in Entries
  BY DEF Used
<1> QED BY <1>1, <1>2, <1>3 DEF OneSession

\* No session waits both to receive and to send.
LEMMA OneHandler ==
    ASSUME StageInv, NEW e \in Used
    PROVE  /\ sockios[e].onread # "none" => sockios[e].onwrite = "none"
           /\ e # 1 => \E k \in DOMAIN sessions : sessions[k].hsock = sockios[e].hsock
<1>1. sockios[e] \in Entry
  BY DEF StageInv, Typed, TablesTyped, Used
<1>2. sockios[e].onwrite \in {"none", "send"}
  BY <1>1 DEF Entry
<1>3. CASE e = 1
  BY <1>3 DEF StageInv, Table
<1>4. CASE e # 1
  <2>1. PICK k \in DOMAIN sessions : sessions[k].hsock = sockios[e].hsock
    BY <1>4 DEF StageInv, OneSession
  <2>2. sockios[e].onread \in {"none", "read"}
    BY <1>4 DEF StageInv, Table
  <2> QED BY <1>2, <2>1, <2>2 DEF StageInv, Asked
<1> QED BY <1>3, <1>4

\* What is known of an entry that an event was reported for.
LEMMA AtEvent ==
    ASSUME StageInv, at = "loop", pos \in Entries, Reads(pos) \/ Writes(pos)
    PROVE  /\ pos \in Used /\ (Reads(pos) <=> ~Writes(pos))
           /\ pos = 1 => Reads(pos) /\ sockios[pos].hsock = ListenFd /\ sockios[pos].onread = "accept"
           /\ pos # 1 => sockios[pos].hsock \in ConFds /\ owner[sockios[pos].hsock] \in Clients
           /\ Reads(pos) => sockios[pos].onread # "none" /\ sockios[pos].onwrite = "none"
           /\ Writes(pos) => sockios[pos].onwrite = "send" /\ sockios[pos].onread = "none"
<1>1. pos \in Used
  BY DEF Reads, Writes, Used
<1>2. /\ Reads(pos) => sockios[pos].onread # "none"
      /\ Writes(pos) => sockios[pos].onwrite # "none"
  BY DEF StageInv, Events
<1>3. sockios[pos].onwrite \in {"none", "send"}
  <2>1. sockios[pos] \in Entry
    BY DEF StageInv, Typed, TablesTyped
  <2> QED BY <2>1 DEF Entry
<1>4. /\ pos = 1 => sockios[pos].hsock = ListenFd /\ sockios[pos].onread = "accept" /\ sockios[pos].onwrite = "none"
      /\ pos # 1 => sockios[pos].hsock \in ConFds /\ owner[sockios[pos].hsock] # NoClient
  BY <1>1 DEF StageInv, Table
<1>5. \A h \in ConFds : owner[h] \in Clients \cup {NoClient}
  BY DEF StageInv, Typed, PeopleTyped
<1> QED BY <1>1, <1>2, <1>3, <1>4, <1>5, OneHandler

LEMMA StartReadingInv ==
    ASSUME StageInv, StartReading
    PROVE  StageInv'
<1>1. /\ at = "loop" /\ at' = "lines" /\ pos \in Entries /\ Reads(pos) /\ sockios[pos].onread = "read"
      /\ sockios' = Called(sockios, pos, "onread")
      /\ UNCHANGED <<pos, nev, rdset, wrset, sessions, cur, blocks, served>>
      /\ UNCHANGED <<owner, queue, peer, inbox, mid, asked, got, nr_used, hsock_max>>
  BY DEF StartReading, InLoop, GoTo, world
<1>2. /\ pos \in Used /\ ~Writes(pos) /\ pos # 1 /\ sockios[pos].onwrite = "none"
  BY <1>1, AtEvent
<1>3. /\ sockios' \in [Entries -> Entry]
      /\ \A e \in Entries :
            /\ sockios'[e].used = sockios[e].used /\ sockios'[e].hsock = sockios[e].hsock
            /\ sockios'[e].onwrite = sockios[e].onwrite
            /\ sockios'[e].onread = IF e = pos THEN "none" ELSE sockios[e].onread
            /\ e # pos => sockios'[e] = sockios[e]
  BY <1>1, CalledIs DEF StageInv, Typed, TablesTyped
<1>4. Typed'
  BY <1>1, <1>3 DEF StageInv, Typed, PeopleTyped, BytesTyped, LoopTyped, TablesTyped
<1>5. Used' = Used /\ Table'
  <2>1. \A e \in Used \ {1} : sockios'[e].onread \in {"none", "read"}
    BY <1>3 DEF StageInv, Table, Used
  <2> QED BY <1>1, <1>2, <1>3, <2>1, SameEntries, Sizes DEF StageInv
<1>6. \A e \in Used : e \in Entries
  BY DEF Used
<1>7. OneSession' /\ Asked'
  BY <1>1, <1>3, <1>5, <1>6 DEF StageInv, OneSession, Asked
<1>8. Connections' /\ Bytes' /\ OwnLines'
  BY <1>1 DEF StageInv, Connections, Bytes, OwnLines, Last
<1>9. \A e \in Entries : (Reads(e)' <=> Reads(e)) /\ (Writes(e)' <=> Writes(e))
  BY <1>1, <1>3 DEF Reads, Writes
<1>10. ToRead(pos)' = ToRead(pos) /\ ToWrite(pos)' = ToWrite(pos)
  BY <1>1, <1>9 DEF ToRead, ToWrite
<1>11. \E k \in DOMAIN sessions : /\ sessions[k].hsock = sockios[pos].hsock
                                  /\ sessions[k].stage = "READ_RQST_METADATA"
  BY <1>1, <1>2, OneHandler DEF StageInv, Asked
<1>12. \A e \in Entries : e > pos => e # pos
  BY Sizes
<1>13. Events'
  BY <1>1, <1>2, <1>3, <1>5, <1>9, <1>10, <1>11, <1>12 DEF StageInv, Events
<1>14. Closing'
  BY <1>1 DEF Closing
<1> QED BY <1>4, <1>5, <1>7, <1>8, <1>13, <1>14 DEF StageInv

-----------------------------------------------------------------------------
(* read_metadata.                                                          *)

LEMMA InHandler ==
    ASSUME StageInv, at \in {"lines", "close"}
    PROVE  /\ pos \in Used /\ pos \in Entries /\ pos # 1
           /\ sockios[pos].hsock \in ConFds /\ owner[sockios[pos].hsock] \in Clients
           /\ SessionOf(sockios[pos].hsock) \in DOMAIN sessions
           /\ sessions[SessionOf(sockios[pos].hsock)].hsock = sockios[pos].hsock
           /\ at = "lines" => sessions[SessionOf(sockios[pos].hsock)].stage = "READ_RQST_METADATA"
<1>1. /\ pos \in Used /\ pos \in Entries /\ pos # 1
      /\ sockios[pos].hsock \in ConFds /\ owner[sockios[pos].hsock] # NoClient
  BY DEF StageInv, Events, Table, Used
<1>2. owner[sockios[pos].hsock] \in Clients
  BY <1>1 DEF StageInv, Typed, PeopleTyped
<1>3. \A k \in DOMAIN sessions : SessionOf(sessions[k].hsock) = k
  BY SessionFound DEF StageInv, Typed, TablesTyped
<1>4. PICK k \in DOMAIN sessions :
          /\ sessions[k].hsock = sockios[pos].hsock
          /\ at = "lines" => sessions[k].stage = "READ_RQST_METADATA"
  BY <1>1 DEF StageInv, Events, OneSession
<1> QED BY <1>1, <1>2, <1>3, <1>4

\* What is received goes to the end of the descriptor's block, which is empty.
LEMMA ReceiveMoreInv ==
    ASSUME StageInv, ReceiveMore
    PROVE  StageInv'
<1> DEFINE h == sockios[pos].hsock
           c == owner[h]
<1>1. /\ at = "lines" /\ blocks[h].buf = <<>> /\ inbox[c] # <<>>
      /\ blocks' = [blocks EXCEPT ![h].buf = inbox[c]]
      /\ inbox' = [inbox EXCEPT ![c] = <<>>]
      /\ UNCHANGED <<at, pos, nev, rdset, wrset, sessions, cur, served>>
      /\ UNCHANGED <<owner, queue, peer, mid, asked, got, sockios, nr_used, hsock_max>>
  BY DEF ReceiveMore, table, loop
<1>2. h \in ConFds /\ c \in Clients
  BY <1>1, InHandler
<1>3. PeopleTyped /\ BytesTyped /\ LoopTyped /\ TablesTyped
  BY DEF StageInv, Typed
<1>4. \A k \in ConFds : k # h => owner[k] # c
  BY <1>2, StageAssumption DEF StageInv, Connections
<1>5. \A k \in ConFds : owner[k] \in Clients \cup {NoClient}
  BY <1>3 DEF PeopleTyped
<1> HIDE DEF h, c
<1>6. BytesTyped'
  BY <1>1, <1>2, <1>3 DEF BytesTyped
<1>7. Typed'
  BY <1>1, <1>3, <1>6 DEF Typed, PeopleTyped, LoopTyped, TablesTyped
<1>8. /\ inbox'[c] = <<>> /\ \A d \in Clients : d # c => inbox'[d] = inbox[d]
      /\ blocks'[h].buf = inbox[c] /\ blocks'[h].line = blocks[h].line
      /\ \A k \in ConFds : k # h => blocks'[k] = blocks[k]
  BY <1>1, <1>2, <1>3 DEF BytesTyped
<1>9. owner[h] = c
  BY DEF c
<1>10. Bytes'
  <2>1. ASSUME NEW d \in Clients
        PROVE  /\ \A i \in DOMAIN inbox'[d] : inbox'[d][i].from = d
               /\ inbox'[d] # <<>> /\ Last(inbox'[d]) = "half" => mid'[d] = "half"
               /\ peer'[d] = "away" => mid'[d] = "none"
               /\ mid'[d] # "none" => asked'[d] < MaxRequests[d]
    BY <1>1, <1>8 DEF StageInv, Bytes
  <2>2. ASSUME NEW k \in ConFds
        PROVE  /\ owner'[k] = NoClient => blocks'[k].buf = <<>>
               /\ \A i \in DOMAIN blocks'[k].buf : blocks'[k].buf[i].from = owner'[k]
               /\ \A d \in blocks'[k].line : d = owner'[k] \/ (mid'[d] = "half" /\ peer'[d] # "open")
               /\ owner'[k] # NoClient /\ inbox'[owner'[k]] = <<>> =>
                    /\ blocks'[k].buf # <<>> /\ Last(blocks'[k].buf) = "half" => mid'[owner'[k]] = "half"
                    /\ blocks'[k].buf = <<>> /\ owner'[k] \in blocks'[k].line => mid'[owner'[k]] = "half"
    <3>1. CASE k = h
      BY <1>1, <1>2, <1>8, <1>9, <3>1, StageAssumption DEF StageInv, Bytes
    <3>2. CASE k # h
      BY <1>1, <1>4, <1>5, <1>8, <3>2 DEF StageInv, Bytes
    <3> QED BY <3>1, <3>2
  <2> QED BY <2>1, <2>2 DEF Bytes
<1>11. Connections' /\ Table' /\ OneSession' /\ Asked' /\ OwnLines'
  BY <1>1 DEF StageInv, Connections, Table, OneSession, Asked, OwnLines, Used
<1>12. Events'
  BY <1>1 DEF StageInv, Events, ToRead, ToWrite, Reads, Writes, Used
<1>13. Closing'
  BY <1>1 DEF Closing
<1> QED BY <1>7, <1>10, <1>11, <1>12, <1>13 DEF StageInv

\* The peer of a connection is lost: nothing depends on how.
LEMMA PeerLost ==
    ASSUME StageInv, NEW c \in Clients, peer[c] # "open", peer[c] # "away",
           NEW how \in {"reset", "dead"}, peer[c] = "dead" => how = "dead",
           peer' = [peer EXCEPT ![c] = how],
           UNCHANGED <<owner, queue, inbox, mid, asked, blocks>>
    PROVE  /\ Connections' /\ Bytes'
           /\ \A h \in ConFds : owner[h] # NoClient /\ peer[owner[h]] = "dead" => peer'[owner[h]] = "dead"
           /\ \A d \in Clients : (peer'[d] = "open" <=> peer[d] = "open") /\ (peer[d] = "dead" => peer'[d] = "dead")
           /\ peer'[c] = how /\ peer' \in [Clients -> {"away", "open", "closed", "reset", "dead"}]
<1>1. PeopleTyped /\ BytesTyped
  BY DEF StageInv, Typed
<1>2. /\ peer'[c] = how /\ peer' \in [Clients -> {"away", "open", "closed", "reset", "dead"}]
      /\ \A d \in Clients : d # c => peer'[d] = peer[d]
  BY <1>1 DEF PeopleTyped
<1>3. \A d \in Clients : /\ peer'[d] = "open" <=> peer[d] = "open"
                         /\ peer'[d] = "away" <=> peer[d] = "away"
                         /\ peer[d] = "dead" => peer'[d] = "dead"
  BY <1>2
<1>4. /\ \A h \in ConFds : owner[h] \in Clients \cup {NoClient}
      /\ \A h \in ConFds : \A d \in blocks[h].line : d \in Clients
      /\ \A i \in DOMAIN queue : queue[i] \in Clients
  BY <1>1 DEF PeopleTyped, BytesTyped
<1>5. Connections'
  BY <1>3, <1>4 DEF StageInv, Connections
<1>6. Bytes'
  BY <1>3, <1>4 DEF StageInv, Bytes, Last
<1> QED BY <1>2, <1>3, <1>4, <1>5, <1>6

LEMMA ReceiveNothingInv ==
    ASSUME StageInv, ReceiveNothing
    PROVE  StageInv'
<1> DEFINE h == sockios[pos].hsock
           c == owner[h]
<1>1. /\ at = "lines" /\ blocks[h].buf = <<>> /\ inbox[c] = <<>> /\ peer[c] # "open"
      /\ IF peer[c] = "reset" THEN AfterReading ELSE GoTo("close")
      /\ peer' = [peer EXCEPT ![c] = IF @ = "reset" THEN "dead" ELSE @]
      /\ UNCHANGED <<sessions, cur, blocks, served>>
      /\ UNCHANGED <<owner, queue, inbox, mid, asked, got, sockios, nr_used, hsock_max>>
  BY DEF ReceiveNothing, table
<1>2. h \in ConFds /\ c \in Clients /\ pos \in Entries /\ pos \in Used /\ pos # 1
  BY <1>1, InHandler
<1>3. Reads(pos) /\ ~Writes(pos) /\ sockios[pos].onread = "none" /\ sockios[pos].onwrite = "none"
  BY <1>1 DEF StageInv, Events
<1>4. PeopleTyped /\ BytesTyped /\ LoopTyped /\ TablesTyped
  BY DEF StageInv, Typed
<1>5. Table' /\ Asked'
  BY <1>1 DEF StageInv, Table, Asked, Used
<1> HIDE DEF h, c
<1>6. peer[c] # "away"
  BY <1>2, StageAssumption DEF StageInv, Connections, c
<1>7. CASE peer[c] = "reset"
  <2>1. /\ peer' = [peer EXCEPT ![c] = "dead"]
        /\ nev' = nev - 1 /\ pos' = pos + 1 /\ at' = "loop" /\ UNCHANGED <<rdset, wrset>>
    BY <1>1, <1>3, <1>7 DEF AfterReading, EndIteration
  <2>2. /\ Connections' /\ Bytes'
        /\ \A k \in ConFds : owner[k] # NoClient /\ peer[owner[k]] = "dead" => peer'[owner[k]] = "dead"
        /\ \A d \in Clients : (peer'[d] = "open" <=> peer[d] = "open") /\ (peer[d] = "dead" => peer'[d] = "dead")
        /\ peer' \in [Clients -> {"away", "open", "closed", "reset", "dead"}]
    BY <1>1, <1>2, <1>7, <2>1, PeerLost
  <2>3. Events' /\ nev' \in Nat
    BY <1>1, <1>2, <1>3, <2>1, Passed DEF StageInv, Reads, Writes
  <2>4. Typed'
    <3>1. PeopleTyped'
      BY <1>1, <1>4, <2>2 DEF PeopleTyped
    <3>2. LoopTyped'
      BY <1>1, <1>2, <1>4, <2>1, <2>3, Sizes DEF LoopTyped
    <3>3. BytesTyped' /\ TablesTyped'
      BY <1>1, <1>4, <2>1 DEF BytesTyped, TablesTyped
    <3> QED BY <3>1, <3>2, <3>3 DEF Typed
  <2>5. OneSession'
    BY <1>1, <2>2 DEF StageInv, OneSession, Used
  <2>6. OwnLines'
    <3>1. \A k \in DOMAIN sessions : \A d \in sessions[k].lines : d \in Clients
      BY <1>4, Members
    <3> QED BY <1>1, <2>2, <3>1 DEF StageInv, OwnLines
  <2>7. Closing'
    BY <2>1 DEF Closing
  <2> QED BY <1>5, <2>2, <2>3, <2>4, <2>5, <2>6, <2>7 DEF StageInv
<1>8. CASE peer[c] # "reset"
  <2>1. /\ peer' = peer /\ at' = "close" /\ UNCHANGED <<pos, nev, rdset, wrset>>
    <3>1. at' = "close" /\ UNCHANGED <<pos, nev, rdset, wrset>> /\ peer' = [peer EXCEPT ![c] = peer[c]]
      BY <1>1, <1>8 DEF GoTo
    <3>2. peer \in [Clients -> {"away", "open", "closed", "reset", "dead"}]
      BY <1>4 DEF PeopleTyped
    <3> QED BY <1>2, <3>1, <3>2
  <2>2. Typed'
    BY <1>1, <1>4, <2>1 DEF Typed, PeopleTyped, BytesTyped, LoopTyped, TablesTyped
  <2>3. Connections' /\ Bytes' /\ OneSession' /\ OwnLines'
    BY <1>1, <2>1 DEF StageInv, Connections, Bytes, OneSession, OwnLines, Used, Last
  <2>4. Events'
    <3>1. ToRead(pos)' = ToRead(pos) /\ ToWrite(pos)' = ToWrite(pos) /\ Used' = Used
          /\ \A e \in Entries : (Reads(e)' <=> Reads(e)) /\ (Writes(e)' <=> Writes(e))
      BY <1>1, <2>1 DEF ToRead, ToWrite, Reads, Writes, Used
    <3>2. nev = Cardinality(ToRead(pos)) + Cardinality(ToWrite(pos))
      BY <1>1 DEF StageInv, Events
    <3>3. \A e \in Entries : e > pos => /\ Reads(e)  => sockios[e].onread # "none"
                                        /\ Writes(e) => sockios[e].onwrite # "none"
      BY <1>1 DEF StageInv, Events
    <3>4. Reads(pos)' /\ ~Writes(pos)'
      BY <1>2, <1>3, <2>1, <3>1
    <3> QED BY <1>1, <1>2, <1>3, <2>1, <3>1, <3>2, <3>3, <3>4 DEF Events
  <2>5. Closing'
    <3>1. peer[c] \in {"closed", "dead"}
      BY <1>1, <1>2, <1>4, <1>6, <1>8 DEF PeopleTyped
    <3> QED BY <1>1, <2>1, <3>1 DEF Closing, h, c
  <2> QED BY <1>5, <2>2, <2>3, <2>4, <2>5 DEF StageInv
<1> QED BY <1>7, <1>8

\* The last token of a block stays the last until it is taken.
LEMMA LastOfTail ==
    ASSUME NEW b \in Seq(Token), b # <<>>
    PROVE  /\ Tail(b) # <<>> => Last(Tail(b)) = Last(b)
           /\ Tail(b) = <<>> => Last(b) = Head(b).what
<1> DEFINE n == Len(b)
           r == Tail(b)
<1>1. n \in Nat /\ n >= 1 /\ Head(b) = b[1]
  BY HeadTailProperties
<1>2. r \in Seq(Token) /\ Len(r) = n - 1 /\ \A i \in 1 .. n - 1 : r[i] = b[i + 1]
  BY HeadTailProperties
<1> HIDE DEF n, r
<1>3. r = <<>> <=> n = 1
  BY <1>1, <1>2, EmptySeq
<1>4. n # 1 => r[n - 1] = b[n]
  <2>1. SUFFICES ASSUME n # 1 PROVE r[n - 1] = b[n]
    OBVIOUS
  <2>2. n - 1 \in 1 .. n - 1 /\ (n - 1) + 1 = n
    BY <1>1, <2>1
  <2> QED BY <1>2, <2>2
<1>5. Last(b) = b[n].what /\ Last(r) = r[n - 1].what
  BY <1>2 DEF Last, n
<1>6. r # <<>> => Last(r) = Last(b)
  BY <1>3, <1>4, <1>5
<1>7. r = <<>> => Last(b) = Head(b).what
  BY <1>1, <1>3, <1>5
<1> QED BY <1>6, <1>7 DEF r

\* One token less in the block: what is kept of it is its client's.
LEMMA TokenTaken ==
    ASSUME StageInv, NEW h \in ConFds, owner[h] \in Clients, blocks[h].buf # <<>>,
           blocks' = [blocks EXCEPT ![h] = [buf |-> Tail(blocks[h].buf),
                                            line |-> Kept(Head(blocks[h].buf).what,
                                                          blocks[h].line \cup {Head(blocks[h].buf).from})]],
           UNCHANGED <<owner, peer, inbox, mid, asked>>
    PROVE  /\ BytesTyped' /\ Bytes'
           /\ Head(blocks[h].buf).from = owner[h]
<1> DEFINE b == blocks[h].buf
           c == owner[h]
           tok == Head(b)
           kept == Kept(tok.what, blocks[h].line \cup {tok.from})
<1>1. BytesTyped /\ PeopleTyped
  BY DEF StageInv, Typed
<1>2. b \in Seq(Token) /\ blocks[h].line \subseteq Clients /\ b # <<>>
  BY <1>1 DEF BytesTyped
<1>3. /\ Len(b) \in Nat /\ Len(b) >= 1 /\ tok \in Token /\ tok = b[1]
      /\ Tail(b) \in Seq(Token) /\ Len(Tail(b)) = Len(b) - 1
      /\ \A i \in 1 .. Len(b) - 1 : Tail(b)[i] = b[i + 1]
      /\ DOMAIN Tail(b) = 1 .. Len(b) - 1 /\ DOMAIN b = 1 .. Len(b)
  BY <1>2, HeadTailProperties
<1>4. tok.from = c /\ \A i \in 1 .. Len(b) : b[i].from = c
  BY <1>3 DEF StageInv, Bytes
<1>5. /\ kept \subseteq blocks[h].line \cup {c}
      /\ kept # {} => tok.what = "half"
  BY <1>4 DEF Kept
<1>6. /\ blocks'[h].buf = Tail(b) /\ blocks'[h].line = kept
      /\ \A k \in ConFds : k # h => blocks'[k] = blocks[k]
  BY <1>1 DEF BytesTyped
<1>7. BytesTyped'
  <2>1. kept \subseteq Clients
    BY <1>2, <1>5
  <2> HIDE DEF kept
  <2> QED BY <1>1, <1>3, <2>1 DEF BytesTyped, kept
<1>8. inbox[c] = <<>> /\ Last(b) = "half" => mid[c] = "half"
  BY <1>2, StageAssumption DEF StageInv, Bytes
<1>9. /\ Tail(b) # <<>> => Last(Tail(b)) = Last(b)
      /\ Tail(b) = <<>> => Last(b) = tok.what
  BY <1>2, LastOfTail
<1> HIDE DEF b, tok, kept, c
<1>10. c = owner[h]
  BY DEF c
<1>11. Bytes'
  <2>1. ASSUME NEW k \in ConFds
        PROVE  /\ owner'[k] = NoClient => blocks'[k].buf = <<>>
               /\ \A i \in DOMAIN blocks'[k].buf : blocks'[k].buf[i].from = owner'[k]
               /\ \A d \in blocks'[k].line : d = owner'[k] \/ (mid'[d] = "half" /\ peer'[d] # "open")
               /\ owner'[k] # NoClient /\ inbox'[owner'[k]] = <<>> =>
                    /\ blocks'[k].buf # <<>> /\ Last(blocks'[k].buf) = "half" => mid'[owner'[k]] = "half"
                    /\ blocks'[k].buf = <<>> /\ owner'[k] \in blocks'[k].line => mid'[owner'[k]] = "half"
    <3>1. CASE k # h
      BY <1>6, <3>1 DEF StageInv, Bytes
    <3>2. CASE k = h
      <4>1. \A i \in 1 .. Len(b) - 1 : i + 1 \in 1 .. Len(b)
        BY <1>3
      <4>2. \A i \in DOMAIN Tail(b) : Tail(b)[i].from = c
        BY <1>3, <1>4, <4>1
      <4>3. \A d \in kept : d = c \/ (mid[d] = "half" /\ peer[d] # "open")
        BY <1>5, <1>10 DEF StageInv, Bytes
      <4>4. c \in Clients
        BY <1>10
      <4>5. owner'[h] = c /\ c # NoClient /\ blocks'[h].buf = Tail(b) /\ blocks'[h].line = kept
        BY <1>6, <1>10, <4>4, StageAssumption
      <4>6. inbox'[c] = inbox[c] /\ mid' = mid /\ peer' = peer
        OBVIOUS
      <4>7. inbox[c] = <<>> =>
                /\ Tail(b) # <<>> /\ Last(Tail(b)) = "half" => mid[c] = "half"
                /\ Tail(b) = <<>> /\ c \in kept => mid[c] = "half"
        BY <1>5, <1>8, <1>9
      <4> HIDE DEF Last
      <4> QED BY <3>2, <4>2, <4>3, <4>5, <4>6, <4>7
    <3> QED BY <3>1, <3>2
  <2> QED BY <2>1 DEF StageInv, Bytes
<1> QED BY <1>4, <1>7, <1>10, <1>11 DEF b, tok, kept

LEMMA TakeTokenInv ==
    ASSUME StageInv, TakeToken
    PROVE  StageInv'
<1> DEFINE h == sockios[pos].hsock
           k == SessionOf(h)
           what == Head(blocks[h].buf).what
           bytes == blocks[h].line \cup {Head(blocks[h].buf).from}
<1>1. /\ at = "lines" /\ blocks[h].buf # <<>>
      /\ blocks' = [blocks EXCEPT ![h] = [buf |-> Tail(blocks[h].buf), line |-> Kept(what, bytes)]]
      /\ \/ UNCHANGED <<loop, sessions>>
         \/ sessions' = [sessions EXCEPT ![k].lines = @ \cup bytes] /\ UNCHANGED loop
         \/ sessions' = [sessions EXCEPT ![k] = NextStage(@)] /\ AfterReading
      /\ UNCHANGED <<owner, queue, peer, inbox, mid, asked, got, sockios, nr_used, hsock_max>>
      /\ UNCHANGED <<cur, served>>
  BY DEF TakeToken, world, table
<1>2. /\ pos \in Used /\ pos \in Entries /\ pos # 1 /\ h \in ConFds /\ owner[h] \in Clients
      /\ k \in DOMAIN sessions /\ sessions[k].hsock = h /\ sessions[k].stage = "READ_RQST_METADATA"
  BY <1>1, InHandler
<1>3. Reads(pos) /\ ~Writes(pos) /\ sockios[pos].onread = "none" /\ sockios[pos].onwrite = "none"
  BY <1>1 DEF StageInv, Events
<1>4. BytesTyped' /\ Bytes' /\ Head(blocks[h].buf).from = owner[h]
  BY <1>1, <1>2, TokenTaken
<1>5. bytes = blocks[h].line \cup {owner[h]} /\ bytes \subseteq Clients
  BY <1>2, <1>4 DEF StageInv, Typed, BytesTyped
<1>6. PeopleTyped /\ BytesTyped /\ LoopTyped /\ TablesTyped
  BY DEF StageInv, Typed
<1>7. sessions \in Seq(Session) /\ sessions[k] \in Session /\ DOMAIN sessions = 1 .. Len(sessions)
  BY <1>2, <1>6, Members DEF TablesTyped
<1> HIDE DEF h, k, what, bytes
<1>8. Connections' /\ Table' /\ Used' = Used
  BY <1>1 DEF StageInv, Connections, Table, Used
<1>9. CASE UNCHANGED <<loop, sessions>>
  <2>1. UNCHANGED <<at, pos, nev, rdset, wrset, sessions>>
    BY <1>9 DEF loop
  <2>2. Typed'
    BY <1>1, <1>4, <1>6, <2>1 DEF Typed, PeopleTyped, LoopTyped, TablesTyped
  <2>3. OneSession' /\ Asked' /\ OwnLines' /\ Closing'
    BY <1>1, <2>1 DEF StageInv, OneSession, Asked, OwnLines, Closing, Used
  <2>4. Events'
    BY <1>1, <2>1 DEF StageInv, Events, ToRead, ToWrite, Reads, Writes, Used
  <2> QED BY <1>4, <1>8, <2>2, <2>3, <2>4 DEF StageInv
<1>10. CASE sessions' = [sessions EXCEPT ![k].lines = @ \cup bytes] /\ UNCHANGED loop
  <2> DEFINE s == [sessions[k] EXCEPT !.lines = sessions[k].lines \cup bytes]
  <2>1. UNCHANGED <<at, pos, nev, rdset, wrset>>
    BY <1>10 DEF loop
  <2>2. /\ s \in Session /\ s.hsock = sessions[k].hsock /\ s.stage = sessions[k].stage
        /\ s.chunked = sessions[k].chunked /\ s.header = sessions[k].header /\ s.content = sessions[k].content
        /\ s.lines = sessions[k].lines \cup bytes
    BY <1>5, <1>7 DEF Session
  <2>3. sessions' = [sessions EXCEPT ![k] = s]
    BY <1>10
  <2> HIDE DEF s
  <2>4. /\ sessions' \in Seq(Session) /\ DOMAIN sessions' = DOMAIN sessions
        /\ sessions'[k] = s /\ \A j \in DOMAIN sessions : j # k => sessions'[j] = sessions[j]
        /\ OneSession'
    BY <1>1, <1>2, <1>6, <1>8, <2>2, <2>3, SameSession DEF StageInv
  <2>5. Typed'
    BY <1>1, <1>4, <1>6, <2>1, <2>4 DEF Typed, PeopleTyped, LoopTyped, TablesTyped
  <2>6. \A j \in DOMAIN sessions :
            /\ sessions'[j].hsock = sessions[j].hsock /\ sessions'[j].stage = sessions[j].stage
            /\ sessions'[j].chunked = sessions[j].chunked /\ sessions'[j].header = sessions[j].header
            /\ sessions'[j].content = sessions[j].content
    BY <2>2, <2>4
  <2>7. Asked'
    BY <1>1, <1>8, <2>4, <2>6 DEF StageInv, Asked
  <2>8. OwnLines'
    <3>1. ASSUME NEW d \in sessions'[k].lines
          PROVE  d = owner[h] \/ (mid[d] = "half" /\ peer[d] # "open")
      BY <1>2, <1>5, <2>2, <2>4, <3>1 DEF StageInv, OwnLines, Bytes
    <3> QED BY <1>1, <1>2, <2>2, <2>4, <3>1 DEF StageInv, OwnLines
  <2>9. Events'
    <3>1. ToRead(pos)' = ToRead(pos) /\ ToWrite(pos)' = ToWrite(pos)
          /\ \A e \in Entries : (Reads(e)' <=> Reads(e)) /\ (Writes(e)' <=> Writes(e))
      BY <1>1, <2>1 DEF ToRead, ToWrite, Reads, Writes
    <3>2. \E j \in DOMAIN sessions' : sessions'[j].hsock = sockios[pos].hsock
                                      /\ sessions'[j].stage = "READ_RQST_METADATA"
      BY <1>2, <2>4, <2>6 DEF h
    <3> QED BY <1>1, <1>2, <1>8, <2>1, <3>1, <3>2 DEF StageInv, Events
  <2>10. Closing'
    BY <1>1, <2>1 DEF Closing
  <2> QED BY <1>4, <1>8, <2>4, <2>5, <2>7, <2>8, <2>9, <2>10 DEF StageInv
<1>11. CASE sessions' = [sessions EXCEPT ![k] = NextStage(@)] /\ AfterReading
  <2> DEFINE s == NextStage(sessions[k])
  <2>1. nev' = nev - 1 /\ pos' = pos + 1 /\ at' = "loop" /\ UNCHANGED <<rdset, wrset>>
    BY <1>3, <1>11 DEF AfterReading, EndIteration
  <2>2. /\ s \in Session /\ s.hsock = sessions[k].hsock
        /\ s.lines = sessions[k].lines \/ s.lines = {}
        /\ s.stage # "ALTER_RESP_DATA"
        /\ s.content = sessions[k].content \/ s.content = "none"
    BY <1>2, <1>7, NextStageIs
  <2>3. sessions' = [sessions EXCEPT ![k] = s]
    BY <1>11
  <2> HIDE DEF s
  <2>4. /\ sessions' \in Seq(Session) /\ DOMAIN sessions' = DOMAIN sessions
        /\ sessions'[k] = s /\ \A j \in DOMAIN sessions : j # k => sessions'[j] = sessions[j]
        /\ OneSession'
    BY <1>1, <1>2, <1>6, <1>8, <2>2, <2>3, SameSession DEF StageInv
  <2>5. Events' /\ nev' \in Nat
    BY <1>1, <1>2, <1>3, <2>1, Passed DEF StageInv, Reads, Writes
  <2>6. Typed'
    <3>1. LoopTyped'
      BY <1>1, <1>2, <1>6, <2>1, <2>5, Sizes DEF LoopTyped
    <3> QED BY <1>1, <1>4, <1>6, <2>4, <3>1 DEF Typed, PeopleTyped, TablesTyped
  <2>7. Asked'
    <3>1. \A e \in Used : sockios[e].hsock = h => e = pos
      BY <1>2 DEF StageInv, Table, h
    <3>2. sessions[k].content # "data"
      BY <1>2 DEF StageInv, Asked
    <3>3. \A e \in Used : sockios[e].hsock = s.hsock => sockios[e].onread = "none" /\ sockios[e].onwrite = "none"
      BY <1>2, <1>3, <2>2, <3>1
    <3> QED BY <1>1, <1>8, <2>2, <2>4, <3>2, <3>3 DEF StageInv, Asked
  <2>8. OwnLines'
    BY <1>1, <2>2, <2>4 DEF StageInv, OwnLines
  <2>9. Closing'
    BY <2>1 DEF Closing
  <2> QED BY <1>4, <1>8, <2>4, <2>5, <2>6, <2>7, <2>8, <2>9 DEF StageInv
<1> QED BY <1>1, <1>9, <1>10, <1>11
-----------------------------------------------------------------------------
(* The hooks of a stage.                                                   *)

\* Nothing is counted while the hooks run.
LEMMA NoLoop ==
    ASSUME StageInv, at = "process", UNCHANGED <<at, pos, nev, rdset, wrset>>
    PROVE  Events' /\ Closing'
  BY DEF StageInv, Events, Closing

\* An io is asked for, for the entry of the session if it has one.
LEMMA AskMetadataInv ==
    ASSUME StageInv, AskMetadata
    PROVE  StageInv'
<1> DEFINE h == sessions[cur].hsock
<1>1. /\ at = "process" /\ cur \in DOMAIN sessions /\ sessions[cur].stage = "READ_RQST_METADATA"
      /\ sockios' = Armed(sockios, h, "onread", "read") /\ cur' = cur + 1
      /\ UNCHANGED <<at, pos, nev, rdset, wrset, sessions, blocks, served>>
      /\ UNCHANGED <<owner, queue, peer, inbox, mid, asked, got, nr_used, hsock_max>>
  BY DEF AskMetadata, Working, PerformIo, world, loop
<1>2. h \in ConFds /\ h # ListenFd
  BY <1>1, Members, Sizes DEF StageInv, Typed
<1>3. sockios \in [Entries -> Entry]
  BY DEF StageInv, Typed, TablesTyped
<1>4. \A k \in DOMAIN sessions : sessions[k].hsock = h => k = cur
  BY <1>1 DEF StageInv, OneSession
<1> HIDE DEF h
<1>5. /\ sockios' \in [Entries -> Entry]
      /\ \A e \in Entries :
            /\ sockios'[e].used = sockios[e].used /\ sockios'[e].hsock = sockios[e].hsock
            /\ sockios'[e].onwrite = sockios[e].onwrite
            /\ sockios'[e].onread = IF sockios[e].used /\ sockios[e].hsock = h /\ sockios[e].onread = "none"
                                    THEN "read" ELSE sockios[e].onread
            /\ sockios[e].hsock # h => sockios'[e] = sockios[e]
  BY <1>1, <1>3, ArmedToRead
<1>6. Used' = Used /\ Table'
  <2>1. \A e \in Used \ {1} : sockios'[e].onread \in {"none", "read"}
    BY <1>5 DEF StageInv, Table, Used
  <2>2. sockios'[1] = sockios[1]
    <3>1. sockios[1].hsock = ListenFd
      BY DEF StageInv, Table
    <3> QED BY <1>2, <1>5, <3>1, Sizes
  <2> QED BY <1>1, <1>5, <2>1, <2>2, SameEntries DEF StageInv
<1>7. \A e \in Used : e \in Entries
  BY DEF Used
<1>8. OneSession'
  BY <1>1, <1>5, <1>6, <1>7 DEF StageInv, OneSession
<1>9. Asked'
  <2>1. ASSUME NEW k \in DOMAIN sessions, NEW e \in Used, sockios'[e].hsock = sessions[k].hsock
        PROVE  /\ sockios'[e].onread = "read" => sessions[k].stage = "READ_RQST_METADATA"
               /\ sockios'[e].onwrite = "send" => /\ sessions[k].stage = "SEND_RESP"
                                                  /\ sessions[k].header \/ sessions[k].content # "none"
    <3>1. CASE sockios[e].hsock = h
      BY <1>1, <1>4, <1>5, <1>7, <2>1, <3>1 DEF StageInv, Asked
    <3>2. CASE sockios[e].hsock # h
      BY <1>5, <1>7, <2>1, <3>2 DEF StageInv, Asked
    <3> QED BY <3>1, <3>2
  <2> QED BY <1>1, <1>6, <2>1 DEF StageInv, Asked
<1>10. Typed'
  <2>1. LoopTyped'
    BY <1>1 DEF StageInv, Typed, LoopTyped
  <2> QED BY <1>1, <1>5, <2>1 DEF StageInv, Typed, PeopleTyped, BytesTyped, TablesTyped
<1>11. Connections' /\ Bytes' /\ OwnLines'
  BY <1>1 DEF StageInv, Connections, Bytes, OwnLines, Last
<1>12. Events' /\ Closing'
  BY <1>1, NoLoop
<1> QED BY <1>6, <1>8, <1>9, <1>10, <1>11, <1>12 DEF StageInv

LEMMA AskSendInv ==
    ASSUME StageInv, AskSend
    PROVE  StageInv'
<1> DEFINE h == sessions[cur].hsock
<1>1. /\ at = "process" /\ cur \in DOMAIN sessions /\ sessions[cur].stage = "SEND_RESP"
      /\ sessions[cur].header \/ sessions[cur].content # "none"
      /\ sockios' = Armed(sockios, h, "onwrite", "send") /\ cur' = cur + 1
      /\ UNCHANGED <<at, pos, nev, rdset, wrset, sessions, blocks, served>>
      /\ UNCHANGED <<owner, queue, peer, inbox, mid, asked, got, nr_used, hsock_max>>
  BY DEF AskSend, ToSend, Working, PerformIo, world, loop
<1>2. h \in ConFds /\ h # ListenFd
  BY <1>1, Members, Sizes DEF StageInv, Typed
<1>3. sockios \in [Entries -> Entry]
  BY DEF StageInv, Typed, TablesTyped
<1>4. \A k \in DOMAIN sessions : sessions[k].hsock = h => k = cur
  BY <1>1 DEF StageInv, OneSession
<1> HIDE DEF h
<1>5. /\ sockios' \in [Entries -> Entry]
      /\ \A e \in Entries :
            /\ sockios'[e].used = sockios[e].used /\ sockios'[e].hsock = sockios[e].hsock
            /\ sockios'[e].onread = sockios[e].onread
            /\ sockios'[e].onwrite = IF sockios[e].used /\ sockios[e].hsock = h /\ sockios[e].onwrite = "none"
                                     THEN "send" ELSE sockios[e].onwrite
            /\ sockios[e].hsock # h => sockios'[e] = sockios[e]
  BY <1>1, <1>3, ArmedToWrite
<1>6. Used' = Used /\ Table'
  <2>1. \A e \in Used \ {1} : sockios'[e].onread \in {"none", "read"}
    BY <1>5 DEF StageInv, Table, Used
  <2>2. sockios'[1] = sockios[1]
    <3>1. sockios[1].hsock = ListenFd
      BY DEF StageInv, Table
    <3> QED BY <1>2, <1>5, <3>1, Sizes
  <2> QED BY <1>1, <1>5, <2>1, <2>2, SameEntries DEF StageInv
<1>7. \A e \in Used : e \in Entries
  BY DEF Used
<1>8. OneSession'
  BY <1>1, <1>5, <1>6, <1>7 DEF StageInv, OneSession
<1>9. Asked'
  <2>1. ASSUME NEW k \in DOMAIN sessions, NEW e \in Used, sockios'[e].hsock = sessions[k].hsock
        PROVE  /\ sockios'[e].onread = "read" => sessions[k].stage = "READ_RQST_METADATA"
               /\ sockios'[e].onwrite = "send" => /\ sessions[k].stage = "SEND_RESP"
                                                  /\ sessions[k].header \/ sessions[k].content # "none"
    <3>1. CASE sockios[e].hsock = h
      BY <1>1, <1>4, <1>5, <1>7, <2>1, <3>1 DEF StageInv, Asked
    <3>2. CASE sockios[e].hsock # h
      BY <1>5, <1>7, <2>1, <3>2 DEF StageInv, Asked
    <3> QED BY <3>1, <3>2
  <2> QED BY <1>1, <1>6, <2>1 DEF StageInv, Asked
<1>10. Typed'
  <2>1. LoopTyped'
    BY <1>1 DEF StageInv, Typed, LoopTyped
  <2> QED BY <1>1, <1>5, <2>1 DEF StageInv, Typed, PeopleTyped, BytesTyped, TablesTyped
<1>11. Connections' /\ Bytes' /\ OwnLines'
  BY <1>1 DEF StageInv, Connections, Bytes, OwnLines, Last
<1>12. Events' /\ Closing'
  BY <1>1, NoLoop
<1> QED BY <1>6, <1>8, <1>9, <1>10, <1>11, <1>12 DEF StageInv

\* A hook is done with a session no handler of which is armed, and leaves its
\* lines alone; data is only left behind at the stage that alters it.
LEMMA DoneInv ==
    ASSUME StageInv, at = "process", cur \in DOMAIN sessions, NEW s \in Session, Done(s),
           s.hsock = sessions[cur].hsock, s.lines = sessions[cur].lines, s.stage = sessions[cur].stage,
           s.stage # "READ_RQST_METADATA",
           s.stage = "SEND_RESP" => ~ToSend,
           s.stage = "BUILD_RESP_DATA" => s.chunked,
           s.stage # "BUILD_RESP_DATA" => s.content # "data",
           served' \in [Clients -> Seq(Nat)]
    PROVE  StageInv'
<1> DEFINE n == NextStage(s)
<1>1. /\ sessions' = [sessions EXCEPT ![cur] = n]
      /\ UNCHANGED <<at, pos, nev, rdset, wrset, cur, blocks>>
      /\ UNCHANGED <<owner, queue, peer, inbox, mid, asked, got, sockios, nr_used, hsock_max>>
  BY DEF Done, world, table, loop
<1>2. /\ n \in Session /\ n.hsock = sessions[cur].hsock
      /\ n.lines = sessions[cur].lines \/ n.lines = {}
      /\ n.stage = "ALTER_RESP_DATA" => n.chunked
      /\ n.content = "data" => n.stage = "ALTER_RESP_DATA"
  BY NextStageIs
<1> HIDE DEF n
<1>3. PeopleTyped /\ BytesTyped /\ LoopTyped /\ TablesTyped
  BY DEF StageInv, Typed
<1>4. Used' = Used /\ Table'
  BY <1>1 DEF StageInv, Table, Used
<1>5. /\ sessions' \in Seq(Session) /\ DOMAIN sessions' = DOMAIN sessions
      /\ sessions'[cur] = n /\ \A j \in DOMAIN sessions : j # cur => sessions'[j] = sessions[j]
      /\ OneSession'
  BY <1>1, <1>2, <1>3, <1>4, SameSession DEF StageInv
<1>6. \A e \in Used : sockios[e].hsock = sessions[cur].hsock =>
            sockios[e].onread # "read" /\ sockios[e].onwrite # "send"
  BY DEF StageInv, Asked, ToSend
<1>7. Asked'
  BY <1>1, <1>2, <1>4, <1>5, <1>6 DEF StageInv, Asked
<1>8. OwnLines'
  BY <1>1, <1>2, <1>5 DEF StageInv, OwnLines
<1>9. Typed'
  BY <1>1, <1>3, <1>5 DEF Typed, PeopleTyped, BytesTyped, LoopTyped, TablesTyped
<1>10. Connections' /\ Bytes'
  BY <1>1 DEF StageInv, Connections, Bytes, Last
<1>11. Events' /\ Closing'
  BY <1>1, NoLoop
<1> QED BY <1>4, <1>5, <1>7, <1>8, <1>9, <1>10, <1>11 DEF StageInv

\* What the hooks are given.
LEMMA AtHook ==
    ASSUME StageInv, cur \in DOMAIN sessions
    PROVE  /\ sessions[cur] \in Session /\ owner[sessions[cur].hsock] \in Clients
           /\ served \in [Clients -> Seq(Nat)]
           /\ sessions[cur].stage = "ALTER_RESP_DATA" => sessions[cur].chunked
           /\ sessions[cur].content = "data" => sessions[cur].stage = "ALTER_RESP_DATA"
<1>1. sessions[cur] \in Session /\ sessions[cur].hsock \in ConFds
  BY Members DEF StageInv, Typed
<1>2. owner[sessions[cur].hsock] \in Clients
  BY <1>1 DEF StageInv, OneSession, Typed, PeopleTyped
<1> QED BY <1>1, <1>2 DEF StageInv, Asked, Typed, PeopleTyped

LEMMA PassStageInv ==
    ASSUME StageInv, PassStage
    PROVE  StageInv'
<1>1. /\ at = "process" /\ cur \in DOMAIN sessions /\ Done(sessions[cur]) /\ served' = served
      /\ \/ sessions[cur].stage \in {"CREATE_CON", "PARSE_RQST_METADATA", "READ_RQST_DATA",
                                     "ALTER_RQST_DATA", "BUILD_RESP_METADATA"}
         \/ sessions[cur].stage = "SEND_RESP" /\ ~ToSend
  BY DEF PassStage, Working
<1> QED BY <1>1, AtHook, DoneInv

\* A chunk of the file, or the end of it.
LEMMA FetchedIs ==
    ASSUME NEW s \in Session, NEW n \in Nat
    PROVE  /\ Fetched(s, n) \in Session /\ Fetched(s, n).chunked
           /\ Fetched(s, n).hsock = s.hsock /\ Fetched(s, n).lines = s.lines
           /\ Fetched(s, n).stage = s.stage
<1>1. CASE n = 0
  BY <1>1 DEF Fetched, Session
<1>2. CASE n # 0
  <2>1. n - 1 \in Nat
    BY <1>2
  <2> QED BY <1>2, <2>1 DEF Fetched, Session
<1> QED BY <1>1, <1>2

LEMMA OpenResourceInv ==
    ASSUME StageInv, OpenResource
    PROVE  StageInv'
<1> DEFINE s == [sessions[cur] EXCEPT !.first = TRUE]
           c == owner[sessions[cur].hsock]
<1>1. at = "process" /\ cur \in DOMAIN sessions /\ sessions[cur].stage = "BUILD_RESP_DATA"
  BY DEF OpenResource, Working
<1>2. PICK n \in IF sessions[cur].lines = {c} THEN {Chunks[c]} ELSE {Chunks[d] : d \in Clients} :
        Done(Fetched(s, n)) /\ served' = [served EXCEPT ![c] = Append(@, n)]
  BY DEF OpenResource
<1>3. c \in Clients /\ served \in [Clients -> Seq(Nat)] /\ sessions[cur] \in Session
  BY <1>1, AtHook
<1>4. n \in Nat
  BY <1>3, StageAssumption
<1>5. /\ s \in Session /\ s.hsock = sessions[cur].hsock
      /\ s.lines = sessions[cur].lines /\ s.stage = sessions[cur].stage
  BY <1>3 DEF Session
<1> HIDE DEF s, c
<1>6. served' \in [Clients -> Seq(Nat)]
  BY <1>2, <1>3, <1>4
<1> QED BY <1>1, <1>2, <1>4, <1>5, <1>6, FetchedIs, DoneInv

LEMMA FetchMoreInv ==
    ASSUME StageInv, FetchMore
    PROVE  StageInv'
<1>1. /\ at = "process" /\ cur \in DOMAIN sessions /\ sessions[cur].stage = "BUILD_RESP_DATA"
      /\ Done(Fetched(sessions[cur], sessions[cur].left)) /\ served' = served
  BY DEF FetchMore, Working
<1>2. sessions[cur] \in Session /\ served \in [Clients -> Seq(Nat)]
  BY <1>1, AtHook
<1>3. sessions[cur].left \in Nat
  BY <1>2 DEF Session
<1> QED BY <1>1, <1>2, <1>3, FetchedIs, DoneInv

LEMMA AlterDataInv ==
    ASSUME StageInv, AlterData
    PROVE  StageInv'
<1> DEFINE t == sessions[cur]
           s == IF t.last THEN [t EXCEPT !.chunked = FALSE, !.header = FALSE, !.content = "end"]
                ELSE IF t.chunked THEN [t EXCEPT !.content = "chunk"] ELSE t
<1>1. /\ at = "process" /\ cur \in DOMAIN sessions /\ t.stage = "ALTER_RESP_DATA"
      /\ Done(s) /\ served' = served
  BY DEF AlterData, Working
<1>2. t \in Session /\ served \in [Clients -> Seq(Nat)] /\ t.chunked
  BY <1>1, AtHook
<1>3. /\ s \in Session /\ s.hsock = t.hsock /\ s.lines = t.lines /\ s.stage = t.stage
      /\ s.content # "data"
  BY <1>2 DEF Session
<1> HIDE DEF s
<1> QED BY <1>1, <1>2, <1>3, DoneInv

LEMMA AlterMetadataInv ==
    ASSUME StageInv, AlterMetadata
    PROVE  StageInv'
<1> DEFINE t == sessions[cur]
           s == [t EXCEPT !.header = (t.first \/ ~t.chunked) /\ ~t.last, !.first = FALSE]
<1>1. /\ at = "process" /\ cur \in DOMAIN sessions /\ t.stage = "ALTER_RESP_METADATA"
      /\ Done(s) /\ served' = served
  BY DEF AlterMetadata, Working
<1>2. t \in Session /\ served \in [Clients -> Seq(Nat)] /\ t.content # "data"
  BY <1>1, AtHook
<1>3. /\ s \in Session /\ s.hsock = t.hsock /\ s.lines = t.lines /\ s.stage = t.stage
      /\ s.content = t.content
  BY <1>2 DEF Session
<1> HIDE DEF s
<1> QED BY <1>1, <1>2, <1>3, DoneInv
-----------------------------------------------------------------------------
(* send_response and terminate_connection.                                 *)

\* A write handler runs for a session that has something to send.
LEMMA AtSend ==
    ASSUME StageInv, WritesNow
    PROVE  /\ at = "loop" /\ pos \in Entries /\ pos \in Used /\ pos # 1 /\ ~Reads(pos) /\ Writes(pos)
           /\ sockios[pos].hsock \in ConFds /\ owner[sockios[pos].hsock] \in Clients
           /\ peer[owner[sockios[pos].hsock]] # "away" /\ sockios[pos].onread = "none"
           /\ \E k \in DOMAIN sessions :
                /\ SessionOf(sockios[pos].hsock) = k /\ sessions[k].hsock = sockios[pos].hsock
                /\ sessions[k].stage = "SEND_RESP"
<1>1. at = "loop" /\ pos \in Entries /\ ~Reads(pos) /\ Writes(pos)
  <2>1. at # "write"
    BY DEF StageInv, Typed, LoopTyped
  <2> QED BY <2>1 DEF WritesNow, InLoop
<1>2. /\ pos \in Used /\ pos # 1 /\ sockios[pos].onwrite = "send" /\ sockios[pos].onread = "none"
      /\ sockios[pos].hsock \in ConFds /\ owner[sockios[pos].hsock] \in Clients
  BY <1>1, AtEvent
<1>3. peer[owner[sockios[pos].hsock]] # "away"
  BY <1>2, StageAssumption DEF StageInv, Connections
<1>4. PICK k \in DOMAIN sessions : sessions[k].hsock = sockios[pos].hsock
  BY <1>2, OneHandler
<1>5. sessions[k].stage = "SEND_RESP"
  BY <1>2, <1>4 DEF StageInv, Asked
<1>6. SessionOf(sessions[k].hsock) = k
  BY SessionFound DEF StageInv, Typed, TablesTyped
<1> QED BY <1>1, <1>2, <1>3, <1>4, <1>5, <1>6

\* The write handler of an entry is called: its pointer is zeroed.
LEMMA WriteCalled ==
    ASSUME StageInv, pos \in Used, pos # 1, sockios' = Called(sockios, pos, "onwrite"),
           UNCHANGED <<nr_used, hsock_max, owner>>
    PROVE  /\ sockios' \in [Entries -> Entry] /\ Used' = Used /\ Table'
           /\ \A e \in Entries :
                /\ sockios'[e].used = sockios[e].used /\ sockios'[e].hsock = sockios[e].hsock
                /\ sockios'[e].onread = sockios[e].onread
                /\ sockios'[e].onwrite = IF e = pos THEN "none" ELSE sockios[e].onwrite
<1>1. pos \in Entries
  BY DEF Used
<1>2. /\ sockios' \in [Entries -> Entry]
      /\ \A e \in Entries :
            /\ sockios'[e].used = sockios[e].used /\ sockios'[e].hsock = sockios[e].hsock
            /\ sockios'[e].onread = sockios[e].onread
            /\ sockios'[e].onwrite = IF e = pos THEN "none" ELSE sockios[e].onwrite
            /\ e # pos => sockios'[e] = sockios[e]
  BY <1>1, CalledIs DEF StageInv, Typed, TablesTyped
<1>3. \A e \in Used \ {1} : sockios'[e].onread \in {"none", "read"}
  BY <1>2 DEF StageInv, Table, Used
<1> QED BY <1>2, <1>3, SameEntries, Sizes DEF StageInv

LEMMA SendResponseInv ==
    ASSUME StageInv, SendResponse
    PROVE  StageInv'
<1> DEFINE h == sockios[pos].hsock
           c == owner[h]
           k == SessionOf(h)
           s == [sessions[k] EXCEPT !.header = FALSE, !.content = "none"]
           header == IF sessions[k].header THEN <<"header">> ELSE <<>>
           content == IF sessions[k].content = "none" THEN <<>> ELSE <<sessions[k].content>>
<1>1. /\ WritesNow /\ peer[c] \in {"open", "closed"}
      /\ got' = [got EXCEPT ![c] = @ \o (header \o content)]
      /\ peer' = [peer EXCEPT ![c] = IF @ = "closed" THEN "reset" ELSE @]
      /\ sessions' = [sessions EXCEPT ![k].header = FALSE, ![k].content = "none"]
      /\ sockios' = Called(sockios, pos, "onwrite")
      /\ nev' = nev - 1 /\ pos' = pos + 1 /\ at' = "loop" /\ UNCHANGED <<rdset, wrset>>
      /\ UNCHANGED <<owner, queue, inbox, mid, asked, nr_used, hsock_max, cur, blocks, served>>
  BY DEF SendResponse, SendWith, EndIteration
<1>2. /\ at = "loop" /\ pos \in Entries /\ pos \in Used /\ pos # 1 /\ ~Reads(pos) /\ Writes(pos)
      /\ h \in ConFds /\ c \in Clients /\ sockios[pos].onread = "none"
      /\ k \in DOMAIN sessions /\ sessions[k].hsock = h /\ sessions[k].stage = "SEND_RESP"
  BY <1>1, AtSend
<1>3. PeopleTyped /\ BytesTyped /\ LoopTyped /\ TablesTyped
  BY DEF StageInv, Typed
<1>4. sessions[k] \in Session /\ sessions \in Seq(Session)
  BY <1>2, <1>3, Members DEF TablesTyped
<1>5. sessions[k].content \in {"none", "chunk", "end"}
  <2>1. sessions[k].content # "data"
    BY <1>2 DEF StageInv, Asked
  <2> QED BY <1>4, <2>1 DEF Session
<1>6. /\ s \in Session /\ s.hsock = h /\ s.stage = sessions[k].stage /\ s.lines = sessions[k].lines
      /\ s.chunked = sessions[k].chunked /\ s.content = "none"
  BY <1>2, <1>4 DEF Session
<1>7. sessions' = [sessions EXCEPT ![k] = s]
  BY <1>1, <1>2, <1>4
<1>8. header \o content \in Seq({"header", "chunk", "end"})
  <2> DEFINE P == {"header", "chunk", "end"}
  <2>1. "header" \in P
    OBVIOUS
  <2>2. header = <<>> \/ header = <<"header">>
    OBVIOUS
  <2>3. content = <<>> \/ (content = <<sessions[k].content>> /\ sessions[k].content \in P)
    BY <1>5
  <2> HIDE DEF header, content, P
  <2>4. /\ <<>> \in Seq(P) /\ \A x \in P : <<x>> \in Seq(P)
        /\ \A a, b \in Seq(P) : a \o b \in Seq(P)
    OBVIOUS
  <2>5. header \in Seq(P) /\ content \in Seq(P)
    BY <2>1, <2>2, <2>3, <2>4
  <2>6. header \o content \in Seq(P)
    BY <2>4, <2>5
  <2> QED BY <2>6 DEF P
<1>9. /\ sockios' \in [Entries -> Entry] /\ Used' = Used /\ Table'
      /\ \A e \in Entries :
            /\ sockios'[e].used = sockios[e].used /\ sockios'[e].hsock = sockios[e].hsock
            /\ sockios'[e].onread = sockios[e].onread
            /\ sockios'[e].onwrite = IF e = pos THEN "none" ELSE sockios[e].onwrite
  BY <1>1, <1>2, WriteCalled
<1>10. \A e \in Used : e \in Entries /\ (sockios[e].hsock = h => e = pos)
  BY <1>2 DEF StageInv, Table, Used
<1> HIDE DEF h, c, k, s, header, content
<1>11. /\ Connections' /\ Bytes'
       /\ \A g \in ConFds : owner[g] # NoClient /\ peer[owner[g]] = "dead" => peer'[owner[g]] = "dead"
       /\ \A d \in Clients : peer'[d] = "open" <=> peer[d] = "open"
       /\ peer' \in [Clients -> {"away", "open", "closed", "reset", "dead"}]
  <2>1. CASE peer[c] = "closed"
    <3>1. peer' = [peer EXCEPT ![c] = "reset"]
      BY <1>1, <2>1
    <3> QED BY <1>1, <1>2, <2>1, <3>1, PeerLost
  <2>2. CASE peer[c] = "open"
    <3>1. peer' = peer
      BY <1>1, <1>2, <1>3, <2>2 DEF PeopleTyped
    <3>2. Connections'
      BY <1>1, <3>1 DEF StageInv, Connections
    <3>3. Bytes'
      BY <1>1, <3>1 DEF StageInv, Bytes, Last
    <3>4. peer' \in [Clients -> {"away", "open", "closed", "reset", "dead"}]
      BY <1>3, <3>1 DEF PeopleTyped
    <3> QED BY <3>1, <3>2, <3>3, <3>4
  <2> QED BY <1>1, <2>1, <2>2
<1>12. /\ sessions' \in Seq(Session) /\ DOMAIN sessions' = DOMAIN sessions
       /\ sessions'[k] = s /\ \A j \in DOMAIN sessions : j # k => sessions'[j] = sessions[j]
       /\ OneSession'
  <2>1. s.hsock = sessions[k].hsock /\ owner' = owner
    BY <1>1, <1>2, <1>6
  <2>2. \A e \in Entries : sockios'[e].hsock = sockios[e].hsock
    BY <1>9
  <2>3. OneSession /\ \A g \in ConFds : owner[g] # NoClient /\ peer[owner[g]] = "dead" => peer'[owner[g]] = "dead"
    BY <1>11 DEF StageInv
  <2> QED BY <1>2, <1>3, <1>6, <1>7, <1>9, <2>1, <2>2, <2>3, SameSession
<1>13. Events' /\ nev' \in Nat
  <2>1. \A e \in Entries : (Reads(e)' <=> Reads(e)) /\ (Writes(e)' <=> Writes(e))
    BY <1>1, <1>9 DEF Reads, Writes
  <2>2. \A e \in Entries : e > pos => e # pos
    BY Sizes
  <2> QED BY <1>1, <1>2, <1>9, <2>1, <2>2, Passed DEF StageInv
<1>14. Typed'
  <2>1. got' \in [Clients -> Seq({"header", "chunk", "end"})]
    <3>1. got[c] \in Seq({"header", "chunk", "end"})
      BY <1>2, <1>3 DEF PeopleTyped
    <3>2. got[c] \o (header \o content) \in Seq({"header", "chunk", "end"})
      BY <1>8, <3>1
    <3> QED BY <1>1, <1>3, <3>2 DEF PeopleTyped
  <2>2. PeopleTyped'
    BY <1>1, <1>3, <1>11, <2>1 DEF PeopleTyped
  <2>3. LoopTyped'
    BY <1>1, <1>2, <1>3, <1>13, Sizes DEF LoopTyped
  <2>4. BytesTyped' /\ TablesTyped'
    BY <1>1, <1>3, <1>9, <1>12 DEF BytesTyped, TablesTyped
  <2> QED BY <2>2, <2>3, <2>4 DEF Typed
<1>15. Asked'
  <2>1. ASSUME NEW j \in DOMAIN sessions, NEW e \in Used, sockios[e].hsock = sessions[j].hsock
        PROVE  /\ sockios'[e].onread = "read" => sessions'[j].stage = "READ_RQST_METADATA"
               /\ sockios'[e].onwrite = "send" => /\ sessions'[j].stage = "SEND_RESP"
                                                  /\ sessions'[j].header \/ sessions'[j].content # "none"
    <3>1. CASE j = k
      BY <1>2, <1>9, <1>10, <2>1, <3>1
    <3>2. CASE j # k
      BY <1>9, <1>10, <1>12, <2>1, <3>2 DEF StageInv, Asked
    <3> QED BY <3>1, <3>2
  <2>2. \A j \in DOMAIN sessions : sessions'[j].hsock = sessions[j].hsock
    BY <1>2, <1>6, <1>12
  <2>3. ASSUME NEW j \in DOMAIN sessions
        PROVE  /\ sessions'[j].stage = "ALTER_RESP_DATA" => sessions'[j].chunked
               /\ sessions'[j].content = "data" => sessions'[j].stage = "ALTER_RESP_DATA"
    BY <1>6, <1>12 DEF StageInv, Asked
  <2> QED BY <1>9, <1>10, <1>12, <2>1, <2>2, <2>3 DEF Asked
<1>16. OwnLines'
  <2>1. \A j \in DOMAIN sessions : \A d \in sessions[j].lines : d \in Clients
    BY <1>3, Members
  <2>2. \A j \in DOMAIN sessions : sessions'[j].hsock = sessions[j].hsock /\ sessions'[j].lines = sessions[j].lines
    BY <1>2, <1>6, <1>12
  <2> QED BY <1>1, <1>11, <1>12, <2>1, <2>2 DEF StageInv, OwnLines
<1>17. Closing'
  BY <1>1 DEF Closing
<1> QED BY <1>9, <1>11, <1>12, <1>13, <1>14, <1>15, <1>16, <1>17 DEF StageInv

LEMMA SendFailsInv ==
    ASSUME StageInv, SendFails
    PROVE  StageInv'
<1> DEFINE h == sockios[pos].hsock
           c == owner[h]
<1>1. /\ WritesNow /\ peer[c] \in {"reset", "dead"} /\ peer' = [peer EXCEPT ![c] = "dead"]
      /\ sockios' = Called(sockios, pos, "onwrite")
      /\ \/ nev' = nev - 1 /\ pos' = pos + 1 /\ at' = "loop"
         \/ UNCHANGED <<nev, pos>> /\ at' = "close"
      /\ UNCHANGED <<rdset, wrset>>
      /\ UNCHANGED <<owner, queue, inbox, mid, asked, got, nr_used, hsock_max, sessions, cur, blocks, served>>
  BY DEF SendFails, EndIteration, GoTo
<1>2. /\ at = "loop" /\ pos \in Entries /\ pos \in Used /\ pos # 1 /\ ~Reads(pos) /\ Writes(pos)
      /\ h \in ConFds /\ c \in Clients /\ sockios[pos].onread = "none"
  BY <1>1, AtSend
<1>3. PeopleTyped /\ BytesTyped /\ LoopTyped /\ TablesTyped
  BY DEF StageInv, Typed
<1>4. /\ sockios' \in [Entries -> Entry] /\ Used' = Used /\ Table'
      /\ \A e \in Entries :
            /\ sockios'[e].used = sockios[e].used /\ sockios'[e].hsock = sockios[e].hsock
            /\ sockios'[e].onread = sockios[e].onread
            /\ sockios'[e].onwrite = IF e = pos THEN "none" ELSE sockios[e].onwrite
  BY <1>1, <1>2, WriteCalled
<1>5. \A e \in Used : e \in Entries
  BY DEF Used
<1>6. c = owner[h] /\ h = sockios[pos].hsock
  OBVIOUS
<1> HIDE DEF h, c
<1>7. /\ Connections' /\ Bytes'
      /\ \A g \in ConFds : owner[g] # NoClient /\ peer[owner[g]] = "dead" => peer'[owner[g]] = "dead"
      /\ \A d \in Clients : (peer'[d] = "open" <=> peer[d] = "open") /\ (peer[d] = "dead" => peer'[d] = "dead")
      /\ peer'[c] = "dead" /\ peer' \in [Clients -> {"away", "open", "closed", "reset", "dead"}]
  BY <1>1, <1>2, PeerLost
<1>8. OneSession'
  BY <1>1, <1>4, <1>5, <1>7 DEF StageInv, OneSession
<1>9. Asked'
  BY <1>1, <1>4, <1>5 DEF StageInv, Asked
<1>10. OwnLines'
  <2>1. \A k \in DOMAIN sessions : \A d \in sessions[k].lines : d \in Clients
    BY <1>3, Members
  <2> QED BY <1>1, <1>7, <2>1 DEF StageInv, OwnLines
<1>11. PeopleTyped' /\ BytesTyped' /\ TablesTyped'
  BY <1>1, <1>3, <1>4, <1>7 DEF PeopleTyped, BytesTyped, TablesTyped
<1>12. /\ \A e \in Entries : (Reads(e)' <=> Reads(e)) /\ (Writes(e)' <=> Writes(e))
       /\ \A e \in Entries : e > pos => e # pos
  BY <1>1, <1>4, Sizes DEF Reads, Writes
<1>13. CASE nev' = nev - 1 /\ pos' = pos + 1 /\ at' = "loop"
  <2>1. Events' /\ nev' \in Nat
    BY <1>1, <1>2, <1>4, <1>12, <1>13, Passed DEF StageInv
  <2>2. LoopTyped'
    BY <1>1, <1>2, <1>3, <1>13, <2>1, Sizes DEF LoopTyped
  <2>3. Closing'
    BY <1>13 DEF Closing
  <2> QED BY <1>4, <1>7, <1>8, <1>9, <1>10, <1>11, <2>1, <2>2, <2>3 DEF StageInv, Typed
<1>14. CASE UNCHANGED <<nev, pos>> /\ at' = "close"
  <2>1. Events'
    <3>1. ToRead(pos)' = ToRead(pos) /\ ToWrite(pos)' = ToWrite(pos)
      BY <1>12, <1>14 DEF ToRead, ToWrite
    <3>2. nev = Cardinality(ToRead(pos)) + Cardinality(ToWrite(pos))
      BY <1>2 DEF StageInv, Events
    <3>3. \A e \in Entries : e > pos => /\ Reads(e)'  => sockios'[e].onread # "none"
                                        /\ Writes(e)' => sockios'[e].onwrite # "none"
      BY <1>2, <1>4, <1>12 DEF StageInv, Events
    <3>4. sockios'[pos].onread = "none" /\ sockios'[pos].onwrite = "none"
      BY <1>2, <1>4
    <3>5. ~Reads(pos)' /\ Writes(pos)'
      BY <1>2, <1>12, <1>14
    <3> QED BY <1>2, <1>4, <1>14, <3>1, <3>2, <3>3, <3>4, <3>5 DEF Events
  <2>2. LoopTyped'
    BY <1>1, <1>3, <1>14 DEF LoopTyped
  <2>3. Closing'
    <3>1. peer'[owner'[sockios'[pos'].hsock]] = "dead"
      BY <1>1, <1>2, <1>4, <1>6, <1>7, <1>14
    <3> QED BY <3>1 DEF Closing
  <2> QED BY <1>4, <1>7, <1>8, <1>9, <1>10, <1>11, <2>1, <2>2, <2>3 DEF StageInv, Typed
<1> QED BY <1>1, <1>13, <1>14
\* The entry of a closed connection is given back, and the highest descriptor
\* is that of another one.
LEMMA Released ==
    ASSUME StageInv, pos \in Used, pos # 1, ReleaseSockio(pos)
    PROVE  /\ sockios' \in [Entries -> Entry] /\ sockios'[pos] = FreeEntry
           /\ \A e \in Entries : e # pos => sockios'[e] = sockios[e]
           /\ Used' = Used \ {pos} /\ nr_used' \in 0 .. NSOCKIO /\ nr_used' = Cardinality(Used')
           /\ hsock_max' = Highest({sockios'[e].hsock : e \in Used'})
           /\ hsock_max' \in ConFds \cup {0, ListenFd}
<1> DEFINE S == {sockios[e].hsock : e \in Used}
           T == {sockios[d].hsock : d \in Used \ {pos}}
<1>1. /\ sockios' = [sockios EXCEPT ![pos] = FreeEntry] /\ nr_used' = nr_used - 1
      /\ hsock_max' = IF sockios[pos].hsock = hsock_max THEN Highest(T) ELSE hsock_max
  BY DEF ReleaseSockio
<1>2. /\ sockios \in [Entries -> Entry] /\ Used \in SUBSET Entries /\ pos \in Entries
      /\ \A e \in Entries : e \in Used <=> sockios[e].used
  BY DEF StageInv, Typed, TablesTyped, Used
<1>3. FreeEntry \in Entry /\ FreeEntry.used = FALSE
  BY DEF FreeEntry, Entry
<1>4. /\ sockios' \in [Entries -> Entry] /\ sockios'[pos] = FreeEntry
      /\ \A e \in Entries : e # pos => sockios'[e] = sockios[e]
  BY <1>1, <1>2, <1>3
<1>5. Used' = Used \ {pos}
  <2>1. Used' = {e \in Entries : sockios'[e].used}
    BY DEF Used
  <2>2. \A e \in Entries : sockios'[e].used <=> e \in Used /\ e # pos
    BY <1>2, <1>3, <1>4
  <2> QED BY <1>2, <2>1, <2>2
<1>6. nr_used' \in 0 .. NSOCKIO /\ nr_used' = Cardinality(Used')
  <2>1. /\ nr_used = Cardinality(Used) /\ Cardinality(Used) \in Nat /\ Cardinality(Used) <= NSOCKIO
        /\ Cardinality(Used \ {pos}) = Cardinality(Used) - 1 /\ Cardinality(Used) > 0
    BY <1>2, Subsets DEF StageInv, Table
  <2> QED BY <1>1, <1>5, <2>1, Sizes
<1>7. {sockios'[e].hsock : e \in Used'} = T
  <2>1. \A e \in Used \ {pos} : sockios'[e].hsock = sockios[e].hsock
    BY <1>2, <1>4
  <2> QED BY <1>5, <2>1
<1>8. /\ 1 \in Used /\ sockios[1].hsock = ListenFd /\ hsock_max = Highest(S)
      /\ \A e \in Used : sockios[e].hsock \in ConFds \cup {ListenFd}
      /\ \A d, e \in Used : sockios[d].hsock = sockios[e].hsock => d = e
  BY <1>2, Sizes DEF StageInv, Table, Used
<1>9. /\ S \subseteq ConFds \cup {ListenFd} /\ T \subseteq S /\ ListenFd \in T
      /\ \A h \in S : h # sockios[pos].hsock => h \in T
  BY <1>8
<1>10. sockios[pos].hsock \notin T
  BY <1>2, <1>8
<1> HIDE DEF S, T
<1>11. /\ S \in SUBSET Nat /\ T \in SUBSET Nat /\ S # {} /\ T # {}
       /\ Cardinality(Clients) + 1 \in Nat
       /\ \A h \in S : h <= Cardinality(Clients) + 1 /\ \A g \in T : g <= Cardinality(Clients) + 1
  BY <1>9, Sizes
<1>12. hsock_max \in S /\ \A h \in S : h <= hsock_max
  BY <1>8, <1>11, HighestIn
<1>13. hsock_max' = Highest(T)
  <2>1. CASE sockios[pos].hsock = hsock_max
    BY <1>1, <2>1
  <2>2. CASE sockios[pos].hsock # hsock_max
    <3>1. hsock_max \in T /\ \A h \in T : h <= hsock_max
      BY <1>9, <1>12, <2>2
    <3> QED BY <1>1, <1>11, <2>2, <3>1, HighestIs
  <2> QED BY <2>1, <2>2
<1>14. Highest(T) \in T
  <2>1. \A g \in T : g <= Cardinality(Clients) + 1
    BY <1>9, <1>11
  <2> QED BY <1>11, <2>1, HighestIn
<1> QED BY <1>4, <1>5, <1>6, <1>7, <1>9, <1>13, <1>14

LEMMA TerminateInv ==
    ASSUME StageInv, Terminate
    PROVE  StageInv'
<1> DEFINE h == sockios[pos].hsock
           c == owner[h]
           k == SessionOf(h)
           from(i) == IF i < k THEN i ELSE i + 1
<1>1. /\ at = "close" /\ sessions' = Without(k)
      /\ owner' = IF peer[c] = "dead" THEN owner ELSE [owner EXCEPT ![h] = NoClient]
      /\ ReleaseSockio(pos)
      /\ nev' = nev - 1 /\ pos' = pos + 1 /\ at' = "loop" /\ UNCHANGED <<rdset, wrset>>
      /\ UNCHANGED <<queue, peer, inbox, mid, asked, got, cur, blocks, served>>
  BY DEF Terminate, TerminateWith, EndIteration
<1>2. /\ pos \in Used /\ pos \in Entries /\ pos # 1 /\ h \in ConFds /\ c \in Clients
      /\ k \in DOMAIN sessions /\ sessions[k].hsock = h
  BY <1>1, InHandler
<1>3. PeopleTyped /\ BytesTyped /\ LoopTyped /\ TablesTyped
  BY DEF StageInv, Typed
<1>4. /\ sockios' \in [Entries -> Entry] /\ sockios'[pos] = FreeEntry
      /\ \A e \in Entries : e # pos => sockios'[e] = sockios[e]
      /\ Used' = Used \ {pos} /\ nr_used' \in 0 .. NSOCKIO /\ nr_used' = Cardinality(Used')
      /\ hsock_max' = Highest({sockios'[e].hsock : e \in Used'})
      /\ hsock_max' \in ConFds \cup {0, ListenFd}
  BY <1>1, <1>2, Released
<1>5. /\ sessions \in Seq(Session) /\ Len(sessions) \in Nat /\ DOMAIN sessions = 1 .. Len(sessions)
      /\ \A j \in DOMAIN sessions : sessions[j].hsock \in ConFds /\ \A d \in sessions[j].lines : d \in Clients
  BY <1>3, Members DEF TablesTyped
<1>6. /\ sessions' \in Seq(Session) /\ DOMAIN sessions' = 1 .. Len(sessions) - 1
      /\ \A i \in DOMAIN sessions' : sessions'[i] = sessions[from(i)]
  BY <1>1, <1>2, <1>5, WithoutIs
<1>7. /\ \A i \in DOMAIN sessions' : from(i) \in DOMAIN sessions /\ from(i) # k
      /\ \A i, j \in DOMAIN sessions' : from(i) = from(j) => i = j
      /\ \A j \in DOMAIN sessions : j # k => \E i \in DOMAIN sessions' : from(i) = j
  <2>1. k \in 1 .. Len(sessions)
    BY <1>2, <1>5
  <2> HIDE DEF k
  <2>2. \A i \in 1 .. Len(sessions) - 1 : from(i) \in 1 .. Len(sessions) /\ from(i) # k
    BY <1>5, <2>1
  <2>3. \A i, j \in 1 .. Len(sessions) - 1 : from(i) = from(j) => i = j
    BY <1>5, <2>1
  <2>4. ASSUME NEW j \in 1 .. Len(sessions), j # k
        PROVE  \E i \in 1 .. Len(sessions) - 1 : from(i) = j
    <3>1. CASE j < k
      <4>1. j \in 1 .. Len(sessions) - 1 /\ from(j) = j
        BY <1>5, <2>1, <3>1
      <4> QED BY <4>1
    <3>2. CASE ~(j < k)
      <4>1. j - 1 \in 1 .. Len(sessions) - 1 /\ from(j - 1) = j
        BY <1>5, <2>1, <2>4, <3>2
      <4> QED BY <4>1
    <3> QED BY <3>1, <3>2
  <2> HIDE DEF from
  <2> QED BY <1>5, <1>6, <2>2, <2>3, <2>4
<1> HIDE DEF from
<1>8. /\ \A j \in DOMAIN sessions : j # k => sessions[j].hsock # h
      /\ \A e \in Used : e \in Entries /\ (e # pos => sockios[e].hsock # h)
  BY <1>2 DEF StageInv, OneSession, Table, Used
<1>9. c = owner[h] /\ h = sockios[pos].hsock
  OBVIOUS
<1>10. \/ peer[c] = "dead"
       \/ peer[c] = "closed" /\ blocks[h].buf = <<>> /\ inbox[c] = <<>>
  BY <1>1 DEF StageInv, Closing
<1>11. /\ Reads(pos) <=> ~Writes(pos)
  BY <1>1 DEF StageInv, Events
<1> HIDE DEF h, c, k
<1>12. /\ owner' \in [ConFds -> Clients \cup {NoClient}]
       /\ \A g \in ConFds : g # h => owner'[g] = owner[g]
       /\ owner'[h] = IF peer[c] = "dead" THEN c ELSE NoClient
       /\ \A g \in ConFds : owner[g] \in Clients \cup {NoClient}
       /\ \A i \in DOMAIN queue : queue[i] \in Clients
  <2>1. owner \in [ConFds -> Clients \cup {NoClient}] /\ \A i \in DOMAIN queue : queue[i] \in Clients
    BY <1>3 DEF PeopleTyped
  <2>2. CASE peer[c] = "dead"
    BY <1>1, <1>9, <2>1, <2>2
  <2>3. CASE peer[c] # "dead"
    BY <1>1, <1>2, <2>1, <2>3
  <2> QED BY <2>2, <2>3
<1>13. c # NoClient
  BY <1>2, StageAssumption
<1>14. \A g \in ConFds : owner'[g] # NoClient => owner'[g] = owner[g]
  BY <1>9, <1>12
<1>15. Connections'
  <2>1. \A i \in DOMAIN queue : \A g \in ConFds : owner'[g] # queue[i]
    BY <1>12, <1>14, StageAssumption DEF StageInv, Connections
  <2> QED BY <1>1, <1>12, <1>14, <2>1 DEF StageInv, Connections
<1>16. Table'
  <2>1. sockios'[1] = sockios[1]
    BY <1>2, <1>4, Sizes
  <2>2. \A e \in Used' : e \in Used /\ e \in Entries /\ e # pos /\ sockios'[e] = sockios[e] /\ sockios[e].hsock # h
    BY <1>4, <1>8
  <2>3. \A e \in Used' \ {1} :
            /\ sockios'[e].hsock \in ConFds /\ owner'[sockios'[e].hsock] # NoClient
            /\ sockios'[e].onread \in {"none", "read"}
    <3>1. \A e \in Used \ {1} :
            /\ sockios[e].hsock \in ConFds /\ owner[sockios[e].hsock] # NoClient
            /\ sockios[e].onread \in {"none", "read"}
      BY DEF StageInv, Table
    <3> QED BY <1>12, <2>2, <3>1
  <2>4. \A d, e \in Used' : sockios'[d].hsock = sockios'[e].hsock => d = e
    <3>1. \A d, e \in Used : sockios[d].hsock = sockios[e].hsock => d = e
      BY DEF StageInv, Table
    <3> QED BY <2>2, <3>1
  <2>5. sockios[1] = [used |-> TRUE, hsock |-> ListenFd, onread |-> "accept", onwrite |-> "none"]
    BY DEF StageInv, Table
  <2> QED BY <1>4, <2>1, <2>3, <2>4, <2>5 DEF Table
<1>17. OneSession'
  <2>1. \A i \in DOMAIN sessions' :
            /\ sessions'[i].hsock = sessions[from(i)].hsock /\ sessions[from(i)].hsock # h
            /\ sessions[from(i)].hsock \in ConFds
            /\ owner'[sessions'[i].hsock] = owner[sessions'[i].hsock]
    BY <1>5, <1>6, <1>7, <1>8, <1>12
  <2>2. \A i, j \in DOMAIN sessions' : sessions'[i].hsock = sessions'[j].hsock => i = j
    <3>1. \A i, j \in DOMAIN sessions : sessions[i].hsock = sessions[j].hsock => i = j
      BY DEF StageInv, OneSession
    <3> QED BY <1>7, <2>1, <3>1
  <2>3. \A i \in DOMAIN sessions' : owner'[sessions'[i].hsock] # NoClient
    <3>1. \A i \in DOMAIN sessions : owner[sessions[i].hsock] # NoClient
      BY DEF StageInv, OneSession
    <3> QED BY <1>7, <2>1, <3>1
  <2>4. ASSUME NEW g \in ConFds, g # h, \E j \in DOMAIN sessions : sessions[j].hsock = g
        PROVE  \E i \in DOMAIN sessions' : sessions'[i].hsock = g
    <3>1. PICK j \in DOMAIN sessions : sessions[j].hsock = g
      BY <2>4
    <3>2. j # k
      BY <1>2, <2>4, <3>1
    <3>3. PICK i \in DOMAIN sessions' : from(i) = j
      BY <1>7, <3>2
    <3> QED BY <2>1, <3>1, <3>3
  <2>5. \A e \in Used' \ {1} : \E i \in DOMAIN sessions' : sessions'[i].hsock = sockios'[e].hsock
    <3>1. SUFFICES ASSUME NEW e \in Used' \ {1}
                   PROVE  \E i \in DOMAIN sessions' : sessions'[i].hsock = sockios'[e].hsock
      OBVIOUS
    <3>2. e \in Used \ {1} /\ sockios'[e].hsock = sockios[e].hsock /\ sockios[e].hsock # h
      BY <1>4, <1>8
    <3>3. sockios[e].hsock \in ConFds /\ \E j \in DOMAIN sessions : sessions[j].hsock = sockios[e].hsock
      BY <3>2 DEF StageInv, Table, OneSession
    <3> QED BY <2>4, <3>2, <3>3
  <2>6. ASSUME NEW g \in ConFds, owner'[g] # NoClient, peer'[owner'[g]] # "dead"
        PROVE  \E i \in DOMAIN sessions' : sessions'[i].hsock = g
    <3>1. owner'[g] = owner[g] /\ g # h
      BY <1>1, <1>12, <1>14, <2>6
    <3>2. \E j \in DOMAIN sessions : sessions[j].hsock = g
      BY <1>1, <2>6, <3>1 DEF StageInv, OneSession
    <3> QED BY <2>4, <3>1, <3>2
  <2> QED BY <2>2, <2>3, <2>5, <2>6 DEF OneSession
<1>18. Asked'
  <2>1. \A e \in Used' : e \in Used /\ sockios'[e] = sockios[e]
    BY <1>4, <1>8
  <2>2. \A i \in DOMAIN sessions' : sessions'[i] = sessions[from(i)] /\ from(i) \in DOMAIN sessions
    BY <1>6, <1>7
  <2> QED BY <2>1, <2>2 DEF StageInv, Asked
<1>19. Events' /\ nev' \in Nat
  <2>1. \A e \in Entries : e > pos => e # pos /\ sockios'[e] = sockios[e]
    BY <1>2, <1>4, Sizes
  <2>2. \A e \in Entries : e > pos => (Reads(e)' <=> Reads(e)) /\ (Writes(e)' <=> Writes(e))
    BY <1>1, <2>1 DEF Reads, Writes
  <2>3. IF Reads(pos) THEN ~Writes(pos) /\ nev' = nev - 1 ELSE nev' = IF Writes(pos) THEN nev - 1 ELSE nev
    BY <1>1, <1>11
  <2> QED BY <1>1, <1>2, <2>1, <2>2, <2>3, Passed DEF StageInv
<1>20. Typed'
  <2>1. PeopleTyped'
    BY <1>1, <1>3, <1>12 DEF PeopleTyped
  <2>2. LoopTyped'
    BY <1>1, <1>2, <1>3, <1>19, Sizes DEF LoopTyped
  <2>3. BytesTyped' /\ TablesTyped'
    BY <1>1, <1>3, <1>4, <1>6 DEF BytesTyped, TablesTyped
  <2> QED BY <2>1, <2>2, <2>3 DEF Typed
<1>21. Bytes'
  <2>1. ASSUME NEW g \in ConFds
        PROVE  /\ owner'[g] = NoClient => blocks[g].buf = <<>>
               /\ \A i \in DOMAIN blocks[g].buf : blocks[g].buf[i].from = owner'[g]
               /\ \A d \in blocks[g].line : d = owner'[g] \/ (mid[d] = "half" /\ peer[d] # "open")
               /\ owner'[g] # NoClient /\ inbox[owner'[g]] = <<>> =>
                    /\ blocks[g].buf # <<>> /\ Last(blocks[g].buf) = "half" => mid[owner'[g]] = "half"
                    /\ blocks[g].buf = <<>> /\ owner'[g] \in blocks[g].line => mid[owner'[g]] = "half"
    <3>1. CASE owner'[g] = owner[g]
      BY <3>1 DEF StageInv, Bytes
    <3>2. CASE owner'[g] # owner[g]
      <4>1. g = h /\ owner'[g] = NoClient /\ peer[c] # "dead"
        BY <1>9, <1>12, <1>14, <3>2
      <4>2. peer[c] = "closed" /\ blocks[g].buf = <<>> /\ inbox[c] = <<>>
        BY <1>10, <4>1
      <4>3. DOMAIN blocks[g].buf = {}
        BY <4>2
      <4>4. c \in blocks[g].line => mid[c] = "half"
        BY <1>9, <1>13, <4>1, <4>2 DEF StageInv, Bytes
      <4>5. \A d \in blocks[g].line : d = c \/ (mid[d] = "half" /\ peer[d] # "open")
        BY <1>9, <4>1 DEF StageInv, Bytes
      <4> QED BY <4>1, <4>2, <4>3, <4>4, <4>5
    <3> QED BY <3>1, <3>2
  <2> QED BY <1>1, <2>1 DEF StageInv, Bytes, Last
<1>22. OwnLines'
  <2>1. ASSUME NEW i \in DOMAIN sessions', NEW d \in sessions'[i].lines
        PROVE  d = owner'[sessions'[i].hsock] \/ (mid'[d] = "half" /\ peer'[d] # "open")
    <3>1. /\ from(i) \in DOMAIN sessions /\ sessions'[i] = sessions[from(i)]
          /\ sessions[from(i)].hsock # h /\ sessions[from(i)].hsock \in ConFds
      BY <1>5, <1>6, <1>7, <1>8
    <3>2. owner'[sessions'[i].hsock] = owner[sessions[from(i)].hsock]
      BY <1>12, <3>1
    <3> QED BY <1>1, <2>1, <3>1, <3>2 DEF StageInv, OwnLines
  <2> QED BY <2>1 DEF OwnLines
<1>23. Closing'
  BY <1>1 DEF Closing
<1> QED BY <1>15, <1>16, <1>17, <1>18, <1>19, <1>20, <1>21, <1>22, <1>23 DEF StageInv
-----------------------------------------------------------------------------
(* accept.                                                                 *)

\* A connection that is accepted finds a descriptor: there is one for every
\* client, and the client in the queue has none.
LEMMA FreeDescriptor ==
    ASSUME StageInv, queue # <<>>
    PROVE  \E h \in ConFds : owner[h] = NoClient
<1>1. /\ queue \in Seq(Clients) /\ owner \in [ConFds -> Clients \cup {NoClient}]
      /\ IsFiniteSet(Clients) /\ Cardinality(Clients) \in Nat
  BY Sizes, StageAssumption DEF StageInv, Typed, PeopleTyped
<1>2. 1 \in DOMAIN queue /\ queue[1] \in Clients
  BY <1>1
<1> DEFINE T == Clients \ {queue[1]}
<1>3. IsFiniteSet(T) /\ Cardinality(T) = Cardinality(Clients) - 1
  BY <1>1, <1>2, FS_RemoveElement
<1>4. Cardinality(ConFds) = Cardinality(Clients)
  <2> DEFINE m == Cardinality(Clients)
  <2>1. m \in Nat
    BY <1>1
  <2> HIDE DEF m
  <2>2. m + 1 \in Int /\ 2 \in Int
    BY <2>1
  <2>3. Cardinality(2 .. m + 1) = IF 2 > m + 1 THEN 0 ELSE (m + 1) - 2 + 1
    BY <2>2, FS_Interval
  <2>4. Cardinality(2 .. m + 1) = m
    BY <2>1, <2>3
  <2> QED BY <2>4 DEF ConFds, m
<1>5. SUFFICES ASSUME \A h \in ConFds : owner[h] # NoClient PROVE FALSE
  OBVIOUS
<1>6. \A h \in ConFds : owner[h] \in T
  BY <1>1, <1>2, <1>5 DEF StageInv, Connections
<1>7. \A h, k \in ConFds : owner[h] = owner[k] => h = k
  BY <1>5 DEF StageInv, Connections
<1> HIDE DEF T
<1>8. owner \in Injection(ConFds, T)
  BY <1>1, <1>6, <1>7 DEF Injection, IsInjective
<1>9. Cardinality(ConFds) <= Cardinality(T)
  BY <1>3, <1>8, FS_Injection DEF ExistsInjection
<1> QED BY <1>1, <1>3, <1>4, <1>9

\* The listening socket is asked for again before its handler returns.
LEMMA ArmedAgain ==
    ASSUME StageInv
    PROVE  Armed(Called(sockios, 1, "onread"), ListenFd, "onread", "accept") = sockios
<1> DEFINE t == Called(sockios, 1, "onread")
<1>1. /\ sockios \in [Entries -> Entry] /\ 1 \in Entries
      /\ sockios[1] = [used |-> TRUE, hsock |-> ListenFd, onread |-> "accept", onwrite |-> "none"]
  BY Sizes DEF StageInv, Typed, TablesTyped, Table
<1>2. \A e \in Entries : e # 1 /\ sockios[e].used => sockios[e].hsock # ListenFd
  BY Sizes DEF StageInv, Table, Used
<1>3. /\ t \in [Entries -> Entry] /\ \A e \in Entries : e # 1 => t[e] = sockios[e]
      /\ t[1].used = sockios[1].used /\ t[1].hsock = sockios[1].hsock
      /\ t[1].onwrite = sockios[1].onwrite /\ t[1].onread = "none"
  <2>1. /\ t \in [Entries -> Entry]
        /\ \A e \in Entries : /\ t[e].used = sockios[e].used /\ t[e].hsock = sockios[e].hsock
                              /\ t[e].onwrite = sockios[e].onwrite
                              /\ t[e].onread = IF e = 1 THEN "none" ELSE sockios[e].onread
                              /\ e # 1 => t[e] = sockios[e]
    BY <1>1, CalledIs
  <2> HIDE DEF t
  <2> QED BY <1>1, <2>1
<1> HIDE DEF t
<1> DEFINE a == Armed(t, ListenFd, "onread", "accept")
<1>4. /\ a \in [Entries -> Entry]
      /\ \A e \in Entries :
            /\ a[e].used = t[e].used /\ a[e].hsock = t[e].hsock /\ a[e].onwrite = t[e].onwrite
            /\ a[e].onread = IF t[e].used /\ t[e].hsock = ListenFd /\ t[e].onread = "none"
                             THEN "accept" ELSE t[e].onread
  <2>1. a = Armed(t, ListenFd, "onread", "accept") /\ t \in [Entries -> Entry]
    BY <1>3
  <2> HIDE DEF a
  <2> QED BY <2>1, ArmedToRead
<1> HIDE DEF a
<1>5. ASSUME NEW e \in Entries
      PROVE  a[e] = sockios[e]
  <2>1. /\ a[e].used = sockios[e].used /\ a[e].hsock = sockios[e].hsock
        /\ a[e].onwrite = sockios[e].onwrite /\ a[e].onread = sockios[e].onread
    <3>1. CASE e = 1
      <4>1. sockios[1].used /\ sockios[1].hsock = ListenFd /\ sockios[1].onread = "accept"
        BY <1>1
      <4>2. a[1].onread = "accept"
        BY <1>1, <1>3, <1>4, <4>1
      <4> QED BY <1>1, <1>3, <1>4, <3>1, <4>1, <4>2
    <3>2. CASE e # 1
      BY <1>2, <1>3, <1>4, <3>2
    <3> QED BY <3>1, <3>2
  <2>2. a[e] \in Entry /\ sockios[e] \in Entry
    BY <1>1, <1>4
  <2> QED BY <2>1, <2>2 DEF Entry
<1>6. a = sockios
  BY <1>1, <1>4, <1>5
<1> QED BY <1>6 DEF a, t

\* A connection gets an entry that was free, unless the table is full.
LEMMA Registered ==
    ASSUME StageInv, NEW h \in ConFds, owner[h] = NoClient, RegisterSockhdl(sockios, h)
    PROVE  /\ sockios' \in [Entries -> Entry] /\ Used' \subseteq Entries
           /\ \A e \in Used : e \in Used' /\ sockios'[e] = sockios[e]
           /\ \A e \in Used' \ Used :
                sockios'[e] = [used |-> TRUE, hsock |-> h, onread |-> "none", onwrite |-> "none"]
           /\ \A d, e \in Used' \ Used : d = e
           /\ nr_used' \in 0 .. NSOCKIO /\ nr_used' = Cardinality(Used')
           /\ hsock_max' = Highest({sockios'[e].hsock : e \in Used'})
           /\ hsock_max' \in ConFds \cup {0, ListenFd}
<1>1. /\ sockios \in [Entries -> Entry] /\ Used \in SUBSET Entries
      /\ \A e \in Entries : e \in Used <=> sockios[e].used
      /\ nr_used \in 0 .. NSOCKIO /\ hsock_max \in ConFds \cup {0, ListenFd}
  BY DEF StageInv, Typed, TablesTyped, Used
<1>2. nr_used = Cardinality(Used) /\ hsock_max = Highest({sockios[e].hsock : e \in Used})
  BY DEF StageInv, Table
<1>3. CASE nr_used = NSOCKIO
  <2>1. sockios' = sockios /\ nr_used' = nr_used /\ hsock_max' = hsock_max
    BY <1>3 DEF RegisterSockhdl
  <2>2. Used' = Used
    BY <2>1 DEF Used
  <2>3. {sockios'[e].hsock : e \in Used'} = {sockios[e].hsock : e \in Used}
    BY <2>1, <2>2
  <2> QED BY <1>1, <1>2, <2>1, <2>2, <2>3
<1>4. CASE nr_used # NSOCKIO
  <2> DEFINE n == Lowest(Entries \ Used)
             new == [used |-> TRUE, hsock |-> h, onread |-> "none", onwrite |-> "none"]
             S == {sockios[e].hsock : e \in Used}
             T == {sockios'[e].hsock : e \in Used'}
  <2>1. /\ sockios' = [sockios EXCEPT ![n] = [FreeEntry EXCEPT !.used = TRUE, !.hsock = h]]
        /\ nr_used' = nr_used + 1
        /\ hsock_max' = IF h > hsock_max THEN h ELSE hsock_max
    BY <1>4 DEF RegisterSockhdl
  <2>2. n \in Entries /\ n \notin Used
    <3> DEFINE F == Entries \ Used
    <3>1. Cardinality(Entries) = NSOCKIO /\ Entries \in SUBSET Nat
      BY Sizes, FS_Interval
    <3>2. PICK e \in Entries : e \notin Used
      <4>1. Used # Entries
        BY <1>2, <1>4, <3>1
      <4> QED BY <1>1, <4>1
    <3>3. F # {} /\ F \in SUBSET Nat
      BY <3>1, <3>2
    <3>4. Lowest(F) \in F
      <4> HIDE DEF F
      <4> QED BY <3>3, LowestIn
    <3> QED BY <3>4
  <2>3. [FreeEntry EXCEPT !.used = TRUE, !.hsock = h] = new /\ new \in Entry
    <3>1. FreeEntry \in Entry /\ FreeEntry.onread = "none" /\ FreeEntry.onwrite = "none"
      BY DEF FreeEntry, Entry
    <3>2. new \in Entry
      BY DEF Entry
    <3> DEFINE taken == [FreeEntry EXCEPT !.used = TRUE, !.hsock = h]
    <3>3. taken \in Entry /\ taken.used = TRUE /\ taken.hsock = h
      BY <3>1 DEF Entry
    <3>4. taken.onread = "none" /\ taken.onwrite = "none"
      BY <3>1 DEF Entry
    <3> HIDE DEF taken
    <3>5. taken = new
      BY <3>2, <3>3, <3>4 DEF Entry
    <3> QED BY <3>2, <3>5 DEF taken
  <2> HIDE DEF n
  <2>4. /\ sockios' \in [Entries -> Entry] /\ sockios'[n] = new
        /\ \A e \in Entries : e # n => sockios'[e] = sockios[e]
    BY <1>1, <2>1, <2>2, <2>3
  <2>5. Used' = Used \cup {n}
    <3>1. Used' = {e \in Entries : sockios'[e].used}
      BY DEF Used
    <3>2. \A e \in Entries : sockios'[e].used <=> e \in Used \/ e = n
      BY <1>1, <2>4
    <3> QED BY <1>1, <2>2, <3>1, <3>2
  <2>6. /\ Cardinality(Used') = nr_used + 1 /\ nr_used' \in 0 .. NSOCKIO
    <3>1. Cardinality(Used \cup {n}) = Cardinality(Used) + 1
      BY <1>1, <2>2, Subsets
    <3> QED BY <1>1, <1>2, <1>4, <2>1, <2>5, <3>1, Sizes
  <2>7. /\ \A e \in Used : sockios'[e] = sockios[e]
        /\ sockios'[n].hsock = h
    BY <1>1, <2>2, <2>4
  <2>8. T = S \cup {h}
    BY <2>5, <2>7
  <2>9. S \subseteq ConFds \cup {ListenFd} /\ ListenFd \in S
    BY <1>1, Sizes DEF StageInv, Table, Used
  <2> HIDE DEF S, T
  <2>10. /\ S \in SUBSET Nat /\ S # {} /\ T \in SUBSET Nat /\ Cardinality(Clients) + 1 \in Nat
         /\ \A g \in S : g <= Cardinality(Clients) + 1
    BY <2>8, <2>9, Sizes
  <2>11. hsock_max \in S /\ \A g \in S : g <= hsock_max
    BY <1>2, <2>10, HighestIn DEF S
  <2>12. hsock_max' \in T /\ \A g \in T : g <= hsock_max'
    <3>1. h \in Nat /\ hsock_max \in Nat
      BY <2>10, <2>11, Sizes
    <3>2. CASE h > hsock_max
      <4>1. \A g \in S : g \in Nat /\ g <= h
        BY <2>10, <2>11, <3>1, <3>2
      <4> QED BY <2>1, <2>8, <3>1, <3>2, <4>1
    <3>3. CASE ~(h > hsock_max)
      BY <2>1, <2>8, <2>11, <3>1, <3>3
    <3> QED BY <3>2, <3>3
  <2>13. hsock_max' = Highest(T)
    BY <2>10, <2>12, HighestIs
  <2>14. hsock_max' \in ConFds \cup {0, ListenFd}
    BY <1>1, <2>1
  <2> QED BY <1>1, <2>1, <2>2, <2>4, <2>5, <2>6, <2>7, <2>13, <2>14 DEF T
<1> QED BY <1>3, <1>4

LEMMA AcceptConnectionInv ==
    ASSUME StageInv, AcceptConnection
    PROVE  StageInv'
<1> DEFINE Free == {k \in ConFds : owner[k] = NoClient}
           h == Lowest(Free)
           c == Head(queue)
           n == Len(sessions)
<1>1. /\ at = "loop" /\ pos \in Entries /\ Reads(pos) /\ sockios[pos].onread = "accept"
      /\ owner' = [owner EXCEPT ![h] = c] /\ queue' = Tail(queue)
      /\ RegisterSockhdl(Armed(Called(sockios, pos, "onread"), ListenFd, "onread", "accept"), h)
      /\ sessions' = <<NewSession(h)>> \o sessions
      /\ AfterReading
      /\ UNCHANGED <<peer, inbox, mid, asked, got, cur, blocks, served>>
  BY DEF AcceptConnection, AcceptAs, InLoop
<1>2. PeopleTyped /\ BytesTyped /\ LoopTyped /\ TablesTyped
  BY DEF StageInv, Typed
<1>3. pos \in Used /\ ~Writes(pos) /\ pos = 1
  <2>1. pos \in Used /\ ~Writes(pos)
    BY <1>1, AtEvent
  <2> QED BY <1>1, <2>1 DEF StageInv, Table
<1>4. /\ queue # <<>> /\ \A g \in rdset \cup wrset : \E e \in Used : sockios[e].hsock = g
  <2>1. sockios[1].hsock \in rdset /\ sockios[1].hsock = ListenFd
    BY <1>1, <1>3 DEF Reads, StageInv, Table
  <2> QED BY <1>1, <1>3, <2>1 DEF StageInv, Events
<1>5. h \in ConFds /\ owner[h] = NoClient
  <2>1. Free # {} /\ Free \in SUBSET Nat
    BY <1>4, FreeDescriptor, Sizes
  <2>2. h \in Free
    BY <2>1, LowestIn
  <2> QED BY <2>2
<1>6. nev' = nev - 1 /\ pos' = pos + 1 /\ at' = "loop" /\ UNCHANGED <<rdset, wrset>>
  BY <1>1, <1>3 DEF AfterReading, EndIteration
<1> HIDE DEF h, Free
<1>7. RegisterSockhdl(sockios, h)
  BY <1>1, <1>3, ArmedAgain
<1>8. /\ sockios' \in [Entries -> Entry] /\ Used' \subseteq Entries
      /\ \A e \in Used : e \in Used' /\ sockios'[e] = sockios[e]
      /\ \A e \in Used' \ Used :
            sockios'[e] = [used |-> TRUE, hsock |-> h, onread |-> "none", onwrite |-> "none"]
      /\ \A d, e \in Used' \ Used : d = e
      /\ nr_used' \in 0 .. NSOCKIO /\ nr_used' = Cardinality(Used')
      /\ hsock_max' = Highest({sockios'[e].hsock : e \in Used'})
      /\ hsock_max' \in ConFds \cup {0, ListenFd}
  BY <1>5, <1>7, Registered
<1>9. /\ c \in Clients /\ queue' \in Seq(Clients) /\ c = queue[1] /\ 1 \in DOMAIN queue
      /\ \A i \in DOMAIN queue' : i + 1 \in DOMAIN queue /\ queue'[i] = queue[i + 1] /\ i \in Nat /\ i + 1 # 1
      /\ \A i \in DOMAIN queue : queue[i] \in Clients
  <2>1. queue \in Seq(Clients) /\ queue # <<>>
    BY <1>2, <1>4 DEF PeopleTyped
  <2> QED BY <1>1, <2>1, HeadTailProperties
<1>10. /\ sessions \in Seq(Session) /\ n \in Nat /\ DOMAIN sessions = 1 .. n
       /\ \A j \in DOMAIN sessions : sessions[j].hsock \in ConFds /\ \A d \in sessions[j].lines : d \in Clients
  BY <1>2, Members DEF TablesTyped
<1> HIDE DEF c, n
<1>11. NewSession(h) \in Session /\ NewSession(h).hsock = h /\ NewSession(h).lines = {}
       /\ NewSession(h).stage = "CREATE_CON" /\ NewSession(h).content = "none"
  BY <1>5 DEF NewSession, Session, Stages
<1>12. /\ sessions' \in Seq(Session) /\ DOMAIN sessions' = 1 .. n + 1
       /\ sessions'[1] = NewSession(h)
       /\ \A i \in 1 .. n + 1 : i # 1 => i - 1 \in 1 .. n /\ sessions'[i] = sessions[i - 1]
       /\ \A j \in 1 .. n : j + 1 \in 1 .. n + 1 /\ sessions'[j + 1] = sessions[j] /\ j + 1 # 1
  <2> DEFINE first == <<NewSession(h)>>
  <2>1. first \in Seq(Session) /\ Len(first) = 1 /\ first[1] = NewSession(h)
    BY <1>11
  <2> HIDE DEF first
  <2>2. /\ sessions' \in Seq(Session) /\ Len(sessions') = 1 + n
        /\ \A i \in 1 .. 1 + n : sessions'[i] = IF i <= 1 THEN first[i] ELSE sessions[i - 1]
    BY <1>1, <1>10, <2>1, ConcatProperties DEF first, n
  <2> QED BY <1>10, <2>1, <2>2
<1>13. /\ owner' \in [ConFds -> Clients \cup {NoClient}] /\ owner'[h] = c /\ c # NoClient
       /\ \A g \in ConFds : g # h => owner'[g] = owner[g]
       /\ \A g \in ConFds : owner[g] \in Clients \cup {NoClient}
  BY <1>1, <1>2, <1>5, <1>9, StageAssumption DEF PeopleTyped
<1>14. /\ \A e \in Used : sockios[e].hsock # h /\ e \in Entries
       /\ \A j \in DOMAIN sessions : sessions[j].hsock # h
       /\ h \notin rdset \cup wrset
       /\ \A i \in 1 .. n + 1 : \/ i = 1 /\ sessions'[i] = NewSession(h) /\ sessions'[i].hsock = h
                               \/ /\ i # 1 /\ i - 1 \in DOMAIN sessions /\ sessions'[i] = sessions[i - 1]
                                  /\ sessions[i - 1].hsock # h /\ sessions[i - 1].hsock \in ConFds
  <2>1. \A e \in Used : sockios[e].hsock # h /\ e \in Entries
    <3>1. sockios[1].hsock = ListenFd /\ ListenFd # h
      BY <1>5, Sizes DEF StageInv, Table
    <3> QED BY <1>5, <3>1 DEF StageInv, Table, Used
  <2>2. \A j \in DOMAIN sessions : sessions[j].hsock # h
    BY <1>5 DEF StageInv, OneSession
  <2>3. ASSUME NEW i \in 1 .. n + 1, i # 1
        PROVE  /\ i - 1 \in DOMAIN sessions /\ sessions'[i] = sessions[i - 1]
               /\ sessions[i - 1].hsock # h /\ sessions[i - 1].hsock \in ConFds
    <3>1. i - 1 \in DOMAIN sessions /\ sessions'[i] = sessions[i - 1]
      BY <1>10, <1>12, <2>3
    <3> QED BY <1>10, <2>2, <3>1
  <2> QED BY <1>4, <1>11, <1>12, <2>1, <2>2, <2>3
<1>15. Connections'
  <2>1. \A g \in ConFds : owner[g] # c
    BY <1>9 DEF StageInv, Connections
  <2>2. \A i, j \in DOMAIN queue' : queue'[i] = queue'[j] => i = j
    <3>1. \A i, j \in DOMAIN queue : queue[i] = queue[j] => i = j
      BY DEF StageInv, Connections
    <3>2. ASSUME NEW i \in DOMAIN queue', NEW j \in DOMAIN queue', queue'[i] = queue'[j]
          PROVE  i = j
      <4>1. i + 1 = j + 1 /\ i \in Nat /\ j \in Nat
        BY <1>9, <3>1, <3>2
      <4> QED BY <4>1
    <3> QED BY <3>2
  <2>3. \A i \in DOMAIN queue' : queue'[i] # c /\ peer[queue'[i]] # "away" /\ \A g \in ConFds : owner[g] # queue'[i]
    BY <1>9 DEF StageInv, Connections
  <2>4. peer[c] # "away"
    BY <1>9 DEF StageInv, Connections
  <2>5. \A g, k \in ConFds : owner'[g] = owner'[k] /\ owner'[g] # NoClient => g = k
    BY <1>13, <2>1 DEF StageInv, Connections
  <2>6. \A g \in ConFds : owner'[g] # NoClient => peer[owner'[g]] # "away"
    BY <1>13, <2>4 DEF StageInv, Connections
  <2>7. \A i \in DOMAIN queue' : \A g \in ConFds : owner'[g] # queue'[i]
    BY <1>13, <2>3
  <2> QED BY <1>1, <2>2, <2>3, <2>5, <2>6, <2>7 DEF Connections
<1>16. \A e \in Used' : \/ e \in Used /\ sockios'[e] = sockios[e] /\ sockios[e].hsock # h
                        \/ /\ e \notin Used /\ sockios'[e].hsock = h
                           /\ sockios'[e].onread = "none" /\ sockios'[e].onwrite = "none"
  BY <1>8, <1>14
<1>17. Table'
  <2>1. sockios'[1] = [used |-> TRUE, hsock |-> ListenFd, onread |-> "accept", onwrite |-> "none"]
    BY <1>3, <1>8 DEF StageInv, Table
  <2>2. \A e \in Used' \ {1} :
            /\ sockios'[e].hsock \in ConFds /\ owner'[sockios'[e].hsock] # NoClient
            /\ sockios'[e].onread \in {"none", "read"}
    <3>1. \A e \in Used \ {1} :
            /\ sockios[e].hsock \in ConFds /\ owner[sockios[e].hsock] # NoClient
            /\ sockios[e].onread \in {"none", "read"}
      BY DEF StageInv, Table
    <3> QED BY <1>5, <1>13, <1>16, <3>1
  <2>3. \A d, e \in Used' : sockios'[d].hsock = sockios'[e].hsock => d = e
    <3>1. \A d, e \in Used : sockios[d].hsock = sockios[e].hsock => d = e
      BY DEF StageInv, Table
    <3> QED BY <1>8, <1>16, <3>1
  <2> QED BY <1>8, <2>1, <2>2, <2>3 DEF Table
<1>18. OneSession'
  <2>1. ASSUME NEW i \in 1 .. n + 1, NEW j \in 1 .. n + 1, sessions'[i].hsock = sessions'[j].hsock
        PROVE  i = j
    <3>1. CASE i = 1
      BY <1>14, <2>1, <3>1
    <3>2. CASE j = 1
      BY <1>14, <2>1, <3>2
    <3>3. CASE i # 1 /\ j # 1
      <4>1. i - 1 = j - 1
        BY <1>14, <2>1, <3>3 DEF StageInv, OneSession
      <4> QED BY <1>10, <4>1
    <3> QED BY <3>1, <3>2, <3>3
  <2>2. \A i \in 1 .. n + 1 : owner'[sessions'[i].hsock] # NoClient
    <3>1. \A j \in 1 .. n : owner[sessions[j].hsock] # NoClient
      BY <1>10 DEF StageInv, OneSession
    <3> QED BY <1>5, <1>10, <1>13, <1>14, <3>1
  <2>3. /\ \E i \in 1 .. n + 1 : sessions'[i].hsock = h
        /\ \A j \in 1 .. n : \E i \in 1 .. n + 1 : sessions'[i].hsock = sessions[j].hsock
    <3>1. 1 \in 1 .. n + 1 /\ sessions'[1].hsock = h
      BY <1>10, <1>11, <1>12
    <3> QED BY <1>12, <3>1
  <2>4. \A e \in Used' \ {1} : \E i \in 1 .. n + 1 : sessions'[i].hsock = sockios'[e].hsock
    <3>1. \A e \in Used \ {1} : \E j \in 1 .. n : sessions[j].hsock = sockios[e].hsock
      BY <1>10 DEF StageInv, OneSession
    <3> QED BY <1>16, <2>3, <3>1
  <2>5. \A g \in ConFds : owner'[g] # NoClient /\ peer[owner'[g]] # "dead" =>
            \E i \in 1 .. n + 1 : sessions'[i].hsock = g
    <3>1. \A g \in ConFds : owner[g] # NoClient /\ peer[owner[g]] # "dead" =>
            \E j \in 1 .. n : sessions[j].hsock = g
      BY <1>10 DEF StageInv, OneSession
    <3> QED BY <1>13, <2>3, <3>1
  <2> QED BY <1>1, <1>12, <2>1, <2>2, <2>4, <2>5 DEF OneSession
<1>19. Asked'
  <2>1. ASSUME NEW i \in 1 .. n + 1, NEW e \in Used', sockios'[e].hsock = sessions'[i].hsock
        PROVE  /\ sockios'[e].onread = "read" => sessions'[i].stage = "READ_RQST_METADATA"
               /\ sockios'[e].onwrite = "send" => /\ sessions'[i].stage = "SEND_RESP"
                                                  /\ sessions'[i].header \/ sessions'[i].content # "none"
    <3>1. CASE e \notin Used
      BY <1>16, <3>1
    <3>2. CASE e \in Used
      <4>1. sockios'[e] = sockios[e] /\ sockios[e].hsock # h
        BY <1>16, <3>2
      <4>2. i # 1
        BY <1>11, <1>12, <2>1, <4>1
      <4>3. i - 1 \in DOMAIN sessions /\ sessions'[i] = sessions[i - 1]
        BY <1>10, <1>12, <4>2
      <4> QED BY <2>1, <3>2, <4>1, <4>3 DEF StageInv, Asked
    <3> QED BY <3>1, <3>2
  <2>2. ASSUME NEW i \in 1 .. n + 1
        PROVE  /\ sessions'[i].stage = "ALTER_RESP_DATA" => sessions'[i].chunked
               /\ sessions'[i].content = "data" => sessions'[i].stage = "ALTER_RESP_DATA"
    <3>1. CASE i = 1
      BY <1>11, <1>12, <3>1
    <3>2. CASE i # 1
      BY <1>14, <3>2 DEF StageInv, Asked
    <3> QED BY <3>1, <3>2
  <2> QED BY <1>12, <2>1, <2>2 DEF Asked
<1>20. Events' /\ nev' \in Nat
  <2>1. ASSUME NEW e \in Entries, e > pos
        PROVE  /\ Reads(e)' <=> Reads(e)
               /\ Writes(e)' <=> Writes(e)
               /\ Reads(e) => sockios'[e].onread = sockios[e].onread
               /\ Writes(e) => sockios'[e].onwrite = sockios[e].onwrite
    <3>1. CASE e \in Used
      BY <1>6, <1>8, <3>1 DEF Reads, Writes
    <3>2. CASE e \notin Used
      <4>1. ~sockios[e].used
        BY <3>2 DEF Used
      <4>2. sockios'[e].used => sockios'[e].hsock = h
        <5>1. sockios'[e].used => e \in Used'
          BY DEF Used
        <5> QED BY <1>16, <3>2, <5>1
      <4> QED BY <1>6, <1>14, <4>1, <4>2 DEF Reads, Writes
    <3> QED BY <3>1, <3>2
  <2> QED BY <1>1, <1>3, <1>6, <2>1, Passed DEF StageInv
<1>21. Typed'
  <2>1. PeopleTyped'
    BY <1>1, <1>2, <1>9, <1>13 DEF PeopleTyped
  <2>2. LoopTyped'
    BY <1>1, <1>2, <1>3, <1>6, <1>20, Sizes DEF LoopTyped
  <2>3. BytesTyped' /\ TablesTyped'
    BY <1>1, <1>2, <1>8, <1>12 DEF BytesTyped, TablesTyped
  <2> QED BY <2>1, <2>2, <2>3 DEF Typed
<1>22. Bytes'
  <2>1. ASSUME NEW g \in ConFds
        PROVE  /\ owner'[g] = NoClient => blocks[g].buf = <<>>
               /\ \A i \in DOMAIN blocks[g].buf : blocks[g].buf[i].from = owner'[g]
               /\ \A d \in blocks[g].line : d = owner'[g] \/ (mid[d] = "half" /\ peer[d] # "open")
               /\ owner'[g] # NoClient /\ inbox[owner'[g]] = <<>> =>
                    /\ blocks[g].buf # <<>> /\ Last(blocks[g].buf) = "half" => mid[owner'[g]] = "half"
                    /\ blocks[g].buf = <<>> /\ owner'[g] \in blocks[g].line => mid[owner'[g]] = "half"
    <3>1. CASE g # h
      BY <1>13, <3>1 DEF StageInv, Bytes
    <3>2. CASE g = h
      <4>1. blocks[g].buf = <<>> /\ DOMAIN blocks[g].buf = {}
        BY <1>5, <3>2 DEF StageInv, Bytes
      <4>2. \A d \in blocks[g].line : d \in Clients /\ d # NoClient
        BY <1>2, StageAssumption DEF BytesTyped
      <4>3. \A d \in blocks[g].line : mid[d] = "half" /\ peer[d] # "open"
        BY <1>5, <3>2, <4>2 DEF StageInv, Bytes
      <4> QED BY <1>13, <3>2, <4>1, <4>3
    <3> QED BY <3>1, <3>2
  <2> QED BY <1>1, <2>1 DEF StageInv, Bytes, Last
<1>23. OwnLines'
  <2>1. ASSUME NEW i \in 1 .. n + 1, NEW d \in sessions'[i].lines
        PROVE  d = owner'[sessions'[i].hsock] \/ (mid[d] = "half" /\ peer[d] # "open")
    <3>1. i # 1
      BY <1>11, <1>12, <2>1
    <3>2. i - 1 \in DOMAIN sessions /\ sessions'[i] = sessions[i - 1]
      BY <1>10, <1>12, <3>1
    <3>3. owner'[sessions[i - 1].hsock] = owner[sessions[i - 1].hsock]
      BY <1>10, <1>13, <1>14, <3>2
    <3> QED BY <2>1, <3>2, <3>3 DEF StageInv, OwnLines
  <2> QED BY <1>1, <1>12, <2>1 DEF OwnLines
<1>24. Closing'
  BY <1>6 DEF Closing
<1> QED BY <1>15, <1>17, <1>18, <1>19, <1>20, <1>21, <1>22, <1>23, <1>24 DEF StageInv
-----------------------------------------------------------------------------
(* The invariant holds.                                                    *)

LEMMA InitStage ==
    ASSUME Init
    PROVE  StageInv
<1>1. /\ owner = [h \in ConFds |-> NoClient] /\ queue = <<>>
      /\ peer = [c \in Clients |-> "away"]
      /\ inbox = [c \in Clients |-> <<>>] /\ mid = [c \in Clients |-> "none"]
      /\ asked = [c \in Clients |-> 0] /\ got = [c \in Clients |-> <<>>]
      /\ nr_used = 1 /\ hsock_max = ListenFd
      /\ at = "select" /\ pos = 1 /\ nev = 0 /\ rdset = {} /\ wrset = {}
      /\ sessions = <<>> /\ cur = 1
      /\ blocks = [h \in ConFds |-> [buf |-> <<>>, line |-> {}]]
      /\ served = [c \in Clients |-> <<>>]
  BY DEF Init
<1>2. sockios = [e \in Entries |-> IF e = 1 THEN [used |-> TRUE, hsock |-> ListenFd,
                                                  onread |-> "accept", onwrite |-> "none"]
                                   ELSE FreeEntry]
  BY DEF Init
<1>3. /\ sockios \in [Entries -> Entry]
      /\ sockios[1] = [used |-> TRUE, hsock |-> ListenFd, onread |-> "accept", onwrite |-> "none"]
      /\ \A e \in Entries : e # 1 => ~sockios[e].used
  <2>1. FreeEntry \in Entry /\ ~FreeEntry.used
    BY DEF FreeEntry, Entry
  <2>2. [used |-> TRUE, hsock |-> ListenFd, onread |-> "accept", onwrite |-> "none"] \in Entry
    BY DEF Entry
  <2> QED BY <1>2, <2>1, <2>2, Sizes
<1>4. Used = {1}
  BY <1>3, Sizes DEF Used
<1>5. DOMAIN sessions = {} /\ DOMAIN queue = {}
  BY <1>1
<1>6. Typed
  <2>1. PeopleTyped
    <3>1. \A c \in Clients : 0 <= MaxRequests[c]
      BY StageAssumption
    <3> QED BY <1>1, <3>1 DEF PeopleTyped
  <2>2. BytesTyped
    BY <1>1 DEF BytesTyped
  <2>3. LoopTyped
    BY <1>1 DEF LoopTyped
  <2>4. TablesTyped
    BY <1>1, <1>3, Sizes DEF TablesTyped
  <2> QED BY <2>1, <2>2, <2>3, <2>4 DEF Typed
<1>7. Connections
  BY <1>1, <1>5 DEF Connections
<1>8. Table
  <2>1. Cardinality(Used) = 1
    BY <1>4, FS_Singleton
  <2>2. {sockios[e].hsock : e \in Used} = {1}
    BY <1>3, <1>4, Sizes
  <2>3. Highest({1}) = 1
    BY HighestIs
  <2> QED BY <1>1, <1>3, <1>4, <2>1, <2>2, <2>3, Sizes DEF Table
<1>9. OneSession /\ Asked /\ OwnLines
  BY <1>1, <1>4, <1>5 DEF OneSession, Asked, OwnLines
<1>10. Events /\ Closing
  BY <1>1 DEF Events, Closing
<1>11. Bytes
  <2>1. \A h \in ConFds : /\ owner[h] = NoClient /\ blocks[h].buf = <<>> /\ blocks[h].line = {}
                          /\ DOMAIN blocks[h].buf = {}
    BY <1>1
  <2>2. \A c \in Clients : inbox[c] = <<>> /\ DOMAIN inbox[c] = {} /\ mid[c] = "none"
    BY <1>1
  <2> QED BY <2>1, <2>2 DEF Bytes
<1> QED BY <1>6, <1>7, <1>8, <1>9, <1>10, <1>11 DEF StageInv

LEMMA StageStep ==
    ASSUME StageInv, [Next]_vars
    PROVE  StageInv'
<1>1. CASE ServerStep
  BY <1>1, SelectInv, LoopEndsInv, SkipEntryInv, AcceptConnectionInv, StartReadingInv,
     TakeTokenInv, ReceiveMoreInv, ReceiveNothingInv, SendResponseInv, SendFailsInv, TerminateInv,
     ProcessEndsInv, AskMetadataInv, AskSendInv, PassStageInv, OpenResourceInv, FetchMoreInv,
     AlterDataInv, AlterMetadataInv DEF ServerStep
<1>2. ASSUME NEW c \in Clients, Connect(c) \/ BeginRequest(c) \/ GoOnWithRequest(c) \/ Leave(c)
      PROVE  StageInv'
  BY <1>2, ConnectInv, BeginRequestInv, GoOnWithRequestInv, LeaveInv
<1>3. CASE UNCHANGED vars
  <2>1. /\ UNCHANGED <<owner, queue, peer, inbox, mid, asked, got, sockios, nr_used, hsock_max>>
        /\ UNCHANGED <<at, pos, nev, rdset, wrset, sessions, cur, blocks, served>>
    BY <1>3 DEF vars, world, table, loop
  <2>2. Typed'
    BY <2>1 DEF StageInv, Typed, PeopleTyped, BytesTyped, LoopTyped, TablesTyped
  <2>3. Connections' /\ Table' /\ OneSession' /\ Asked' /\ Bytes' /\ Closing' /\ OwnLines'
    BY <2>1 DEF StageInv, Connections, Table, OneSession, Asked, Bytes, Closing, OwnLines, Used, Last
  <2>4. Events'
    BY <2>1 DEF StageInv, Events, ToRead, ToWrite, Reads, Writes, Used
  <2> QED BY <2>2, <2>3, <2>4 DEF StageInv
<1> QED BY <1>1, <1>2, <1>3 DEF Next

\* The invariant holds of every behaviour of the server, whatever its clients do.
THEOREM StageInvariant == Spec => []StageInv
<1>1. Init => StageInv
  BY InitStage
<1>2. StageInv /\ [Next]_vars => StageInv'
  BY StageStep
<1> QED BY <1>1, <1>2, PTL DEF Spec

-----------------------------------------------------------------------------
(* What follows from it.                                                   *)

\* Every variable has its type: no descriptor, table entry, stage or handler out
\* of its range is ever reached.
THEOREM StageTypeCorrect == Spec => []StageTypeOK
<1>1. StageInv => StageTypeOK
  BY DEF StageInv, Typed, PeopleTyped, BytesTyped, LoopTyped, TablesTyped, StageTypeOK, Entry, Session
<1> QED BY <1>1, StageInvariant, PTL

\* The count of used entries and the highest descriptor are exact whatever is
\* registered and released, and no watched descriptor is closed (ioselect.cc).
THEOREM TableStaysConsistent == Spec => []TableConsistent
<1>1. StageInv => TableConsistent
  <2> SUFFICES ASSUME StageInv PROVE TableConsistent
    OBVIOUS
  <2>1. sockios[1].hsock = ListenFd
    BY DEF StageInv, Table
  <2> QED BY <2>1 DEF StageInv, Table, TableConsistent
<1> QED BY <1>1, StageInvariant, PTL

\* What handle_events has left to count is always still to be found: the loop
\* ends inside the table and forgets no event.
THEOREM LoopStaysInTable == Spec => []LoopInsideTable
<1>1. StageInv => LoopInsideTable
  BY DEF StageInv, Events, ToRead, ToWrite, LoopInsideTable
<1> QED BY <1>1, StageInvariant, PTL

\* No handler that handle_events comes to is a null pointer or lacks its session.
THEOREM HandlersStayCallable == Spec => []HandlerIsCallable
<1>1. ASSUME StageInv, at = "loop", NEW e \in Entries, e >= pos
      PROVE  /\ Reads(e)  => sockios[e].onread # "none"
             /\ Writes(e) => sockios[e].onwrite # "none"
             /\ (Reads(e) \/ Writes(e)) /\ sockios[e].hsock # ListenFd => SessionOf(sockios[e].hsock) # 0
  <2>1. e > pos \/ e = pos
    BY <1>1, Sizes DEF StageInv, Typed, LoopTyped
  <2>2. /\ Reads(e)  => sockios[e].onread # "none"
        /\ Writes(e) => sockios[e].onwrite # "none"
    BY <1>1, <2>1 DEF StageInv, Events
  <2>3. ASSUME Reads(e) \/ Writes(e), sockios[e].hsock # ListenFd
        PROVE  SessionOf(sockios[e].hsock) # 0
    <3>1. e \in Used /\ e # 1
      BY <1>1, <2>3 DEF Reads, Writes, Used, StageInv, Table
    <3>2. PICK k \in DOMAIN sessions : sessions[k].hsock = sockios[e].hsock
      BY <1>1, <3>1 DEF StageInv, OneSession
    <3>3. SessionOf(sessions[k].hsock) = k
      BY <1>1, SessionFound DEF StageInv, Typed, TablesTyped
    <3>4. k # 0
      BY <1>1, Members DEF StageInv, Typed
    <3> QED BY <3>2, <3>3, <3>4
  <2> QED BY <2>2, <2>3
<1>2. StageInv => HandlerIsCallable
  BY <1>1 DEF HandlerIsCallable
<1> QED BY <1>2, StageInvariant, PTL

\* A watched connection has exactly one session, and a descriptor that is open
\* has one unless its peer has reset the connection.
THEOREM SessionsStayWithTable == Spec => []SessionsMatchTable
<1>1. ASSUME StageInv, NEW e \in Used, sockios[e].hsock # ListenFd
      PROVE  Cardinality({k \in DOMAIN sessions : sessions[k].hsock = sockios[e].hsock}) = 1
  <2>1. e # 1
    BY <1>1 DEF StageInv, Table
  <2>2. PICK j \in DOMAIN sessions : sessions[j].hsock = sockios[e].hsock
    BY <1>1, <2>1 DEF StageInv, OneSession
  <2>3. {k \in DOMAIN sessions : sessions[k].hsock = sockios[e].hsock} = {j}
    BY <1>1, <2>2 DEF StageInv, OneSession
  <2> QED BY <2>3, FS_Singleton
<1>2. ASSUME StageInv, NEW h \in ConFds, owner[h] # NoClient, peer[owner[h]] # "dead"
      PROVE  SessionOf(h) # 0
  <2>1. PICK k \in DOMAIN sessions : sessions[k].hsock = h
    BY <1>2 DEF StageInv, OneSession
  <2>2. SessionOf(sessions[k].hsock) = k
    BY <1>2, SessionFound DEF StageInv, Typed, TablesTyped
  <2>3. k # 0
    BY <1>2, Members DEF StageInv, Typed
  <2> QED BY <2>1, <2>2, <2>3
<1>3. StageInv => SessionsMatchTable
  BY <1>1, <1>2 DEF SessionsMatchTable
<1> QED BY <1>3, StageInvariant, PTL

\* A request is made of its own client's lines, but for the beginning of a line
\* that a former client of the descriptor left in its block (get_nextline).
THEOREM LinesStayOwn == Spec => []OwnLines
<1>1. StageInv => OwnLines
  BY DEF StageInv
<1> QED BY <1>1, StageInvariant, PTL

-----------------------------------------------------------------------------
(* The answers.  What a client was sent is told from the flags of its        *)
(* session: AnswerInv, which is inductive relative to StageInv.             *)

Parts == {"header", "chunk", "end"}

\* What was sent: the whole answers, and how much of the one after.
Ends(g)  == EndsAmong(g, Len(g))
Whole(g) == Cardinality(Ends(g))
Part(g)  == Len(g) - Highest(Ends(g))

\* The parts g are those of the answers sv.
Fits(g, sv) == \A k \in DOMAIN g : PartFits(g, sv, k)

\* The requests that were sent whole and not looked at.
Blanks(s) == {i \in DOMAIN s : s[i].what = "blank"}
Requests(s) == Cardinality(Blanks(s))

\* A session whose request was read and whose resource was not opened.
Ready(s) == \/ s.stage \in {"PARSE_RQST_METADATA", "READ_RQST_DATA", "ALTER_RQST_DATA", "BUILD_RESP_METADATA"}
            \/ s.stage = "BUILD_RESP_DATA" /\ ~s.chunked
Fresh(s) == s.stage \in {"CREATE_CON", "READ_RQST_METADATA"} \/ Ready(s)
Begun(s) == IF Ready(s) THEN 1 ELSE 0

\* No more is answered than was asked.
Due ==
    /\ \A c \in Clients : Len(served[c]) + Requests(inbox[c]) <= asked[c]
    /\ \A k \in DOMAIN sessions :
        LET s == sessions[k]
            c == owner[s.hsock]
        IN  Len(served[c]) + Requests(inbox[c]) + Requests(blocks[s.hsock].buf) + Begun(s) <= asked[c]

\* Whoever has no session yet was sent nothing.
NothingYet ==
    \A c \in Clients : peer[c] = "away" \/ (\E i \in DOMAIN queue : queue[i] = c) =>
        got[c] = <<>> /\ served[c] = <<>>

\* The parts of an answer up to its chunk f.
Upto(f) == IF f = 0 THEN 0 ELSE f + 1

\* Between answers nothing is set.
Between(s, part) ==
    /\ part = 0 /\ (Fresh(s) \/ s.stage = "SEND_RESP")
    /\ Fresh(s) => ~s.chunked /\ ~s.first /\ ~s.last
    /\ s.stage = "SEND_RESP" => ~s.chunked /\ ~s.header /\ s.content = "none"

\* Within the answer of n chunks the flags and what is left of the resource say
\* what was sent and what is sent next: the end, a chunk that was fetched, or
\* one that was not.
EndNext(s, n, part) ==
    /\ s.last /\ part = Upto(n)
    /\ s.stage = "ALTER_RESP_DATA" => s.chunked
    /\ s.stage \in {"ALTER_RESP_METADATA", "SEND_RESP"} => ~s.chunked /\ s.content = "end"
    /\ s.stage = "SEND_RESP" => ~s.header
    /\ s.stage # "BUILD_RESP_DATA"

ChunkNext(s, n, part) ==
    /\ ~s.last /\ s.chunked /\ s.left < n /\ s.stage # "BUILD_RESP_DATA"
    /\ part = Upto(n - s.left - 1)
    /\ s.stage \in {"ALTER_RESP_DATA", "ALTER_RESP_METADATA"} => (s.first <=> s.left = n - 1)
    /\ s.stage = "ALTER_RESP_DATA" => s.content = "data"
    /\ s.stage \in {"ALTER_RESP_METADATA", "SEND_RESP"} => s.content = "chunk"
    /\ s.stage = "SEND_RESP" => (s.header <=> s.left = n - 1) /\ ~s.first

FetchNext(s, n, part) ==
    /\ ~s.last /\ s.chunked /\ ~s.first /\ s.left < n /\ part = Upto(n - s.left)
    /\ s.stage \in {"SEND_RESP", "BUILD_RESP_DATA"}
    /\ s.stage = "SEND_RESP" => ~s.header /\ s.content = "none"

\* What a session is at when w of m answers were sent whole, and part of the
\* next, which has n chunks.
AnswersAs(s, w, m, n, part) ==
    \/ w = m /\ Between(s, part)
    \/ /\ ~Fresh(s) /\ m > 0 /\ w = m - 1
       /\ EndNext(s, n, part) \/ ChunkNext(s, n, part) \/ FetchNext(s, n, part)

Follows(s, g, sv) == AnswersAs(s, Whole(g), Len(sv), sv[Len(sv)], Part(g))

AnswerInv ==
    /\ \A c \in Clients : Fits(got[c], served[c])
    /\ Due /\ NothingYet
    /\ \A k \in DOMAIN sessions :
        LET c == owner[sessions[k].hsock] IN Follows(sessions[k], got[c], served[c])

-----------------------------------------------------------------------------
(* Sequences of parts and of tokens.                                       *)

LEMMA EndsBounded ==
    ASSUME NEW g \in Seq(Parts), NEW k \in 0 .. Len(g)
    PROVE  /\ EndsAmong(g, k) \subseteq 1 .. k /\ IsFiniteSet(EndsAmong(g, k))
           /\ Cardinality(EndsAmong(g, k)) \in Nat
           /\ Highest(EndsAmong(g, k)) \in 0 .. k
<1>1. Len(g) \in Nat /\ k \in Nat
  OBVIOUS
<1>2. EndsAmong(g, k) \subseteq 1 .. k
  BY DEF EndsAmong
<1>3. IsFiniteSet(EndsAmong(g, k)) /\ Cardinality(EndsAmong(g, k)) \in Nat
  <2>1. IsFiniteSet(1 .. k)
    BY <1>1, FS_Interval
  <2> QED BY <1>2, <2>1, FS_Subset, FS_CardinalityType
<1>4. Highest(EndsAmong(g, k)) \in 0 .. k
  <2>1. CASE EndsAmong(g, k) = {}
    BY <1>1, <2>1 DEF Highest
  <2>2. CASE EndsAmong(g, k) # {}
    <3>1. EndsAmong(g, k) \in SUBSET Nat /\ \A j \in EndsAmong(g, k) : j <= k
      BY <1>1, <1>2
    <3>2. Highest(EndsAmong(g, k)) \in EndsAmong(g, k)
      BY <1>1, <2>2, <3>1, HighestIn
    <3> QED BY <1>1, <1>2, <3>2
  <2> QED BY <2>1, <2>2
<1> QED BY <1>2, <1>3, <1>4

LEMMA NothingSent == Whole(<<>>) = 0 /\ Part(<<>>) = 0
<1>1. Ends(<<>>) = {}
  BY DEF Ends, EndsAmong
<1> QED BY <1>1, FS_EmptySet DEF Whole, Part, Highest

\* What an answer is made of.
LEMMA AnswerIs ==
    ASSUME NEW n \in Nat
    PROVE  /\ Len(Answer(n)) = Upto(n) + 1 /\ Answer(n)[Upto(n) + 1] = "end"
           /\ n > 0 => Answer(n)[1] = "header"
           /\ \A f \in 1 .. n : Answer(n)[f + 1] = "chunk"
<1> DEFINE head == IF n = 0 THEN <<>> ELSE <<"header">>
           body == [k \in 1 .. n |-> "chunk"]
           l == IF n = 0 THEN 0 ELSE 1
<1>1. /\ head \in Seq(Parts) /\ Len(head) = l /\ l \in 0 .. 1
      /\ n > 0 => head[1] = "header"
  <2>1. CASE n = 0
    BY <2>1
  <2>2. CASE n # 0
    <3>1. head = <<"header">> /\ l = 1
      BY <2>2
    <3>2. "header" \in Parts
      BY DEF Parts
    <3> HIDE DEF head, l
    <3>3. head \in Seq(Parts) /\ Len(head) = 1 /\ head[1] = "header"
      BY <3>1, <3>2
    <3> QED BY <3>1, <3>3
  <2> QED BY <2>1, <2>2
<1>2. body \in Seq(Parts) /\ Len(body) = n /\ \A f \in 1 .. n : body[f] = "chunk"
  BY DEF Parts
<1>3. <<"end">> \in Seq(Parts) /\ Len(<<"end">>) = 1 /\ <<"end">>[1] = "end"
  BY DEF Parts
<1>0. Upto(n) = l + n /\ (n > 0 => l = 1) /\ (n = 0 => l = 0)
  BY DEF Upto
<1> HIDE DEF head, body, l
<1>4. /\ head \o body \in Seq(Parts) /\ Len(head \o body) = l + n
      /\ \A i \in 1 .. l + n : (head \o body)[i] = IF i <= l THEN head[i] ELSE body[i - l]
  <2>1. /\ head \o body \in Seq(Parts) /\ Len(head \o body) = Len(head) + Len(body)
        /\ \A i \in 1 .. Len(head) + Len(body) :
              (head \o body)[i] = IF i <= Len(head) THEN head[i] ELSE body[i - Len(head)]
    BY <1>1, <1>2, ConcatProperties
  <2> QED BY <1>1, <1>2, <2>1
<1>5. /\ Len((head \o body) \o <<"end">>) = l + n + 1
      /\ \A i \in 1 .. l + n + 1 : ((head \o body) \o <<"end">>)[i] =
                                      IF i <= l + n THEN (head \o body)[i] ELSE <<"end">>[i - (l + n)]
  BY <1>3, <1>4, ConcatProperties
<1>6. Answer(n) = (head \o body) \o <<"end">>
  BY DEF Answer, head, body
<1> QED BY <1>0, <1>1, <1>2, <1>3, <1>4, <1>5, <1>6

LEMMA EndsAppended ==
    ASSUME NEW g \in Seq(Parts), NEW x \in Parts
    PROVE  /\ \A k \in 0 .. Len(g) : EndsAmong(Append(g, x), k) = EndsAmong(g, k)
           /\ Ends(Append(g, x)) = IF x = "end" THEN Ends(g) \cup {Len(g) + 1} ELSE Ends(g)
<1>1. /\ Append(g, x) \in Seq(Parts) /\ Len(Append(g, x)) = Len(g) + 1 /\ Len(g) \in Nat
      /\ \A i \in 1 .. Len(g) : Append(g, x)[i] = g[i]
      /\ Append(g, x)[Len(g) + 1] = x
  OBVIOUS
<1>2. \A k \in 0 .. Len(g) : EndsAmong(Append(g, x), k) = EndsAmong(g, k)
  BY <1>1 DEF EndsAmong
<1> HIDE DEF EndsAmong
<1>3. EndsAmong(Append(g, x), Len(g) + 1) =
        IF x = "end" THEN EndsAmong(g, Len(g)) \cup {Len(g) + 1} ELSE EndsAmong(g, Len(g))
  <2>1. 1 .. Len(g) + 1 = (1 .. Len(g)) \cup {Len(g) + 1}
    BY <1>1
  <2> QED BY <1>1, <2>1 DEF EndsAmong
<1> QED BY <1>1, <1>2, <1>3 DEF Ends

\* The part that is due is sent.
LEMMA PartSent ==
    ASSUME NEW g \in Seq(Parts), NEW sv \in Seq(Nat), Fits(g, sv), NEW x \in Parts,
           Len(sv) > 0, Whole(g) = Len(sv) - 1,
           Part(g) + 1 <= Len(Answer(sv[Len(sv)])), x = Answer(sv[Len(sv)])[Part(g) + 1]
    PROVE  /\ Append(g, x) \in Seq(Parts) /\ Fits(Append(g, x), sv)
           /\ x # "end" => Whole(Append(g, x)) = Whole(g) /\ Part(Append(g, x)) = Part(g) + 1
           /\ x = "end" => Whole(Append(g, x)) = Whole(g) + 1 /\ Part(Append(g, x)) = 0
<1> DEFINE g2 == Append(g, x)
           n == Len(g)
<1>1. /\ g2 \in Seq(Parts) /\ Len(g2) = n + 1 /\ n \in Nat /\ DOMAIN g2 = 1 .. n + 1 /\ DOMAIN g = 1 .. n
      /\ \A i \in 1 .. n : g2[i] = g[i]
      /\ g2[n + 1] = x
  OBVIOUS
<1>2. /\ \A k \in 0 .. n : EndsAmong(g2, k) = EndsAmong(g, k)
      /\ Ends(g2) = IF x = "end" THEN Ends(g) \cup {n + 1} ELSE Ends(g)
  BY EndsAppended
<1>3. Ends(g) \subseteq 1 .. n /\ IsFiniteSet(Ends(g)) /\ Whole(g) \in Nat /\ Highest(Ends(g)) \in 0 .. n
  BY <1>1, EndsBounded DEF Ends, Whole
<1> HIDE DEF g2, n
<1>4. Fits(g2, sv)
  <2>1. ASSUME NEW k \in 1 .. n
        PROVE  PartFits(g2, sv, k)
    <3>1. k - 1 \in 0 .. n
      BY <1>1
    <3>2. PartFits(g, sv, k)
      BY <1>1 DEF Fits
    <3> QED BY <1>1, <1>2, <3>1, <3>2 DEF PartFits
  <2>2. PartFits(g2, sv, n + 1)
    <3>1. EndsAmong(g2, (n + 1) - 1) = Ends(g)
      BY <1>1, <1>2 DEF Ends, n
    <3>2. Cardinality(Ends(g)) + 1 = Len(sv) /\ (n + 1) - Highest(Ends(g)) = Part(g) + 1
      BY <1>1, <1>3 DEF Whole, Part, n
    <3> QED BY <1>1, <3>1, <3>2 DEF PartFits
  <2>3. \A k \in 1 .. n + 1 : k \in 1 .. n \/ k = n + 1
    BY <1>1
  <2> QED BY <1>1, <2>1, <2>2, <2>3 DEF Fits
<1>5. CASE x # "end"
  <2>1. Ends(g2) = Ends(g)
    BY <1>2, <1>5
  <2>2. Whole(g2) = Whole(g) /\ Part(g2) = Part(g) + 1
    BY <1>1, <1>3, <2>1 DEF Whole, Part, n
  <2> QED BY <1>1, <1>4, <1>5, <2>2 DEF g2
<1>6. CASE x = "end"
  <2>1. Ends(g2) = Ends(g) \cup {n + 1}
    BY <1>2, <1>6
  <2>2. Whole(g2) = Whole(g) + 1
    <3>1. n + 1 \notin Ends(g)
      BY <1>1, <1>3
    <3> QED BY <1>3, <2>1, <3>1, FS_AddElement DEF Whole
  <2>3. Part(g2) = 0
    <3>1. Ends(g2) \in SUBSET Nat /\ n + 1 \in Ends(g2) /\ \A k \in Ends(g2) : k <= n + 1
      BY <1>1, <1>3, <2>1
    <3>2. Highest(Ends(g2)) = n + 1
      BY <3>1, HighestIs
    <3> QED BY <1>1, <3>2 DEF Part
  <2> QED BY <1>1, <1>4, <1>6, <2>2, <2>3 DEF g2
<1> QED BY <1>5, <1>6

\* One more answer is begun.
LEMMA AnswerBegun ==
    ASSUME NEW g \in Seq(Parts), NEW sv \in Seq(Nat), Fits(g, sv), NEW n \in Nat
    PROVE  Fits(g, Append(sv, n))
<1>1. /\ Len(Append(sv, n)) = Len(sv) + 1 /\ Len(sv) \in Nat
      /\ \A i \in 1 .. Len(sv) : Append(sv, n)[i] = sv[i]
  OBVIOUS
<1>2. ASSUME NEW k \in DOMAIN g
      PROVE  PartFits(g, Append(sv, n), k)
  <2> DEFINE before == EndsAmong(g, k - 1)
  <2>1. Cardinality(before) \in Nat
    <3>1. k - 1 \in 0 .. Len(g)
      OBVIOUS
    <3> QED BY <3>1, EndsBounded
  <2> HIDE DEF before
  <2>2. /\ Cardinality(before) + 1 <= Len(sv)
        /\ k - Highest(before) <= Len(Answer(sv[Cardinality(before) + 1]))
        /\ g[k] = Answer(sv[Cardinality(before) + 1])[k - Highest(before)]
    BY DEF Fits, PartFits, before
  <2>3. Append(sv, n)[Cardinality(before) + 1] = sv[Cardinality(before) + 1]
    BY <1>1, <2>1, <2>2
  <2>4. Cardinality(before) + 1 <= Len(Append(sv, n))
    BY <1>1, <2>1, <2>2
  <2> QED BY <2>2, <2>3, <2>4 DEF PartFits, before
<1> QED BY <1>2 DEF Fits

LEMMA RequestsCounted ==
    ASSUME NEW s \in Seq(Token)
    PROVE  IsFiniteSet(Blanks(s)) /\ Requests(s) \in Nat
<1>1. Blanks(s) \subseteq 1 .. Len(s) /\ Len(s) \in Nat
  BY DEF Blanks
<1>2. IsFiniteSet(1 .. Len(s))
  BY <1>1, FS_Interval
<1> QED BY <1>1, <1>2, FS_Subset, FS_CardinalityType DEF Requests

LEMMA NoRequests == Requests(<<>>) = 0
<1>1. Blanks(<<>>) = {}
  BY DEF Blanks
<1> QED BY <1>1, FS_EmptySet DEF Requests

LEMMA RequestsAppended ==
    ASSUME NEW s \in Seq(Token), NEW t \in Token
    PROVE  Requests(Append(s, t)) = Requests(s) + (IF t.what = "blank" THEN 1 ELSE 0)
<1>1. /\ Len(s) \in Nat /\ DOMAIN s = 1 .. Len(s) /\ DOMAIN Append(s, t) = (1 .. Len(s)) \cup {Len(s) + 1}
      /\ \A i \in 1 .. Len(s) : Append(s, t)[i] = s[i]
      /\ Append(s, t)[Len(s) + 1] = t
  OBVIOUS
<1>2. Blanks(Append(s, t)) = IF t.what = "blank" THEN Blanks(s) \cup {Len(s) + 1} ELSE Blanks(s)
  <2>1. ASSUME NEW i
        PROVE  i \in Blanks(Append(s, t)) <=> (i \in Blanks(s) \/ (i = Len(s) + 1 /\ t.what = "blank"))
    BY <1>1 DEF Blanks
  <2> QED BY <2>1
<1>3. Len(s) + 1 \notin Blanks(s)
  BY <1>1 DEF Blanks
<1>4. IsFiniteSet(Blanks(s)) /\ Requests(s) \in Nat
  BY RequestsCounted
<1>5. CASE t.what = "blank"
  <2>1. Blanks(Append(s, t)) = Blanks(s) \cup {Len(s) + 1}
    BY <1>2, <1>5
  <2>2. Cardinality(Blanks(Append(s, t))) = Cardinality(Blanks(s)) + 1
    BY <1>3, <1>4, <2>1, FS_AddElement
  <2> QED BY <1>5, <2>2 DEF Requests
<1>6. CASE t.what # "blank"
  <2>1. Requests(Append(s, t)) = Requests(s)
    BY <1>2, <1>6 DEF Requests
  <2> QED BY <1>4, <1>6, <2>1
<1> QED BY <1>5, <1>6

LEMMA RequestsTaken ==
    ASSUME NEW s \in Seq(Token), s # <<>>
    PROVE  Requests(s) = Requests(Tail(s)) + (IF Head(s).what = "blank" THEN 1 ELSE 0)
<1> DEFINE T == Blanks(Tail(s))
           R == Blanks(s) \ {1}
           f == [i \in T |-> i + 1]
<1>1. /\ Len(s) \in Nat \ {0} /\ DOMAIN s = 1 .. Len(s) /\ Tail(s) \in Seq(Token)
      /\ DOMAIN Tail(s) = 1 .. Len(s) - 1 /\ Head(s) = s[1]
      /\ \A i \in 1 .. Len(s) - 1 : Tail(s)[i] = s[i + 1]
  BY HeadTailProperties, EmptySeq
<1>2. \A i \in T : i \in Nat /\ i + 1 \in R
  BY <1>1 DEF Blanks
<1>3. \A j \in R : j - 1 \in T /\ j = (j - 1) + 1
  BY <1>1 DEF Blanks
<1>4. ExistsBijection(T, R)
  <2> HIDE DEF T, R
  <2>1. f \in [T -> R]
    BY <1>2
  <2>2. \A a, b \in T : f[a] = f[b] => a = b
    BY <1>2
  <2>3. \A j \in R : \E i \in T : f[i] = j
    <3>1. TAKE j \in R
    <3>2. j - 1 \in T /\ f[j - 1] = j
      BY <1>3, <3>1
    <3> QED BY <3>2
  <2> HIDE DEF f
  <2>4. f \in Bijection(T, R)
    BY <2>1, <2>2, <2>3 DEF Bijection, Injection, Surjection, IsInjective
  <2> QED BY <2>4 DEF ExistsBijection
<1>5. IsFiniteSet(T) /\ Requests(Tail(s)) = Cardinality(T)
  BY <1>1, RequestsCounted DEF Requests
<1>6. IsFiniteSet(R) /\ Cardinality(R) = Requests(Tail(s))
  BY <1>4, <1>5, FS_Bijection
<1>7. CASE Head(s).what = "blank"
  <2>1. Blanks(s) = R \cup {1} /\ 1 \notin R
    BY <1>1, <1>7 DEF Blanks
  <2> QED BY <1>6, <1>7, <2>1, FS_AddElement DEF Requests
<1>8. CASE Head(s).what # "blank"
  <2>1. Blanks(s) = R
    BY <1>1, <1>8 DEF Blanks
  <2>2. Requests(s) = Requests(Tail(s))
    BY <1>6, <2>1 DEF Requests
  <2>3. Requests(s) \in Nat
    BY RequestsCounted
  <2> QED BY <1>8, <2>2, <2>3
<1> QED BY <1>7, <1>8

-----------------------------------------------------------------------------
(* What leaves the answers as they are.                                    *)

\* The types that the steps below need, and who is behind a session.
LEMMA Served ==
    ASSUME StageInv
    PROVE  /\ got \in [Clients -> Seq(Parts)] /\ served \in [Clients -> Seq(Nat)]
           /\ asked \in [Clients -> Nat] /\ inbox \in [Clients -> Seq(Token)]
           /\ \A h \in ConFds : blocks[h].buf \in Seq(Token)
           /\ \A c \in Clients : /\ Len(served[c]) \in Nat /\ Requests(inbox[c]) \in Nat
                                 /\ asked[c] \in Nat /\ served[c] \in Seq(Nat) /\ got[c] \in Seq(Parts)
           /\ \A h \in ConFds : Requests(blocks[h].buf) \in Nat
           /\ \A k \in DOMAIN sessions :
                /\ sessions[k] \in Session /\ sessions[k].hsock \in ConFds
                /\ owner[sessions[k].hsock] \in Clients
           /\ \A j, k \in DOMAIN sessions : j # k =>
                /\ sessions[j].hsock # sessions[k].hsock
                /\ owner[sessions[j].hsock] # owner[sessions[k].hsock]
<1>1. PeopleTyped /\ BytesTyped /\ TablesTyped
  BY DEF StageInv, Typed
<1>2. /\ got \in [Clients -> Seq(Parts)] /\ served \in [Clients -> Seq(Nat)]
      /\ asked \in [Clients -> Nat] /\ inbox \in [Clients -> Seq(Token)]
      /\ owner \in [ConFds -> Clients \cup {NoClient}]
  BY <1>1 DEF PeopleTyped, BytesTyped, Parts
<1>3. \A h \in ConFds : blocks[h].buf \in Seq(Token)
  BY <1>1 DEF BytesTyped
<1>4. \A c \in Clients : /\ Len(served[c]) \in Nat /\ Requests(inbox[c]) \in Nat
                         /\ asked[c] \in Nat /\ served[c] \in Seq(Nat) /\ got[c] \in Seq(Parts)
  BY <1>2, RequestsCounted
<1>5. \A h \in ConFds : Requests(blocks[h].buf) \in Nat
  BY <1>3, RequestsCounted
<1>6. \A k \in DOMAIN sessions :
                /\ sessions[k] \in Session /\ sessions[k].hsock \in ConFds
                /\ owner[sessions[k].hsock] \in Clients
  BY <1>1, <1>2, Members DEF StageInv, OneSession
<1>7. \A j, k \in DOMAIN sessions : j # k =>
                /\ sessions[j].hsock # sessions[k].hsock
                /\ owner[sessions[j].hsock] # owner[sessions[k].hsock]
  BY <1>6, StageAssumption DEF StageInv, OneSession, Connections
<1> QED BY <1>2, <1>3, <1>4, <1>5, <1>6, <1>7

\* Nothing that the answers depend on is changed; who was away may connect.
LEMMA AnswersKept ==
    ASSUME AnswerInv, UNCHANGED <<owner, inbox, asked, got, sessions, blocks, served>>,
           \A c \in Clients : peer'[c] = "away" \/ (\E i \in DOMAIN queue' : queue'[i] = c) =>
                              peer[c] = "away" \/ (\E i \in DOMAIN queue : queue[i] = c)
    PROVE  AnswerInv'
<1>1. /\ \A c \in Clients : Fits(got[c], served[c])'
      /\ \A k \in DOMAIN sessions' :
            LET c == owner[sessions[k].hsock] IN Follows(sessions[k], got[c], served[c])'
  BY DEF AnswerInv
<1>2. Due'
  BY DEF AnswerInv, Due
<1>3. NothingYet'
  BY DEF AnswerInv, NothingYet
<1> QED BY <1>1, <1>2, <1>3 DEF AnswerInv

LEMMA SelectAnswers ==
    ASSUME AnswerInv, Select \/ LoopEnds \/ SkipEntry \/ StartReading \/ ProcessEnds \/ AskMetadata \/ AskSend
    PROVE  AnswerInv'
<1>1. UNCHANGED <<owner, queue, peer, inbox, asked, got, sessions, blocks, served>>
  BY DEF Select, SelectOn, LoopEnds, SkipEntry, StartReading, ProcessEnds, AskMetadata, AskSend, PerformIo,
     world
<1> QED BY <1>1, AnswersKept

LEMMA PeerAnswers ==
    ASSUME StageInv, AnswerInv,
           ReceiveNothing \/ SendFails \/ \E c \in Clients : Leave(c) \/ Connect(c)
    PROVE  AnswerInv'
<1>1. /\ peer \in [Clients -> {"away", "open", "closed", "reset", "dead"}] /\ queue \in Seq(Clients)
      /\ owner \in [ConFds -> Clients \cup {NoClient}]
  BY DEF StageInv, Typed, PeopleTyped
<1>2. CASE ReceiveNothing
  BY <1>1, <1>2, AnswersKept DEF ReceiveNothing
<1>3. CASE SendFails
  BY <1>1, <1>3, AnswersKept DEF SendFails
<1>4. ASSUME NEW c \in Clients, Leave(c)
      PROVE  AnswerInv'
  BY <1>1, <1>4, AnswersKept DEF Leave
<1>5. ASSUME NEW c \in Clients, Connect(c)
      PROVE  AnswerInv'
  <2>1. /\ peer[c] = "away" /\ peer' = [peer EXCEPT ![c] = "open"] /\ queue' = Append(queue, c)
        /\ UNCHANGED <<owner, inbox, asked, got, sessions, blocks, served>>
    BY <1>5 DEF Connect
  <2>2. ASSUME NEW d \in Clients, peer'[d] = "away" \/ (\E i \in DOMAIN queue' : queue'[i] = d)
        PROVE  peer[d] = "away" \/ (\E i \in DOMAIN queue : queue[i] = d)
    <3>1. CASE d = c
      BY <2>1, <3>1
    <3>2. CASE d # c
      <4>1. peer'[d] = peer[d]
        BY <1>1, <2>1, <3>2
      <4>2. \A i \in DOMAIN queue' : queue'[i] = d => i \in DOMAIN queue /\ queue[i] = d
        BY <1>1, <2>1, <3>2
      <4> QED BY <2>2, <4>1, <4>2
    <3> QED BY <3>1, <3>2
  <2> QED BY <2>1, <2>2, AnswersKept
<1> QED BY <1>2, <1>3, <1>4, <1>5

\* One session and its connection go on, the others do not.
OnlyOne(k, h, c) ==
    /\ DOMAIN sessions' = DOMAIN sessions
    /\ \A j \in DOMAIN sessions : sessions'[j].hsock = sessions[j].hsock /\ (j # k => sessions'[j] = sessions[j])
    /\ UNCHANGED <<owner, queue, asked>>
    /\ \A d \in Clients : peer'[d] = "away" => peer[d] = "away"
    /\ \A d \in Clients : d # c => got'[d] = got[d] /\ served'[d] = served[d] /\ inbox'[d] = inbox[d]
    /\ \A g \in ConFds : g # h => blocks'[g] = blocks[g]

LEMMA OneGoesOn ==
    ASSUME StageInv, AnswerInv, NEW k \in DOMAIN sessions, NEW h, NEW c,
           h = sessions[k].hsock, c = owner[h], OnlyOne(k, h, c),
           Requests(inbox'[c]) \in Nat, Requests(blocks'[h].buf) \in Nat, Len(served'[c]) \in Nat,
           Len(served'[c]) + Requests(inbox'[c]) + Requests(blocks'[h].buf) + Begun(sessions'[k]) <= asked[c],
           Fits(got'[c], served'[c]),
           Follows(sessions'[k], got'[c], served'[c])
    PROVE  AnswerInv'
<1>0. /\ DOMAIN sessions' = DOMAIN sessions
      /\ \A j \in DOMAIN sessions : sessions'[j].hsock = sessions[j].hsock /\ (j # k => sessions'[j] = sessions[j])
      /\ UNCHANGED <<owner, queue, asked>>
      /\ \A d \in Clients : peer'[d] = "away" => peer[d] = "away"
      /\ \A d \in Clients : d # c => got'[d] = got[d] /\ served'[d] = served[d] /\ inbox'[d] = inbox[d]
      /\ \A g \in ConFds : g # h => blocks'[g] = blocks[g]
  BY DEF OnlyOne
<1>1. /\ \A j \in DOMAIN sessions :
            sessions[j].hsock \in ConFds /\ owner[sessions[j].hsock] \in Clients
      /\ \A j \in DOMAIN sessions : j # k => sessions[j].hsock # h /\ owner[sessions[j].hsock] # c
      /\ asked \in [Clients -> Nat]
  BY Served
<1>2. h \in ConFds /\ c \in Clients /\ asked[c] \in Nat
  BY <1>1
<1>3. peer[c] # "away" /\ \A i \in DOMAIN queue : queue[i] # c
  BY <1>2, StageAssumption DEF StageInv, Connections
<1>4. \A d \in Clients : Fits(got'[d], served'[d])
  BY <1>0 DEF AnswerInv
<1>5. Due'
  <2>1. Len(served'[c]) + Requests(inbox'[c]) <= asked[c]
    <3>1. Begun(sessions'[k]) \in Nat
      BY DEF Begun
    <3> QED BY <1>2, <3>1
  <2>2. \A d \in Clients : Len(served'[d]) + Requests(inbox'[d]) <= asked'[d]
    BY <1>0, <2>1 DEF AnswerInv, Due
  <2>3. ASSUME NEW j \in DOMAIN sessions
        PROVE  Len(served'[owner[sessions[j].hsock]]) + Requests(inbox'[owner[sessions[j].hsock]])
                 + Requests(blocks'[sessions[j].hsock].buf) + Begun(sessions'[j]) <= asked[owner[sessions[j].hsock]]
    <3>1. CASE j = k
      BY <1>0, <3>1
    <3>2. CASE j # k
      <4>1. /\ sessions'[j] = sessions[j] /\ blocks'[sessions[j].hsock] = blocks[sessions[j].hsock]
            /\ served'[owner[sessions[j].hsock]] = served[owner[sessions[j].hsock]]
            /\ inbox'[owner[sessions[j].hsock]] = inbox[owner[sessions[j].hsock]]
        BY <1>0, <1>1, <3>2
      <4> QED BY <4>1 DEF AnswerInv, Due
    <3> QED BY <3>1, <3>2
  <2> QED BY <1>0, <2>2, <2>3 DEF Due
<1>6. NothingYet'
  BY <1>0, <1>3 DEF AnswerInv, NothingYet
<1>7. ASSUME NEW j \in DOMAIN sessions
      PROVE  LET d == owner[sessions[j].hsock] IN Follows(sessions'[j], got'[d], served'[d])
  <2>1. CASE j = k
    BY <1>0, <2>1
  <2>2. CASE j # k
    <3>1. /\ sessions'[j] = sessions[j]
          /\ served'[owner[sessions[j].hsock]] = served[owner[sessions[j].hsock]]
          /\ got'[owner[sessions[j].hsock]] = got[owner[sessions[j].hsock]]
      BY <1>0, <1>1, <2>2
    <3> QED BY <3>1 DEF AnswerInv
  <2> QED BY <2>1, <2>2
<1> QED BY <1>0, <1>4, <1>5, <1>6, <1>7 DEF AnswerInv

-----------------------------------------------------------------------------
(* The hooks.                                                              *)

\* The stage of a session after a hook that did nothing to the answer.
LEMMA Passes ==
    ASSUME NEW s \in Session, NEW w, NEW m \in Nat, NEW n, m > 0 => n \in Nat, NEW part \in Nat,
           AnswersAs(s, w, m, n, part),
           \/ s.stage \in {"CREATE_CON", "READ_RQST_METADATA", "PARSE_RQST_METADATA", "READ_RQST_DATA",
                           "ALTER_RQST_DATA", "BUILD_RESP_METADATA"}
           \/ s.stage = "SEND_RESP" /\ ~s.header /\ s.content = "none"
    PROVE  /\ AnswersAs(NextStage(s), w, m, n, part)
           /\ s.stage # "READ_RQST_METADATA" => Begun(NextStage(s)) = Begun(s)
           /\ s.stage = "READ_RQST_METADATA" => Begun(NextStage(s)) = 1 /\ Begun(s) = 0
<1>1. CASE s.stage # "SEND_RESP"
  <2>1. w = m /\ Between(s, part) /\ Fresh(s)
    BY <1>1 DEF AnswersAs, Fresh, Ready
  <2>2. NextStage(s) \in Session /\ Fresh(NextStage(s))
        /\ NextStage(s).chunked = s.chunked /\ NextStage(s).first = s.first /\ NextStage(s).last = s.last
        /\ NextStage(s).stage # "SEND_RESP"
        /\ (s.stage # "READ_RQST_METADATA" => (Ready(NextStage(s)) <=> Ready(s)))
        /\ (s.stage = "READ_RQST_METADATA" => Ready(NextStage(s)) /\ ~Ready(s))
    <3>1. ~s.chunked
      BY <2>1 DEF Between
    <3> QED BY <1>1, <3>1 DEF NextStage, Session, Stages, Fresh, Ready
  <2>3. Between(NextStage(s), part)
    BY <2>1, <2>2 DEF Between
  <2> QED BY <2>1, <2>2, <2>3 DEF AnswersAs, Begun
<1>2. CASE s.stage = "SEND_RESP" /\ s.chunked
  <2>1. ~Fresh(s) /\ ~Ready(s)
    BY <1>2 DEF Fresh, Ready
  <2>2. w = m - 1 /\ m > 0 /\ FetchNext(s, n, part)
    BY <1>2 DEF AnswersAs, Between, EndNext, ChunkNext
  <2>3. NextStage(s) = [s EXCEPT !.stage = "BUILD_RESP_DATA"]
    BY <1>2 DEF NextStage
  <2>4. /\ NextStage(s).stage = "BUILD_RESP_DATA" /\ NextStage(s).chunked
        /\ NextStage(s).last = s.last /\ NextStage(s).first = s.first /\ NextStage(s).left = s.left
    BY <1>2, <2>3 DEF Session
  <2>5. ~Fresh(NextStage(s)) /\ ~Ready(NextStage(s))
    BY <2>4 DEF Fresh, Ready
  <2>6. FetchNext(NextStage(s), n, part)
    BY <2>2, <2>4 DEF FetchNext
  <2> QED BY <1>2, <2>1, <2>2, <2>5, <2>6 DEF AnswersAs, Begun
<1>3. CASE s.stage = "SEND_RESP" /\ ~s.chunked
  <2>1. ~Ready(s)
    BY <1>3 DEF Ready
  <2>2. w = m /\ part = 0
    BY <1>2, <1>3 DEF AnswersAs, Between, EndNext, ChunkNext, FetchNext
  <2>3. NextStage(s) = NewSession(s.hsock)
    BY <1>3 DEF NextStage
  <2>4. Fresh(NextStage(s)) /\ ~Ready(NextStage(s)) /\ Between(NextStage(s), part)
    BY <2>2, <2>3 DEF NewSession, Fresh, Ready, Between
  <2> QED BY <1>3, <2>1, <2>2, <2>4 DEF AnswersAs, Begun
<1> QED BY <1>1, <1>2, <1>3

LEMMA DataStages ==
    ASSUME NEW s \in Session
    PROVE  /\ s.stage = "BUILD_RESP_DATA" => NextStage(s) = [s EXCEPT !.stage = "ALTER_RESP_DATA"]
           /\ s.stage = "ALTER_RESP_DATA" => NextStage(s) = [s EXCEPT !.stage = "ALTER_RESP_METADATA"]
  BY DEF NextStage

LEMMA FetchedData ==
    ASSUME NEW s \in Session, NEW n \in Nat, s.stage = "BUILD_RESP_DATA"
    PROVE  LET t == NextStage(Fetched(s, n))
           IN  /\ t.stage = "ALTER_RESP_DATA" /\ t.first = s.first /\ t.chunked
               /\ n = 0 => t.last
               /\ n > 0 => t.last = s.last /\ t.left = n - 1 /\ t.content = "data"
<1> DEFINE u == Fetched(s, n)
<1>1. u \in Session /\ u.stage = "BUILD_RESP_DATA"
  BY FetchedIs
<1>2. /\ u.first = s.first /\ u.chunked
      /\ n = 0 => u.last
      /\ n > 0 => u.last = s.last /\ u.left = n - 1 /\ u.content = "data"
  <2>1. CASE n = 0
    <3>1. u = [s EXCEPT !.left = 0, !.chunked = TRUE, !.last = TRUE]
      BY <2>1 DEF Fetched
    <3>2. u.first = s.first
      BY <3>1 DEF Session
    <3>3. u.chunked /\ u.last
      BY <3>1 DEF Session
    <3> QED BY <2>1, <3>2, <3>3
  <2>2. CASE n # 0
    <3>1. u = [s EXCEPT !.left = n - 1, !.chunked = TRUE, !.content = "data"]
      BY <2>2 DEF Fetched
    <3>2. n - 1 \in Nat /\ n > 0
      BY <2>2
    <3>3. u.first = s.first /\ u.last = s.last
      BY <3>1 DEF Session
    <3>4. u.chunked /\ u.left = n - 1 /\ u.content = "data"
      BY <3>1, <3>2 DEF Session
    <3> QED BY <2>2, <3>3, <3>4
  <2> QED BY <2>1, <2>2
<1> HIDE DEF u
<1>3. NextStage(u) = [u EXCEPT !.stage = "ALTER_RESP_DATA"]
  BY <1>1, DataStages
<1>4. /\ NextStage(u).stage = "ALTER_RESP_DATA" /\ NextStage(u).first = u.first /\ NextStage(u).chunked = u.chunked
      /\ NextStage(u).last = u.last /\ NextStage(u).left = u.left /\ NextStage(u).content = u.content
  BY <1>1, <1>3 DEF Session
<1> QED BY <1>2, <1>4 DEF u

\* What the hooks of the data make of a session.
LEMMA Opens ==
    ASSUME NEW s \in Session, NEW w, NEW m \in Nat, NEW l, NEW part \in Nat, AnswersAs(s, w, m, l, part),
           s.stage = "BUILD_RESP_DATA", ~s.chunked, NEW n \in Nat
    PROVE  LET t == NextStage(Fetched([s EXCEPT !.first = TRUE], n))
           IN  AnswersAs(t, w, m + 1, n, part) /\ Begun(t) = 0 /\ Begun(s) = 1
<1> DEFINE t == NextStage(Fetched([s EXCEPT !.first = TRUE], n))
<1>1. Ready(s) /\ Fresh(s)
  BY DEF Ready, Fresh
<1>2. w = m /\ part = 0 /\ ~s.last
  BY <1>1 DEF AnswersAs, Between
<1>3. /\ t.stage = "ALTER_RESP_DATA" /\ t.first /\ t.chunked
      /\ n = 0 => t.last
      /\ n > 0 => ~t.last /\ t.left = n - 1 /\ t.content = "data"
  <2> DEFINE f == [s EXCEPT !.first = TRUE]
  <2>1. f \in Session /\ f.stage = "BUILD_RESP_DATA" /\ f.first /\ f.last = s.last
    BY DEF Session
  <2> HIDE DEF f
  <2> QED BY <1>2, <2>1, FetchedData DEF f
<1> HIDE DEF t
<1>4. ~Fresh(t) /\ ~Ready(t)
  BY <1>3 DEF Fresh, Ready
<1>5. EndNext(t, n, part) \/ ChunkNext(t, n, part)
  BY <1>2, <1>3 DEF EndNext, ChunkNext, Upto
<1>6. AnswersAs(t, w, m + 1, n, part)
  BY <1>2, <1>4, <1>5 DEF AnswersAs
<1> QED BY <1>1, <1>4, <1>6 DEF Begun, t

LEMMA Fetches ==
    ASSUME NEW s \in Session, NEW w, NEW m \in Nat, NEW n, m > 0 => n \in Nat, NEW part \in Nat,
           AnswersAs(s, w, m, n, part),
           s.stage = "BUILD_RESP_DATA", s.chunked
    PROVE  LET t == NextStage(Fetched(s, s.left))
           IN  AnswersAs(t, w, m, n, part) /\ Begun(t) = Begun(s)
<1> DEFINE t == NextStage(Fetched(s, s.left))
<1>1. ~Ready(s) /\ ~Fresh(s) /\ s.left \in Nat
  BY DEF Ready, Fresh, Session
<1>2. w = m - 1 /\ m > 0 /\ FetchNext(s, n, part)
  BY <1>1 DEF AnswersAs, Between, EndNext, ChunkNext
<1>3. /\ t.stage = "ALTER_RESP_DATA" /\ t.first = s.first /\ t.chunked
      /\ s.left = 0 => t.last
      /\ s.left > 0 => ~t.last /\ t.left = s.left - 1 /\ t.content = "data"
  BY <1>1, <1>2, FetchedData DEF FetchNext
<1> HIDE DEF t
<1>4. ~Fresh(t) /\ ~Ready(t)
  BY <1>3 DEF Fresh, Ready
<1>5. EndNext(t, n, part) \/ ChunkNext(t, n, part)
  BY <1>1, <1>2, <1>3 DEF EndNext, ChunkNext, FetchNext
<1> QED BY <1>1, <1>2, <1>4, <1>5 DEF AnswersAs, Begun, t

DataAltered(s) ==
    IF s.last THEN [s EXCEPT !.chunked = FALSE, !.header = FALSE, !.content = "end"]
    ELSE IF s.chunked THEN [s EXCEPT !.content = "chunk"] ELSE s

MetadataAltered(s) == [s EXCEPT !.header = (s.first \/ ~s.chunked) /\ ~s.last, !.first = FALSE]

LEMMA AltersData ==
    ASSUME NEW s \in Session, NEW w, NEW m \in Nat, NEW n, m > 0 => n \in Nat, NEW part \in Nat,
           AnswersAs(s, w, m, n, part),
           s.stage = "ALTER_RESP_DATA",
           NEW t, t = NextStage(DataAltered(s))
    PROVE  AnswersAs(t, w, m, n, part) /\ Begun(t) = Begun(s) /\ t.hsock = s.hsock
<1>1. ~Ready(s) /\ ~Fresh(s)
  BY DEF Ready, Fresh
<1>2. w = m - 1 /\ m > 0 /\ (EndNext(s, n, part) \/ ChunkNext(s, n, part))
  BY <1>1 DEF AnswersAs, Between, FetchNext
<1>3. /\ t.stage = "ALTER_RESP_METADATA" /\ t.hsock = s.hsock /\ t.first = s.first /\ t.last = s.last /\ t.left = s.left
      /\ s.last => ~t.chunked /\ t.content = "end"
      /\ ~s.last => t.chunked /\ t.content = "chunk"
  <2> DEFINE u == DataAltered(s)
  <2>1. /\ u \in Session /\ u.stage = "ALTER_RESP_DATA" /\ u.hsock = s.hsock
        /\ u.first = s.first /\ u.last = s.last /\ u.left = s.left
        /\ s.last => ~u.chunked /\ u.content = "end"
        /\ ~s.last => u.chunked /\ u.content = "chunk"
    <3>1. CASE s.last
      <4>1. u = [s EXCEPT !.chunked = FALSE, !.header = FALSE, !.content = "end"]
        BY <3>1 DEF DataAltered
      <4> QED BY <3>1, <4>1 DEF Session
    <3>2. CASE ~s.last
      <4>1. s.chunked /\ u = [s EXCEPT !.content = "chunk"]
        BY <1>2, <3>2 DEF EndNext, ChunkNext, DataAltered
      <4> QED BY <3>2, <4>1 DEF Session
    <3> QED BY <3>1, <3>2
  <2> HIDE DEF u
  <2>2. t = [u EXCEPT !.stage = "ALTER_RESP_METADATA"]
    BY <2>1, DataStages DEF u
  <2>3. /\ t.stage = "ALTER_RESP_METADATA" /\ t.first = u.first /\ t.chunked = u.chunked /\ t.hsock = u.hsock
        /\ t.last = u.last /\ t.left = u.left /\ t.content = u.content
    BY <2>1, <2>2 DEF Session
  <2> QED BY <2>1, <2>3
<1>4. ~Fresh(t) /\ ~Ready(t)
  BY <1>3 DEF Fresh, Ready
<1>5. EndNext(t, n, part) \/ ChunkNext(t, n, part)
  BY <1>2, <1>3 DEF EndNext, ChunkNext
<1> QED BY <1>1, <1>2, <1>3, <1>4, <1>5 DEF AnswersAs, Begun

LEMMA AltersMetadata ==
    ASSUME NEW s \in Session, NEW w, NEW m \in Nat, NEW n, m > 0 => n \in Nat, NEW part \in Nat,
           AnswersAs(s, w, m, n, part),
           s.stage = "ALTER_RESP_METADATA",
           NEW t, t = NextStage(MetadataAltered(s))
    PROVE  AnswersAs(t, w, m, n, part) /\ Begun(t) = Begun(s) /\ t.hsock = s.hsock
<1>1. ~Ready(s) /\ ~Fresh(s)
  BY DEF Ready, Fresh
<1>2. w = m - 1 /\ m > 0 /\ (EndNext(s, n, part) \/ ChunkNext(s, n, part))
  BY <1>1 DEF AnswersAs, Between, FetchNext
<1>3. /\ t.stage = "SEND_RESP" /\ t.hsock = s.hsock /\ ~t.first /\ t.last = s.last /\ t.left = s.left
      /\ t.chunked = s.chunked /\ t.content = s.content
      /\ t.header <=> (s.first \/ ~s.chunked) /\ ~s.last
  <2>1. t = [s EXCEPT !.stage = "SEND_RESP", !.header = (s.first \/ ~s.chunked) /\ ~s.last, !.first = FALSE]
    BY DEF NextStage, MetadataAltered, Session
  <2>2. t.header <=> (s.first \/ ~s.chunked) /\ ~s.last
    BY <2>1 DEF Session
  <2> QED BY <2>1, <2>2 DEF Session
<1>4. ~Fresh(t) /\ ~Ready(t)
  BY <1>3 DEF Fresh, Ready
<1>5. EndNext(t, n, part) \/ ChunkNext(t, n, part)
  BY <1>2, <1>3 DEF EndNext, ChunkNext
<1> QED BY <1>1, <1>2, <1>3, <1>4, <1>5 DEF AnswersAs, Begun

\* What is known of a session and of its connection.
LEMMA AtAnswer ==
    ASSUME StageInv, AnswerInv, NEW k \in DOMAIN sessions, NEW h, NEW c, h = sessions[k].hsock, c = owner[h]
    PROVE  /\ Fits(got[c], served[c]) /\ Follows(sessions[k], got[c], served[c])
           /\ AnswersAs(sessions[k], Whole(got[c]), Len(served[c]), served[c][Len(served[c])], Part(got[c]))
           /\ Part(got[c]) \in Nat /\ Whole(got[c]) \in Nat
           /\ Len(served[c]) > 0 => served[c][Len(served[c])] \in Nat
           /\ Len(served[c]) + Requests(inbox[c]) + Requests(blocks[h].buf) + Begun(sessions[k]) <= asked[c]
<1>1. c \in Clients /\ served[c] \in Seq(Nat) /\ got[c] \in Seq(Parts)
  BY Served
<1>2. Part(got[c]) \in Nat /\ Whole(got[c]) \in Nat
  <2>1. Len(got[c]) \in Nat /\ Len(got[c]) \in 0 .. Len(got[c])
    BY <1>1
  <2> QED BY <1>1, <2>1, EndsBounded DEF Part, Whole, Ends
<1>3. Len(served[c]) > 0 => served[c][Len(served[c])] \in Nat
  BY <1>1
<1> QED BY <1>1, <1>2, <1>3 DEF AnswerInv, Due, Follows

LEMMA HookAnswers ==
    ASSUME StageInv, AnswerInv, cur \in DOMAIN sessions, NEW s, s.hsock = sessions[cur].hsock,
           sessions' = [sessions EXCEPT ![cur] = s], UNCHANGED <<world, blocks>>, NEW c, c = owner[s.hsock],
           \A d \in Clients : d # c => served'[d] = served[d],
           Len(served'[c]) \in Nat, Len(served'[c]) + Begun(s) = Len(served[c]) + Begun(sessions[cur]),
           Fits(got[c], served'[c]), Follows(s, got[c], served'[c])
    PROVE  AnswerInv'
<1> DEFINE h == s.hsock
<1>1. /\ DOMAIN sessions' = DOMAIN sessions /\ sessions'[cur] = s
      /\ \A j \in DOMAIN sessions : sessions'[j].hsock = sessions[j].hsock /\ (j # cur => sessions'[j] = sessions[j])
  OBVIOUS
<1>2. UNCHANGED <<owner, queue, peer, inbox, asked, got, blocks>>
  BY DEF world
<1>3. h \in ConFds /\ c \in Clients
  BY Served
<1>4. Requests(inbox[c]) \in Nat /\ Requests(blocks[h].buf) \in Nat
  BY <1>3, Served
<1>5. Len(served[c]) + Requests(inbox[c]) + Requests(blocks[h].buf) + Begun(sessions[cur]) <= asked[c]
  BY AtAnswer
<1>6. Begun(s) \in Nat /\ Begun(sessions[cur]) \in Nat /\ asked[c] \in Nat /\ Len(served[c]) \in Nat
  BY <1>3, Served DEF Begun
<1> HIDE DEF h
<1>7. Len(served'[c]) + Requests(inbox[c]) + Requests(blocks[h].buf) + Begun(s) <= asked[c]
  <2>1. \A m, b, m2, b2, q, r, a \in Nat : m2 + b2 = m + b /\ m + q + r + b <= a => m2 + q + r + b2 <= a
    OBVIOUS
  <2> DEFINE m == Len(served[c])
             b == Begun(sessions[cur])
             m2 == Len(served'[c])
             b2 == Begun(s)
             q == Requests(inbox[c])
             r == Requests(blocks[h].buf)
             a == asked[c]
  <2>2. /\ m \in Nat /\ b \in Nat /\ m2 \in Nat /\ b2 \in Nat /\ q \in Nat /\ r \in Nat /\ a \in Nat
        /\ m2 + b2 = m + b /\ m + q + r + b <= a
    BY <1>4, <1>5, <1>6
  <2> HIDE DEF m, b, m2, b2, q, r, a
  <2>3. m2 + q + r + b2 <= a
    BY <2>1, <2>2
  <2> QED BY <2>3 DEF m, b, m2, b2, q, r, a
<1>8. h = sessions[cur].hsock /\ c = owner[h]
  BY DEF h
<1>9. OnlyOne(cur, h, c)
  BY <1>1, <1>2 DEF OnlyOne
<1> QED BY <1>1, <1>2, <1>4, <1>7, <1>8, <1>9, OneGoesOn

\* A hook that begins no answer.
LEMMA HookKeeps ==
    ASSUME StageInv, AnswerInv, cur \in DOMAIN sessions, NEW s, s.hsock = sessions[cur].hsock,
           sessions' = [sessions EXCEPT ![cur] = s], UNCHANGED <<world, blocks, served>>,
           Begun(s) = Begun(sessions[cur]),
           LET c == owner[s.hsock]
           IN  AnswersAs(s, Whole(got[c]), Len(served[c]), served[c][Len(served[c])], Part(got[c]))
    PROVE  AnswerInv'
<1> DEFINE c == owner[s.hsock]
<1>1. Fits(got[c], served[c]) /\ Len(served[c]) \in Nat
  BY AtAnswer, Served
<1> QED BY <1>1, HookAnswers DEF Follows

LEMMA PassStageAnswers ==
    ASSUME StageInv, AnswerInv, PassStage
    PROVE  AnswerInv'
<1> DEFINE s == sessions[cur]
           c == owner[s.hsock]
<1>1. /\ cur \in DOMAIN sessions /\ Done(s) /\ UNCHANGED served
      /\ \/ s.stage \in {"CREATE_CON", "PARSE_RQST_METADATA", "READ_RQST_DATA", "ALTER_RQST_DATA",
                         "BUILD_RESP_METADATA"}
         \/ s.stage = "SEND_RESP" /\ ~s.header /\ s.content = "none"
  BY DEF PassStage, Working, ToSend
<1>2. s \in Session /\ Len(served[c]) \in Nat
  BY <1>1, Served
<1>3. /\ AnswersAs(s, Whole(got[c]), Len(served[c]), served[c][Len(served[c])], Part(got[c]))
      /\ Part(got[c]) \in Nat /\ (Len(served[c]) > 0 => served[c][Len(served[c])] \in Nat)
  BY <1>1, AtAnswer
<1> HIDE DEF s, c
<1>4. /\ AnswersAs(NextStage(s), Whole(got[c]), Len(served[c]), served[c][Len(served[c])], Part(got[c]))
      /\ Begun(NextStage(s)) = Begun(s)
  BY <1>1, <1>2, <1>3, Passes
<1>5. NextStage(s).hsock = s.hsock
  BY <1>2, NextStageIs
<1> QED BY <1>1, <1>4, <1>5, HookKeeps DEF Done, s, c

LEMMA OpenResourceAnswers ==
    ASSUME StageInv, AnswerInv, OpenResource
    PROVE  AnswerInv'
<1> DEFINE s == sessions[cur]
           c == owner[s.hsock]
           f == [s EXCEPT !.first = TRUE]
<1>1. cur \in DOMAIN sessions /\ s.stage = "BUILD_RESP_DATA" /\ ~s.chunked
  BY DEF OpenResource, Working
<1>2. PICK n \in IF s.lines = {c} THEN {Chunks[c]} ELSE {Chunks[d] : d \in Clients} :
        Done(Fetched(f, n)) /\ served' = [served EXCEPT ![c] = Append(@, n)]
  BY DEF OpenResource
<1>3. s \in Session /\ c \in Clients /\ served \in [Clients -> Seq(Nat)] /\ served[c] \in Seq(Nat)
      /\ got[c] \in Seq(Parts) /\ Len(served[c]) \in Nat
  BY <1>1, Served
<1>4. n \in Nat
  BY <1>3, StageAssumption
<1>5. /\ AnswersAs(s, Whole(got[c]), Len(served[c]), served[c][Len(served[c])], Part(got[c]))
      /\ Part(got[c]) \in Nat /\ Fits(got[c], served[c])
  BY <1>1, AtAnswer
<1> DEFINE t == NextStage(Fetched(f, n))
<1>6. /\ AnswersAs(t, Whole(got[c]), Len(served[c]) + 1, n, Part(got[c]))
      /\ Begun(t) = 0 /\ Begun(s) = 1
  <2> HIDE DEF s, c
  <2> QED BY <1>1, <1>3, <1>4, <1>5, Opens
<1>7. t.hsock = s.hsock
  <2>1. f \in Session /\ f.hsock = s.hsock
    BY <1>3 DEF Session
  <2> HIDE DEF f
  <2> QED BY <1>4, <2>1, FetchedIs, NextStageIs
<1> HIDE DEF t, s, c
<1>8. /\ served'[c] = Append(served[c], n) /\ \A d \in Clients : d # c => served'[d] = served[d]
      /\ Len(served'[c]) = Len(served[c]) + 1 /\ served'[c][Len(served[c]) + 1] = n
  <2>1. served'[c] = Append(served[c], n) /\ \A d \in Clients : d # c => served'[d] = served[d]
    BY <1>2, <1>3
  <2> QED BY <1>3, <1>4, <2>1
<1>9. Fits(got[c], served'[c])
  BY <1>3, <1>4, <1>5, <1>8, AnswerBegun
<1>10. Follows(t, got[c], served'[c])
  BY <1>6, <1>8 DEF Follows
<1>11. sessions' = [sessions EXCEPT ![cur] = t] /\ UNCHANGED <<world, blocks>>
  BY <1>2 DEF Done, t
<1>12. /\ Len(served'[c]) \in Nat /\ Len(served'[c]) + Begun(t) = Len(served[c]) + Begun(sessions[cur])
       /\ c = owner[t.hsock] /\ t.hsock = sessions[cur].hsock
  <2>1. Len(served'[c]) \in Nat /\ Len(served'[c]) + Begun(t) = Len(served[c]) + Begun(s)
    BY <1>3, <1>6, <1>8
  <2>2. c = owner[s.hsock] /\ s = sessions[cur]
    BY DEF s, c
  <2> QED BY <1>7, <2>1, <2>2
<1> QED BY <1>1, <1>8, <1>9, <1>10, <1>11, <1>12, HookAnswers

LEMMA FetchMoreAnswers ==
    ASSUME StageInv, AnswerInv, FetchMore
    PROVE  AnswerInv'
<1> DEFINE s == sessions[cur]
           c == owner[s.hsock]
           t == NextStage(Fetched(s, s.left))
<1>1. /\ cur \in DOMAIN sessions /\ Done(Fetched(s, s.left)) /\ UNCHANGED served
      /\ s.stage = "BUILD_RESP_DATA" /\ s.chunked
  BY DEF FetchMore, Working
<1>2. s \in Session /\ Len(served[c]) \in Nat /\ s.left \in Nat
  BY <1>1, Served DEF Session
<1>3. /\ AnswersAs(s, Whole(got[c]), Len(served[c]), served[c][Len(served[c])], Part(got[c]))
      /\ Part(got[c]) \in Nat /\ (Len(served[c]) > 0 => served[c][Len(served[c])] \in Nat)
  BY <1>1, AtAnswer
<1>4. t.hsock = s.hsock
  <2>1. Fetched(s, s.left) \in Session /\ Fetched(s, s.left).hsock = s.hsock
    BY <1>2, FetchedIs
  <2> QED BY <2>1, NextStageIs
<1>5. /\ AnswersAs(t, Whole(got[c]), Len(served[c]), served[c][Len(served[c])], Part(got[c]))
      /\ Begun(t) = Begun(s)
  <2> HIDE DEF s, c
  <2> QED BY <1>1, <1>2, <1>3, Fetches
<1>6. sessions' = [sessions EXCEPT ![cur] = t] /\ UNCHANGED <<world, blocks>>
  BY <1>1 DEF Done
<1> HIDE DEF t
<1> QED BY <1>1, <1>4, <1>5, <1>6, HookKeeps

LEMMA AlterDataAnswers ==
    ASSUME StageInv, AnswerInv, AlterData
    PROVE  AnswerInv'
<1> DEFINE s == sessions[cur]
           c == owner[s.hsock]
           t == NextStage(DataAltered(s))
<1>1. cur \in DOMAIN sessions /\ Done(DataAltered(s)) /\ UNCHANGED served /\ s.stage = "ALTER_RESP_DATA"
  BY DEF AlterData, Working, DataAltered
<1>2. s \in Session /\ Len(served[c]) \in Nat
  BY <1>1, Served
<1>3. /\ AnswersAs(s, Whole(got[c]), Len(served[c]), served[c][Len(served[c])], Part(got[c]))
      /\ Part(got[c]) \in Nat /\ (Len(served[c]) > 0 => served[c][Len(served[c])] \in Nat)
  BY <1>1, AtAnswer
<1>4. /\ AnswersAs(t, Whole(got[c]), Len(served[c]), served[c][Len(served[c])], Part(got[c]))
      /\ Begun(t) = Begun(s) /\ t.hsock = s.hsock
  <2> HIDE DEF s, c
  <2> QED BY <1>1, <1>2, <1>3, AltersData
<1>5. sessions' = [sessions EXCEPT ![cur] = t] /\ UNCHANGED <<world, blocks>>
  BY <1>1 DEF Done
<1> HIDE DEF t
<1> QED BY <1>1, <1>4, <1>5, HookKeeps

LEMMA AlterMetadataAnswers ==
    ASSUME StageInv, AnswerInv, AlterMetadata
    PROVE  AnswerInv'
<1> DEFINE s == sessions[cur]
           c == owner[s.hsock]
           t == NextStage(MetadataAltered(s))
<1>1. cur \in DOMAIN sessions /\ Done(MetadataAltered(s)) /\ UNCHANGED served /\ s.stage = "ALTER_RESP_METADATA"
  BY DEF AlterMetadata, Working, MetadataAltered
<1>2. s \in Session /\ Len(served[c]) \in Nat
  BY <1>1, Served
<1>3. /\ AnswersAs(s, Whole(got[c]), Len(served[c]), served[c][Len(served[c])], Part(got[c]))
      /\ Part(got[c]) \in Nat /\ (Len(served[c]) > 0 => served[c][Len(served[c])] \in Nat)
  BY <1>1, AtAnswer
<1>4. /\ AnswersAs(t, Whole(got[c]), Len(served[c]), served[c][Len(served[c])], Part(got[c]))
      /\ Begun(t) = Begun(s) /\ t.hsock = s.hsock
  <2> HIDE DEF s, c
  <2> QED BY <1>1, <1>2, <1>3, AltersMetadata
<1>5. sessions' = [sessions EXCEPT ![cur] = t] /\ UNCHANGED <<world, blocks>>
  BY <1>1 DEF Done
<1> HIDE DEF t
<1> QED BY <1>1, <1>4, <1>5, HookKeeps

-----------------------------------------------------------------------------
(* What clients send and the server receives.                              *)

LEMMA MoreAsked ==
    ASSUME StageInv, AnswerInv, NEW c \in Clients, NEW t \in Token,
           inbox' = [inbox EXCEPT ![c] = Append(@, t)],
           asked' = IF t.what = "blank" THEN [asked EXCEPT ![c] = @ + 1] ELSE asked,
           UNCHANGED <<owner, queue, peer, got, sessions, blocks, served>>
    PROVE  AnswerInv'
<1> DEFINE x == IF t.what = "blank" THEN 1 ELSE 0
<1>1. inbox \in [Clients -> Seq(Token)] /\ asked \in [Clients -> Nat] /\ x \in Nat
  BY Served
<1>2. inbox'[c] = Append(inbox[c], t) /\ asked'[c] = asked[c] + x
  BY <1>1
<1>3. \A d \in Clients : d # c => inbox'[d] = inbox[d] /\ asked'[d] = asked[d]
  BY <1>1
<1>4. Requests(inbox'[c]) = Requests(inbox[c]) + x
  BY <1>1, <1>2, RequestsAppended
<1> HIDE DEF x
<1>5. \A m, q, r, b, a \in Nat : /\ m + q <= a => m + (q + x) <= a + x
                                 /\ m + q + r + b <= a => m + (q + x) + r + b <= a + x
  BY <1>1
<1>6. ASSUME NEW d \in Clients
      PROVE  Len(served[d]) + Requests(inbox'[d]) <= asked'[d]
  <2>1. Len(served[d]) + Requests(inbox[d]) <= asked[d]
    BY DEF AnswerInv, Due
  <2>2. CASE d # c
    BY <1>3, <2>1, <2>2
  <2>3. CASE d = c
    <3>1. Len(served[c]) \in Nat /\ Requests(inbox[c]) \in Nat /\ asked[c] \in Nat
      BY Served
    <3> QED BY <1>2, <1>4, <1>5, <2>1, <2>3, <3>1
  <2> QED BY <2>2, <2>3
<1>7. ASSUME NEW k \in DOMAIN sessions, NEW d, d = owner[sessions[k].hsock],
             NEW r, r = Requests(blocks[sessions[k].hsock].buf)
      PROVE  Len(served[d]) + Requests(inbox'[d]) + r + Begun(sessions[k]) <= asked'[d]
  <2>1. Len(served[d]) + Requests(inbox[d]) + r + Begun(sessions[k]) <= asked[d]
    BY <1>7 DEF AnswerInv, Due
  <2>2. /\ d \in Clients /\ r \in Nat /\ Begun(sessions[k]) \in Nat
        /\ Len(served[d]) \in Nat /\ Requests(inbox[d]) \in Nat /\ asked[d] \in Nat
    BY <1>7, Served DEF Begun
  <2>3. CASE d # c
    BY <1>3, <2>1, <2>2, <2>3
  <2>4. CASE d = c
    <3>1. Len(served[d]) + (Requests(inbox[d]) + x) + r + Begun(sessions[k]) <= asked[d] + x
      BY <1>5, <2>1, <2>2
    <3> QED BY <1>2, <1>4, <2>4, <3>1
  <2> QED BY <2>3, <2>4
<1>8. Due'
  BY <1>6, <1>7 DEF Due
<1>9. NothingYet'
  BY DEF AnswerInv, NothingYet
<1> QED BY <1>8, <1>9 DEF AnswerInv

LEMMA ClientAnswers ==
    ASSUME StageInv, AnswerInv, NEW c \in Clients, BeginRequest(c) \/ GoOnWithRequest(c)
    PROVE  AnswerInv'
<1>1. \A what \in {"half", "line", "blank"} : [from |-> c, what |-> what] \in Token
  BY DEF Token
<1>2. ASSUME NEW what \in {"half", "line"}, NEW next, Send(c, what, next), UNCHANGED asked
      PROVE  AnswerInv'
  <2> DEFINE t == [from |-> c, what |-> what]
  <2>1. t \in Token /\ t.what # "blank"
    BY <1>1
  <2>2. inbox' = [inbox EXCEPT ![c] = Append(@, t)] /\ UNCHANGED <<owner, queue, peer, got, sessions, blocks, served>>
    BY <1>2 DEF Send
  <2> HIDE DEF t
  <2> QED BY <1>2, <2>1, <2>2, MoreAsked
<1>3. ASSUME NEW next, Send(c, "blank", next), asked' = [asked EXCEPT ![c] = @ + 1]
      PROVE  AnswerInv'
  <2> DEFINE t == [from |-> c, what |-> "blank"]
  <2>1. t \in Token /\ t.what = "blank"
    BY <1>1
  <2>2. inbox' = [inbox EXCEPT ![c] = Append(@, t)] /\ UNCHANGED <<owner, queue, peer, got, sessions, blocks, served>>
    BY <1>3 DEF Send
  <2> HIDE DEF t
  <2> QED BY <1>3, <2>1, <2>2, MoreAsked
<1> QED BY <1>2, <1>3 DEF BeginRequest, GoOnWithRequest

LEMMA ReceiveMoreAnswers ==
    ASSUME StageInv, AnswerInv, ReceiveMore
    PROVE  AnswerInv'
<1> DEFINE h == sockios[pos].hsock
           c == owner[h]
           k == SessionOf(h)
<1>1. /\ at = "lines" /\ blocks[h].buf = <<>>
      /\ blocks' = [blocks EXCEPT ![h].buf = inbox[c]] /\ inbox' = [inbox EXCEPT ![c] = <<>>]
      /\ UNCHANGED <<owner, queue, peer, asked, got, sessions, served>>
  BY DEF ReceiveMore
<1>2. h \in ConFds /\ c \in Clients /\ k \in DOMAIN sessions /\ sessions[k].hsock = h /\ c = owner[h]
  BY <1>1, InHandler
<1> HIDE DEF h, c, k
<1>3. inbox \in [Clients -> Seq(Token)] /\ blocks \in [ConFds -> [buf : Seq(Token), line : SUBSET Clients]]
  BY DEF StageInv, Typed, BytesTyped
<1>4. /\ inbox'[c] = <<>> /\ blocks'[h].buf = inbox[c]
      /\ \A d \in Clients : d # c => inbox'[d] = inbox[d]
      /\ \A g \in ConFds : g # h => blocks'[g] = blocks[g]
  BY <1>1, <1>2, <1>3
<1>5. Requests(inbox'[c]) = 0 /\ Requests(blocks[h].buf) = 0 /\ Requests(blocks'[h].buf) = Requests(inbox[c])
  BY <1>1, <1>4, NoRequests
<1>6. Len(served[c]) \in Nat /\ Requests(inbox[c]) \in Nat /\ Begun(sessions[k]) \in Nat /\ asked[c] \in Nat
  BY <1>2, Served DEF Begun
<1>7. /\ Len(served[c]) + Requests(inbox[c]) + Requests(blocks[h].buf) + Begun(sessions[k]) <= asked[c]
      /\ Fits(got[c], served[c]) /\ Follows(sessions[k], got[c], served[c])
  BY <1>2, AtAnswer
<1>8. Len(served[c]) + Requests(inbox'[c]) + Requests(blocks'[h].buf) + Begun(sessions[k]) <= asked[c]
  BY <1>5, <1>6, <1>7
<1>9. /\ Requests(inbox'[c]) \in Nat /\ Requests(blocks'[h].buf) \in Nat /\ Len(served'[c]) \in Nat
      /\ Len(served'[c]) + Requests(inbox'[c]) + Requests(blocks'[h].buf) + Begun(sessions'[k]) <= asked[c]
      /\ Fits(got'[c], served'[c]) /\ Follows(sessions'[k], got'[c], served'[c])
  BY <1>1, <1>5, <1>6, <1>7, <1>8
<1>10. OnlyOne(k, h, c)
  BY <1>1, <1>4 DEF OnlyOne
<1> QED BY <1>2, <1>9, <1>10, OneGoesOn

\* The lines of a request have no part in it.
LEMMA LinesRead ==
    ASSUME NEW s, NEW t, t.stage = s.stage, t.chunked = s.chunked, t.first = s.first, t.last = s.last,
           t.header = s.header, t.content = s.content, t.left = s.left, NEW g, NEW sv, Follows(s, g, sv)
    PROVE  Begun(t) = Begun(s) /\ Follows(t, g, sv)
<1>2. (Fresh(t) <=> Fresh(s)) /\ (Ready(t) <=> Ready(s))
  BY DEF Fresh, Ready
<1>3. ASSUME NEW n, NEW part
      PROVE  /\ Between(s, part) => Between(t, part)
             /\ EndNext(s, n, part) => EndNext(t, n, part)
             /\ ChunkNext(s, n, part) => ChunkNext(t, n, part)
             /\ FetchNext(s, n, part) => FetchNext(t, n, part)
  BY <1>2 DEF Between, EndNext, ChunkNext, FetchNext
<1> QED BY <1>2, <1>3 DEF Begun, Follows, AnswersAs

LEMMA TakeTokenAnswers ==
    ASSUME StageInv, AnswerInv, TakeToken
    PROVE  AnswerInv'
<1> DEFINE h == sockios[pos].hsock
           c == owner[h]
           k == SessionOf(h)
           b == blocks[h]
           bytes == b.line \cup {Head(b.buf).from}
           s == sessions[k]
<1>1. /\ at = "lines" /\ b.buf # <<>>
      /\ blocks' = [blocks EXCEPT ![h] = [buf |-> Tail(b.buf), line |-> Kept(Head(b.buf).what, bytes)]]
      /\ UNCHANGED <<owner, queue, peer, inbox, asked, got, served>>
      /\ \/ Head(b.buf).what = "half" /\ sessions' = sessions
         \/ sessions' = [sessions EXCEPT ![k].lines = @ \cup bytes]
         \/ Head(b.buf).what \notin {"half", "line"} /\ sessions' = [sessions EXCEPT ![k] = NextStage(@)]
  BY DEF TakeToken, world
<1>2. /\ h \in ConFds /\ c \in Clients /\ k \in DOMAIN sessions /\ s.hsock = h /\ c = owner[h]
      /\ s.stage = "READ_RQST_METADATA" /\ s \in Session
  BY <1>1, InHandler, Served
<1>0. sessions \in Seq(Session)
  BY DEF StageInv, Typed, TablesTyped
<1>3. blocks \in [ConFds -> [buf : Seq(Token), line : SUBSET Clients]]
  BY DEF StageInv, Typed, BytesTyped
<1>4. b.buf \in Seq(Token) /\ Tail(b.buf) \in Seq(Token) /\ Head(b.buf) \in Token
  BY <1>1, <1>2, <1>3, HeadTailProperties
<1>5. Head(b.buf).what \in {"half", "line", "blank"}
  BY <1>4 DEF Token
<1>6. blocks'[h].buf = Tail(b.buf) /\ \A g \in ConFds : g # h => blocks'[g] = blocks[g]
  BY <1>1, <1>2, <1>3
<1>7. Requests(b.buf) = Requests(Tail(b.buf)) + (IF Head(b.buf).what = "blank" THEN 1 ELSE 0)
  BY <1>1, <1>4, RequestsTaken
<1>8. /\ Len(served[c]) \in Nat /\ Requests(inbox[c]) \in Nat /\ asked[c] \in Nat
      /\ Requests(Tail(b.buf)) \in Nat
  BY <1>2, <1>4, Served, RequestsCounted
<1>9. /\ Len(served[c]) + Requests(inbox[c]) + Requests(b.buf) + Begun(s) <= asked[c]
      /\ Fits(got[c], served[c]) /\ Follows(s, got[c], served[c])
      /\ AnswersAs(s, Whole(got[c]), Len(served[c]), served[c][Len(served[c])], Part(got[c]))
      /\ Part(got[c]) \in Nat /\ (Len(served[c]) > 0 => served[c][Len(served[c])] \in Nat)
  BY <1>2, AtAnswer
<1> SUFFICES ASSUME NEW t, t.hsock = h, sessions' = [sessions EXCEPT ![k] = t], Follows(t, got[c], served[c]),
                    \/ Begun(t) = Begun(s)
                    \/ Begun(t) = 1 /\ Begun(s) = 0 /\ Head(b.buf).what = "blank"
             PROVE  AnswerInv'
  <2>1. CASE sessions' = sessions
    <3>1. sessions' = [sessions EXCEPT ![k] = s]
      BY <1>0, <1>2, <2>1
    <3> QED BY <1>2, <1>9, <3>1
  <2>2. CASE sessions' = [sessions EXCEPT ![k].lines = @ \cup bytes]
    <3> DEFINE t == [s EXCEPT !.lines = @ \cup bytes]
    <3>1. sessions' = [sessions EXCEPT ![k] = t]
      BY <1>2, <2>2
    <3>2. Begun(t) = Begun(s) /\ t.hsock = s.hsock /\ Follows(t, got[c], served[c])
      <4> HIDE DEF s, c, bytes
      <4>1. /\ t.hsock = s.hsock /\ t.stage = s.stage /\ t.chunked = s.chunked /\ t.first = s.first
            /\ t.last = s.last /\ t.header = s.header /\ t.content = s.content /\ t.left = s.left
        BY <1>2 DEF Session
      <4> HIDE DEF t
      <4> QED BY <1>2, <1>9, <4>1, LinesRead
    <3> HIDE DEF t
    <3> QED BY <1>2, <3>1, <3>2
  <2>3. CASE Head(b.buf).what \notin {"half", "line"} /\ sessions' = [sessions EXCEPT ![k] = NextStage(@)]
    <3> DEFINE t == NextStage(s)
    <3>1. sessions' = [sessions EXCEPT ![k] = t]
      BY <2>3
    <3>2. t.hsock = h
      BY <1>2, NextStageIs
    <3>3. /\ AnswersAs(t, Whole(got[c]), Len(served[c]), served[c][Len(served[c])], Part(got[c]))
          /\ Begun(t) = 1 /\ Begun(s) = 0
      <4> HIDE DEF s, c
      <4> QED BY <1>2, <1>8, <1>9, Passes
    <3> HIDE DEF t
    <3>4. Follows(t, got[c], served[c])
      BY <3>3 DEF Follows
    <3> QED BY <1>5, <2>3, <3>1, <3>2, <3>3, <3>4
  <2> QED BY <1>1, <2>1, <2>2, <2>3
<1>10. /\ DOMAIN sessions' = DOMAIN sessions /\ sessions'[k] = t
       /\ \A j \in DOMAIN sessions : sessions'[j].hsock = sessions[j].hsock /\ (j # k => sessions'[j] = sessions[j])
  BY <1>2
<1>11. Len(served[c]) + Requests(inbox[c]) + Requests(Tail(b.buf)) + Begun(t) <= asked[c]
  <2> DEFINE m == Len(served[c])
             q == Requests(inbox[c])
             r == Requests(b.buf)
             r2 == Requests(Tail(b.buf))
             a == asked[c]
             y == Begun(s)
             y2 == Begun(t)
  <2>1. /\ m \in Nat /\ q \in Nat /\ r2 \in Nat /\ a \in Nat /\ y \in Nat /\ y2 \in Nat
        /\ m + q + r + y <= a
    BY <1>8, <1>9 DEF Begun
  <2>2. r = r2 + 1 \/ (r = r2 /\ Head(b.buf).what # "blank")
    BY <1>7, <1>8
  <2>3. y2 = y \/ (y2 = 1 /\ y = 0 /\ Head(b.buf).what = "blank")
    OBVIOUS
  <2> HIDE DEF m, q, r, r2, a, y, y2
  <2>4. m + q + r2 + y2 <= a
    BY <2>1, <2>2, <2>3
  <2> QED BY <2>4 DEF m, q, r2, a, y2
<1>12. h = sessions[k].hsock /\ c = owner[h]
  BY <1>2
<1> HIDE DEF h, c, k, b, s, bytes
<1>13. /\ Requests(inbox'[c]) \in Nat /\ Requests(blocks'[h].buf) \in Nat /\ Len(served'[c]) \in Nat
       /\ Len(served'[c]) + Requests(inbox'[c]) + Requests(blocks'[h].buf) + Begun(sessions'[k]) <= asked[c]
       /\ Fits(got'[c], served'[c]) /\ Follows(sessions'[k], got'[c], served'[c])
  BY <1>1, <1>6, <1>8, <1>9, <1>10, <1>11
<1>14. OnlyOne(k, h, c)
  BY <1>1, <1>6, <1>10 DEF OnlyOne
<1> QED BY <1>2, <1>12, <1>13, <1>14, OneGoesOn

-----------------------------------------------------------------------------
(* What is sent, and connections that come and go.                         *)

\* What send_response writes.
ToWriteNow(s) == (IF s.header THEN <<"header">> ELSE <<>>) \o (IF s.content = "none" THEN <<>> ELSE <<s.content>>)

\* It is what the answer goes on with.
LEMMA Sent ==
    ASSUME NEW s \in Session, s.stage = "SEND_RESP", s.content \in {"none", "chunk", "end"},
           NEW g \in Seq(Parts), NEW sv \in Seq(Nat), Fits(g, sv), Follows(s, g, sv),
           NEW t, t.stage = s.stage, t.chunked = s.chunked, t.first = s.first, t.last = s.last,
           ~t.header, t.content = "none", t.left = s.left
    PROVE  /\ Fits(g \o ToWriteNow(s), sv) /\ Follows(t, g \o ToWriteNow(s), sv)
           /\ Begun(t) = 0 /\ Begun(s) = 0
<1> DEFINE m == Len(sv)
           n == sv[Len(sv)]
<1>1. ~Fresh(s) /\ ~Fresh(t) /\ ~Ready(s) /\ ~Ready(t)
  BY DEF Fresh, Ready
<1>2. Begun(t) = 0 /\ Begun(s) = 0
  BY <1>1 DEF Begun
<1>3. "header" \in Parts /\ "chunk" \in Parts /\ "end" \in Parts
  BY DEF Parts
<1>4. Whole(g) \in Nat /\ Part(g) \in Nat /\ m \in Nat /\ (m > 0 => n \in Nat) /\ s.left \in Nat
  <2>1. Len(g) \in Nat /\ Len(g) \in 0 .. Len(g)
    OBVIOUS
  <2> QED BY <2>1, EndsBounded DEF Part, Whole, Ends, Session
<1>5. ASSUME ~s.header, s.content = "none"
      PROVE  g \o ToWriteNow(s) = g
  BY <1>5, ConcatEmptySeq DEF ToWriteNow
<1>6. ASSUME ~s.header, s.content # "none"
      PROVE  g \o ToWriteNow(s) = Append(g, s.content)
  <2>1. ToWriteNow(s) = <<s.content>> /\ s.content \in Parts
    BY <1>3, <1>6 DEF ToWriteNow
  <2> QED BY <2>1
<1>7. ASSUME s.header, s.content = "chunk"
      PROVE  g \o ToWriteNow(s) = Append(Append(g, "header"), "chunk")
  <2>1. ToWriteNow(s) = <<"header">> \o <<"chunk">>
    BY <1>7 DEF ToWriteNow
  <2>2. \A x, y \in Parts : g \o (<<x>> \o <<y>>) = Append(Append(g, x), y)
    OBVIOUS
  <2> QED BY <1>3, <2>1, <2>2
<1> HIDE DEF m, n
<1>8. CASE Whole(g) = m /\ Between(s, Part(g))
  <2>1. ~s.header /\ s.content = "none" /\ ~s.chunked /\ Part(g) = 0
    BY <1>8 DEF Between
  <2>2. Between(t, Part(g))
    BY <1>1, <2>1 DEF Between
  <2>3. g \o ToWriteNow(s) = g
    BY <1>5, <2>1
  <2> QED BY <1>2, <1>8, <2>2, <2>3 DEF Follows, AnswersAs, m
<1>9. CASE m > 0 /\ Whole(g) = m - 1 /\ EndNext(s, n, Part(g))
  <2>1. ~s.header /\ s.content = "end" /\ ~s.chunked /\ Part(g) = Upto(n)
    BY <1>9 DEF EndNext
  <2>2. g \o ToWriteNow(s) = Append(g, "end")
    BY <1>6, <2>1
  <2>3. Part(g) + 1 <= Len(Answer(n)) /\ Answer(n)[Part(g) + 1] = "end"
    <3>1. Len(Answer(n)) = Upto(n) + 1 /\ Answer(n)[Upto(n) + 1] = "end"
      BY <1>4, <1>9, AnswerIs
    <3> QED BY <1>4, <2>1, <3>1
  <2>4. Fits(Append(g, "end"), sv) /\ Whole(Append(g, "end")) = m /\ Part(Append(g, "end")) = 0
    <3>1. /\ Fits(Append(g, "end"), sv)
          /\ Whole(Append(g, "end")) = Whole(g) + 1 /\ Part(Append(g, "end")) = 0
      BY <1>3, <1>9, <2>3, PartSent DEF m, n
    <3> QED BY <1>4, <1>9, <3>1
  <2>5. Between(t, 0)
    BY <1>1, <2>1 DEF Between
  <2> QED BY <1>2, <2>2, <2>4, <2>5 DEF Follows, AnswersAs, m
<1>10. CASE m > 0 /\ Whole(g) = m - 1 /\ ChunkNext(s, n, Part(g))
  <2>1. /\ ~s.last /\ s.chunked /\ ~s.first /\ s.left < n /\ s.content = "chunk"
        /\ Part(g) = Upto(n - s.left - 1) /\ (s.header <=> s.left = n - 1)
    BY <1>10 DEF ChunkNext
  <2>2. n \in Nat /\ n > 0
    BY <1>4, <1>10, <2>1
  <2>3. FetchNext(t, n, Upto(n - s.left))
    BY <2>1 DEF FetchNext
  <2>4. SUFFICES ASSUME NEW g2, g2 = g \o ToWriteNow(s)
                 PROVE  Fits(g2, sv) /\ Whole(g2) = m - 1 /\ Part(g2) = Upto(n - s.left)
    BY <1>1, <1>2, <1>10, <2>3 DEF Follows, AnswersAs, m, n
  <2>5. CASE s.header
    <3> DEFINE g1 == Append(g, "header")
    <3>1. g2 = Append(g1, "chunk") /\ Part(g) = 0 /\ n - s.left = 1
      BY <1>4, <1>7, <2>1, <2>2, <2>4, <2>5 DEF Upto
    <3>2. Part(g) + 1 <= Len(Answer(n)) /\ Answer(n)[Part(g) + 1] = "header"
      BY <2>2, <3>1, AnswerIs DEF Upto
    <3>3. g1 \in Seq(Parts) /\ Fits(g1, sv) /\ Whole(g1) = Whole(g) /\ Part(g1) = 1
      <4>1. g1 \in Seq(Parts) /\ Fits(g1, sv) /\ Whole(g1) = Whole(g) /\ Part(g1) = Part(g) + 1
        BY <1>3, <1>10, <3>2, PartSent DEF m, n
      <4> QED BY <3>1, <4>1
    <3> HIDE DEF g1
    <3>4. Part(g1) + 1 <= Len(Answer(n)) /\ Answer(n)[Part(g1) + 1] = "chunk"
      <4>1. Len(Answer(n)) = n + 2
        BY <2>2, AnswerIs DEF Upto
      <4>2. \A f \in 1 .. n : Answer(n)[f + 1] = "chunk"
        BY <2>2, AnswerIs
      <4>3. Part(g1) \in 1 .. n
        BY <2>2, <3>3
      <4> QED BY <2>2, <3>3, <4>1, <4>2, <4>3
    <3>5. Fits(g2, sv) /\ Whole(g2) = Whole(g1) /\ Part(g2) = Part(g1) + 1
      <4>1. Len(sv) > 0 /\ Whole(g1) = Len(sv) - 1 /\ Part(g1) + 1 <= Len(Answer(sv[Len(sv)]))
            /\ "chunk" = Answer(sv[Len(sv)])[Part(g1) + 1]
        BY <1>10, <3>3, <3>4 DEF m, n
      <4>2. Fits(Append(g1, "chunk"), sv) /\ Whole(Append(g1, "chunk")) = Whole(g1)
            /\ Part(Append(g1, "chunk")) = Part(g1) + 1
        BY <1>3, <3>3, <4>1, PartSent
      <4> QED BY <3>1, <4>2
    <3> QED BY <1>10, <3>1, <3>3, <3>5 DEF Upto
  <2>6. CASE ~s.header
    <3>1. g2 = Append(g, "chunk")
      BY <1>6, <2>1, <2>4, <2>6
    <3>2. Part(g) = n - s.left /\ n - s.left \in 1 .. n /\ Part(g) + 1 = Upto(n - s.left)
      BY <1>4, <2>1, <2>2, <2>6 DEF Upto
    <3>3. Part(g) + 1 <= Len(Answer(n)) /\ Answer(n)[Part(g) + 1] = "chunk"
      <4>1. Len(Answer(n)) = n + 2
        BY <2>2, AnswerIs DEF Upto
      <4> QED BY <2>2, <3>2, <4>1, AnswerIs
    <3>4. Fits(g2, sv) /\ Whole(g2) = Whole(g) /\ Part(g2) = Part(g) + 1
      BY <1>3, <1>10, <3>1, <3>3, PartSent DEF m, n
    <3> QED BY <1>10, <3>2, <3>4
  <2> QED BY <2>5, <2>6
<1>11. CASE m > 0 /\ Whole(g) = m - 1 /\ FetchNext(s, n, Part(g))
  <2>1. ~s.header /\ s.content = "none"
    BY <1>11 DEF FetchNext
  <2>2. FetchNext(t, n, Part(g))
    BY <1>11 DEF FetchNext
  <2>3. g \o ToWriteNow(s) = g
    BY <1>5, <2>1
  <2> QED BY <1>1, <1>2, <1>11, <2>2, <2>3 DEF Follows, AnswersAs, m, n
<1> QED BY <1>8, <1>9, <1>10, <1>11 DEF Follows, AnswersAs, m, n

LEMMA SendResponseAnswers ==
    ASSUME StageInv, AnswerInv, SendResponse
    PROVE  AnswerInv'
<1> DEFINE h == sockios[pos].hsock
           c == owner[h]
           k == SessionOf(h)
           s == sessions[k]
           t == [s EXCEPT !.header = FALSE, !.content = "none"]
<1>1. /\ WritesNow /\ peer[c] \in {"open", "closed"}
      /\ got' = [got EXCEPT ![c] = @ \o ToWriteNow(s)]
      /\ peer' = [peer EXCEPT ![c] = IF @ = "closed" THEN "reset" ELSE @]
      /\ sessions' = [sessions EXCEPT ![k].header = FALSE, ![k].content = "none"]
      /\ UNCHANGED <<owner, queue, inbox, asked, blocks, served>>
  BY DEF SendResponse, SendWith, ToWriteNow
<1>2. /\ h \in ConFds /\ c \in Clients /\ k \in DOMAIN sessions /\ s.hsock = h /\ s.stage = "SEND_RESP"
      /\ s \in Session
  BY <1>1, AtSend, Served
<1>3. s.content \in {"none", "chunk", "end"}
  <2>1. s.content # "data"
    BY <1>2 DEF StageInv, Asked
  <2> QED BY <1>2, <2>1 DEF Session
<1>4. sessions' = [sessions EXCEPT ![k] = t]
  BY <1>1, <1>2
<1>5. /\ t.hsock = h /\ t.stage = s.stage /\ t.chunked = s.chunked /\ t.first = s.first /\ t.last = s.last
      /\ ~t.header /\ t.content = "none" /\ t.left = s.left
  BY <1>2 DEF Session
<1>6. /\ got[c] \in Seq(Parts) /\ served[c] \in Seq(Nat)
      /\ got \in [Clients -> Seq(Parts)] /\ peer \in [Clients -> {"away", "open", "closed", "reset", "dead"}]
      /\ Len(served[c]) \in Nat /\ Requests(inbox[c]) \in Nat /\ Requests(blocks[h].buf) \in Nat
  BY <1>2, Served DEF StageInv, Typed, PeopleTyped
<1>7. /\ Fits(got[c], served[c]) /\ Follows(s, got[c], served[c])
      /\ Len(served[c]) + Requests(inbox[c]) + Requests(blocks[h].buf) + Begun(s) <= asked[c]
  BY <1>2, AtAnswer
<1>8. c = owner[h]
  OBVIOUS
<1> HIDE DEF h, c, k, s, t
<1>9. /\ Fits(got[c] \o ToWriteNow(s), served[c]) /\ Follows(t, got[c] \o ToWriteNow(s), served[c])
      /\ Begun(t) = 0 /\ Begun(s) = 0
  BY <1>2, <1>3, <1>5, <1>6, <1>7, Sent
<1>10. /\ DOMAIN sessions' = DOMAIN sessions /\ sessions'[k] = t
       /\ \A j \in DOMAIN sessions : sessions'[j].hsock = sessions[j].hsock /\ (j # k => sessions'[j] = sessions[j])
  <2>1. h = sessions[k].hsock
    BY <1>2 DEF s
  <2> QED BY <1>2, <1>4, <1>5, <2>1
<1>11. /\ got'[c] = got[c] \o ToWriteNow(s) /\ \A d \in Clients : d # c => got'[d] = got[d]
       /\ \A d \in Clients : peer'[d] = "away" => peer[d] = "away"
  BY <1>1, <1>2, <1>6
<1>12. /\ Requests(inbox'[c]) \in Nat /\ Requests(blocks'[h].buf) \in Nat /\ Len(served'[c]) \in Nat
       /\ Len(served'[c]) + Requests(inbox'[c]) + Requests(blocks'[h].buf) + Begun(sessions'[k]) <= asked[c]
       /\ Fits(got'[c], served'[c]) /\ Follows(sessions'[k], got'[c], served'[c])
  BY <1>1, <1>6, <1>7, <1>9, <1>10, <1>11
<1>13. h = sessions[k].hsock
  BY <1>2 DEF s
<1>14. OnlyOne(k, h, c)
  BY <1>1, <1>10, <1>11 DEF OnlyOne
<1> QED BY <1>2, <1>8, <1>12, <1>13, <1>14, OneGoesOn

LEMMA TerminateAnswers ==
    ASSUME StageInv, AnswerInv, Terminate
    PROVE  AnswerInv'
<1> DEFINE h == sockios[pos].hsock
           c == owner[h]
           k == SessionOf(h)
<1>1. /\ at = "close" /\ sessions' = Without(k)
      /\ owner' = IF peer[c] = "dead" THEN owner ELSE [owner EXCEPT ![h] = NoClient]
      /\ UNCHANGED <<queue, peer, inbox, asked, got, blocks, served>>
  BY DEF Terminate, TerminateWith
<1>2. h \in ConFds /\ k \in DOMAIN sessions /\ sessions[k].hsock = h
  BY <1>1, InHandler
<1>3. sessions \in Seq(Session) /\ Len(sessions) \in Nat /\ DOMAIN sessions = 1 .. Len(sessions)
  BY Members DEF StageInv, Typed, TablesTyped
<1>4. /\ DOMAIN sessions' = 1 .. Len(sessions) - 1
      /\ \A i \in DOMAIN sessions' : sessions'[i] = sessions[IF i < k THEN i ELSE i + 1]
  BY <1>1, <1>2, <1>3, WithoutIs
<1> HIDE DEF h, c, k
<1>5. ASSUME NEW i \in DOMAIN sessions'
      PROVE  \E j \in DOMAIN sessions : /\ sessions'[i] = sessions[j]
                                        /\ owner'[sessions[j].hsock] = owner[sessions[j].hsock]
  <2> DEFINE j == IF i < k THEN i ELSE i + 1
  <2>1. j \in DOMAIN sessions /\ j # k
    BY <1>2, <1>3, <1>4
  <2>2. sessions'[i] = sessions[j]
    BY <1>4
  <2> HIDE DEF j
  <2>3. sessions[j].hsock # h /\ sessions[j].hsock \in ConFds
    BY <1>2, <2>1, Served
  <2>4. owner'[sessions[j].hsock] = owner[sessions[j].hsock]
    <3>1. owner \in [ConFds -> Clients \cup {NoClient}]
      BY DEF StageInv, Typed, PeopleTyped
    <3> QED BY <1>1, <2>3, <3>1
  <2> QED BY <2>1, <2>2, <2>4
<1>6. Due'
  <2>1. \A i \in DOMAIN sessions' :
            LET s == sessions'[i]
                d == owner'[s.hsock]
            IN  Len(served[d]) + Requests(inbox[d]) + Requests(blocks[s.hsock].buf) + Begun(s) <= asked[d]
    BY <1>5 DEF AnswerInv, Due
  <2> QED BY <1>1, <2>1 DEF AnswerInv, Due
<1>7. NothingYet'
  BY <1>1 DEF AnswerInv, NothingYet
<1>8. \A i \in DOMAIN sessions' : LET d == owner'[sessions'[i].hsock] IN Follows(sessions'[i], got[d], served[d])
  BY <1>5 DEF AnswerInv
<1> QED BY <1>1, <1>6, <1>7, <1>8 DEF AnswerInv

LEMMA AcceptConnectionAnswers ==
    ASSUME StageInv, AnswerInv, AcceptConnection
    PROVE  AnswerInv'
<1> DEFINE Free == {k \in ConFds : owner[k] = NoClient}
           h == Lowest(Free)
           c == Head(queue)
           n == Len(sessions)
<1>1. /\ at = "loop" /\ pos \in Entries /\ Reads(pos) /\ sockios[pos].onread = "accept"
      /\ owner' = [owner EXCEPT ![h] = c] /\ queue' = Tail(queue)
      /\ sessions' = <<NewSession(h)>> \o sessions
      /\ UNCHANGED <<peer, inbox, asked, got, blocks, served>>
  BY DEF AcceptConnection, AcceptAs, InLoop
<1>2. queue # <<>>
  <2>1. pos \in Used
    BY <1>1, AtEvent
  <2>2. pos = 1
    BY <1>1, <2>1 DEF StageInv, Table
  <2>3. ListenFd \in rdset
    BY <1>1, <2>2 DEF Reads, StageInv, Table
  <2> QED BY <1>1, <2>2, <2>3 DEF StageInv, Events
<1>3. h \in ConFds /\ owner[h] = NoClient
  <2>1. Free # {} /\ Free \in SUBSET Nat
    BY <1>2, FreeDescriptor, Sizes
  <2>2. h \in Free
    BY <2>1, LowestIn
  <2> QED BY <2>2
<1> HIDE DEF h, Free
<1>4. /\ c \in Clients /\ c = queue[1] /\ 1 \in DOMAIN queue
      /\ \A i \in DOMAIN queue' : i + 1 \in DOMAIN queue /\ queue'[i] = queue[i + 1]
  <2>1. queue \in Seq(Clients)
    BY DEF StageInv, Typed, PeopleTyped
  <2> QED BY <1>1, <1>2, <2>1, HeadTailProperties
<1>5. sessions \in Seq(Session) /\ n \in Nat /\ DOMAIN sessions = 1 .. n
  BY Members DEF StageInv, Typed, TablesTyped
<1> HIDE DEF c, n
<1>6. NewSession(h) \in Session /\ NewSession(h).hsock = h
  BY <1>3 DEF NewSession, Session, Stages
<1>7. /\ DOMAIN sessions' = 1 .. n + 1 /\ sessions'[1] = NewSession(h)
      /\ \A i \in 1 .. n + 1 : i # 1 => i - 1 \in DOMAIN sessions /\ sessions'[i] = sessions[i - 1]
  <2> DEFINE first == <<NewSession(h)>>
  <2>1. first \in Seq(Session) /\ Len(first) = 1 /\ first[1] = NewSession(h)
    BY <1>6
  <2> HIDE DEF first
  <2>2. /\ sessions' \in Seq(Session) /\ Len(sessions') = 1 + n
        /\ \A i \in 1 .. 1 + n : sessions'[i] = IF i <= 1 THEN first[i] ELSE sessions[i - 1]
    BY <1>1, <1>5, <2>1, ConcatProperties DEF first, n
  <2> QED BY <1>5, <2>1, <2>2
<1>8. owner'[h] = c /\ \A g \in ConFds : g # h => owner'[g] = owner[g]
  <2>1. owner \in [ConFds -> Clients \cup {NoClient}]
    BY DEF StageInv, Typed, PeopleTyped
  <2> QED BY <1>1, <1>3, <2>1
<1>9. \A j \in DOMAIN sessions : owner'[sessions[j].hsock] = owner[sessions[j].hsock]
  <2>1. \A j \in DOMAIN sessions : sessions[j].hsock \in ConFds /\ sessions[j].hsock # h
    BY <1>3, Served DEF StageInv, OneSession
  <2> QED BY <1>8, <2>1
<1>10. got[c] = <<>> /\ served[c] = <<>>
  BY <1>4 DEF AnswerInv, NothingYet
<1>11. Begun(NewSession(h)) = 0 /\ Follows(NewSession(h), got[c], served[c])
  <2>1. /\ NewSession(h).stage = "CREATE_CON" /\ ~NewSession(h).chunked /\ ~NewSession(h).first
        /\ ~NewSession(h).last
    BY DEF NewSession
  <2>2. Fresh(NewSession(h)) /\ ~Ready(NewSession(h))
    BY <2>1 DEF Fresh, Ready
  <2>3. Between(NewSession(h), 0)
    BY <2>1, <2>2 DEF Between
  <2>4. Len(served[c]) = 0 /\ Whole(got[c]) = 0 /\ Part(got[c]) = 0
    BY <1>10, NothingSent
  <2> QED BY <2>2, <2>3, <2>4 DEF Begun, Follows, AnswersAs
<1>12. Due'
  <2>1. Len(served[c]) + Requests(inbox[c]) + Requests(blocks[h].buf) + Begun(NewSession(h)) <= asked[c]
    <3>1. Requests(blocks[h].buf) = 0
      BY <1>3, NoRequests DEF StageInv, Bytes
    <3>2. Len(served[c]) + Requests(inbox[c]) <= asked[c]
      BY <1>4 DEF AnswerInv, Due
    <3>3. Len(served[c]) \in Nat /\ Requests(inbox[c]) \in Nat /\ asked[c] \in Nat
      BY <1>4, Served
    <3> QED BY <1>11, <3>1, <3>2, <3>3
  <2>2. ASSUME NEW i \in 1 .. n + 1
        PROVE  LET s == sessions'[i]
                   d == owner'[s.hsock]
               IN  Len(served[d]) + Requests(inbox[d]) + Requests(blocks[s.hsock].buf) + Begun(s) <= asked[d]
    <3>1. CASE i = 1
      BY <1>6, <1>7, <1>8, <2>1, <3>1
    <3>2. CASE i # 1
      <4>1. i - 1 \in DOMAIN sessions /\ sessions'[i] = sessions[i - 1]
        BY <1>7, <3>2
      <4>2. owner'[sessions[i - 1].hsock] = owner[sessions[i - 1].hsock]
        BY <1>9, <4>1
      <4> QED BY <4>1, <4>2 DEF AnswerInv, Due
    <3> QED BY <3>1, <3>2
  <2> QED BY <1>1, <1>7, <2>2 DEF AnswerInv, Due
<1>13. NothingYet'
  BY <1>1, <1>4 DEF AnswerInv, NothingYet
<1>14. ASSUME NEW i \in 1 .. n + 1
       PROVE  LET d == owner'[sessions'[i].hsock] IN Follows(sessions'[i], got[d], served[d])
  <2>1. CASE i = 1
    BY <1>6, <1>7, <1>8, <1>11, <2>1
  <2>2. CASE i # 1
    <3>1. i - 1 \in DOMAIN sessions /\ sessions'[i] = sessions[i - 1]
      BY <1>7, <2>2
    <3>2. owner'[sessions[i - 1].hsock] = owner[sessions[i - 1].hsock]
      BY <1>9, <3>1
    <3> QED BY <3>1, <3>2 DEF AnswerInv
  <2> QED BY <2>1, <2>2
<1> QED BY <1>1, <1>7, <1>12, <1>13, <1>14 DEF AnswerInv

-----------------------------------------------------------------------------
(* Every answer fits.                                                      *)

LEMMA InitAnswers ==
    ASSUME Init
    PROVE  AnswerInv
<1>1. /\ asked = [c \in Clients |-> 0] /\ got = [c \in Clients |-> <<>>] /\ served = [c \in Clients |-> <<>>]
      /\ inbox = [c \in Clients |-> <<>>] /\ sessions = <<>>
  BY DEF Init
<1>2. /\ DOMAIN sessions = {}
      /\ \A c \in Clients : asked[c] = 0 /\ got[c] = <<>> /\ served[c] = <<>> /\ inbox[c] = <<>>
  BY <1>1
<1>3. \A c \in Clients : Fits(got[c], served[c])
  <2>1. DOMAIN <<>> = {}
    OBVIOUS
  <2> QED BY <1>2, <2>1 DEF Fits
<1>4. Due
  <2>1. Len(<<>>) = 0
    OBVIOUS
  <2> QED BY <1>2, <2>1, NoRequests DEF Due
<1>5. NothingYet
  BY <1>2 DEF NothingYet
<1> QED BY <1>2, <1>3, <1>4, <1>5 DEF AnswerInv

LEMMA AnswerStep ==
    ASSUME StageInv, AnswerInv, [Next]_vars
    PROVE  AnswerInv'
<1>1. CASE ServerStep
  BY <1>1, SelectAnswers, PeerAnswers, AcceptConnectionAnswers, TakeTokenAnswers, ReceiveMoreAnswers,
     SendResponseAnswers, TerminateAnswers, PassStageAnswers, OpenResourceAnswers, FetchMoreAnswers,
     AlterDataAnswers, AlterMetadataAnswers DEF ServerStep
<1>2. ASSUME NEW c \in Clients, Connect(c) \/ BeginRequest(c) \/ GoOnWithRequest(c) \/ Leave(c)
      PROVE  AnswerInv'
  BY <1>2, PeerAnswers, ClientAnswers
<1>3. CASE UNCHANGED vars
  <2>1. UNCHANGED <<owner, queue, peer, inbox, asked, got, sessions, blocks, served>>
    BY <1>3 DEF vars, world
  <2> QED BY <2>1, AnswersKept
<1> QED BY <1>1, <1>2, <1>3 DEF Next

\* Every client is sent whole answers to what it has asked, in order, with no
\* part twice and none left out, however the sessions interleave in the stages
\* (session_manager::process, http1.1, send_response).
THEOREM AnswersStayFit == Spec => []AnswersFit
<1>1. StageInv /\ AnswerInv => AnswersFit
  <2> SUFFICES ASSUME StageInv, AnswerInv PROVE AnswersFit
    OBVIOUS
  <2>1. ASSUME NEW c \in Clients
        PROVE  Len(served[c]) <= asked[c]
    <3>1. Len(served[c]) \in Nat /\ Requests(inbox[c]) \in Nat /\ asked[c] \in Nat
      BY Served
    <3>2. Len(served[c]) + Requests(inbox[c]) <= asked[c]
      BY DEF AnswerInv, Due
    <3> QED BY <3>1, <3>2
  <2>2. \A c \in Clients : \A k \in DOMAIN got[c] : PartFits(got[c], served[c], k)
    BY DEF AnswerInv, Fits
  <2> QED BY <2>1, <2>2 DEF AnswersFit
<1>2. Init => StageInv /\ AnswerInv
  BY InitStage, InitAnswers
<1>3. StageInv /\ AnswerInv /\ [Next]_vars => (StageInv /\ AnswerInv)'
  BY StageStep, AnswerStep
<1> QED BY <1>1, <1>2, <1>3, PTL DEF Spec
=============================================================================
