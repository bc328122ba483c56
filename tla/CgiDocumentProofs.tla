------------------------- MODULE CgiDocumentProofs --------------------------
(***************************************************************************)
(* Theorems about the documents of CGI programs, for entities, outputs,    *)
(* buffers and pipes of any size.                                          *)
(***************************************************************************)
EXTENDS CgiDocument, Integers, TLAPS, SequenceTheorems

-----------------------------------------------------------------------------
(* The inductive invariant.                                                *)

Items == {Header} \cup (Nat \X Nat)

\* The entity bytes that have got past the connection and were not dropped.
Given == got \o input \o pending

Lists == pending \in Seq(Nat) /\ input \in Seq(Nat) /\ got \in Seq(Nat) /\ answer \in Seq(Items)

\* What is numbered, without the sequences.
Numbered ==
    /\ at \in {"input", "write", "generate", "flush", "ended"}
    /\ length \in 0 .. MaxEntity /\ arrived \in 0 .. length /\ taken \in 0 .. arrived
    /\ Len(pending) <= ReadSize /\ Len(input) <= PipeSize
    /\ written \in 0 .. OutputEnd /\ fetched \in 0 .. written /\ Unread <= PipeSize
    /\ {inHeader, switchesBack, nonblocking, gone} \subseteq BOOLEAN
    /\ cgi \in {"think", "read", "write", "exited"} /\ (cgi = "write" => written < OutputEnd)
    /\ data \in (1 .. OutputEnd + 1) \X (0 .. OutputEnd)

\* Bytes are given in the order they were taken, none that was not taken; only
\* flush_input has bytes of its own, and a descriptor that switches back waits.
EntityInv ==
    /\ \A i \in 1 .. Len(Given) : Given[i] \in 1 .. taken
    /\ Len(Given) <= taken
    /\ EntityInOrder
    /\ at # "write" => pending = <<>>
    /\ switchesBack => ~nonblocking

\* The position behind the last item.
Behind == LET last == answer[Len(answer)] IN IF last = Header THEN Blank + 1 ELSE last[2] + 1

\* While the header is in progress nothing is sent.  Then what was sent and what is
\* about to be sent reach to what was fetched, and the last chunk is the end.
AnswerInv ==
    /\ AnswerIsOutput
    /\ inHeader <=> fetched < Blank
    /\ at # "ended" => (answer = <<>> <=> inHeader)
    /\ at # "ended" /\ ~inHeader => Behind = IF at = "flush" THEN data[1] ELSE fetched + 1
    /\ at = "flush" => ~inHeader /\ data[1] <= data[2] /\ data[2] = fetched
    /\ at = "ended" => cgi = "exited"

DocumentInv == Lists /\ Numbered /\ EntityInv /\ AnswerInv

-----------------------------------------------------------------------------
(* Sequences.                                                              *)

LEMMA Associates == \A s, t, u \in Seq(Nat) : (s \o t) \o u = s \o (t \o u)
  BY ConcatAssociative

LEMMA Concatenated ==
    \A s, t \in Seq(Nat) :
        /\ s \o t \in Seq(Nat) /\ Len(s \o t) = Len(s) + Len(t)
        /\ \A i \in 1 .. Len(s) + Len(t) : (s \o t)[i] = IF i <= Len(s) THEN s[i] ELSE t[i - Len(s)]
  BY ConcatProperties

\* What goes from the front of one sequence to the end of the one before.
LEMMA HandOver ==
    ASSUME NEW S, NEW a \in Seq(S), NEW b \in Seq(S), b # <<>>
    PROVE  /\ Append(a, Head(b)) \in Seq(S) /\ Tail(b) \in Seq(S)
           /\ Len(Append(a, Head(b))) = Len(a) + 1 /\ Len(Tail(b)) = Len(b) - 1
           /\ Append(a, Head(b)) \o Tail(b) = a \o b
<1> DEFINE l == Append(a, Head(b))
           r == Tail(b)
<1>1. Head(b) = b[1] /\ Head(b) \in S /\ Len(b) \in Nat /\ Len(b) >= 1 /\ Len(a) \in Nat
  BY EmptySeq
<1>2. /\ l \in Seq(S) /\ Len(l) = Len(a) + 1 /\ l[Len(a) + 1] = b[1]
      /\ \A k \in 1 .. Len(a) : l[k] = a[k]
  BY <1>1
<1>3. r \in Seq(S) /\ Len(r) = Len(b) - 1 /\ \A k \in 1 .. Len(r) : r[k] = b[k + 1]
  BY HeadTailProperties
<1> HIDE DEF l, r
<1>4. /\ l \o r \in Seq(S) /\ Len(l \o r) = Len(a) + Len(b)
      /\ \A k \in 1 .. Len(a) + Len(b) : (l \o r)[k] = IF k <= Len(l) THEN l[k] ELSE r[k - Len(l)]
  <2>1. Len(l) + Len(r) = Len(a) + Len(b)
    BY <1>1, <1>2, <1>3
  <2>2. /\ l \o r \in Seq(S) /\ Len(l \o r) = Len(l) + Len(r)
        /\ \A k \in 1 .. Len(l) + Len(r) : (l \o r)[k] = IF k <= Len(l) THEN l[k] ELSE r[k - Len(l)]
    BY <1>2, <1>3, ConcatProperties
  <2> QED BY <2>1, <2>2
<1>5. /\ a \o b \in Seq(S) /\ Len(a \o b) = Len(a) + Len(b)
      /\ \A k \in 1 .. Len(a) + Len(b) : (a \o b)[k] = IF k <= Len(a) THEN a[k] ELSE b[k - Len(a)]
  BY ConcatProperties
<1>6. ASSUME NEW k \in 1 .. Len(a) + Len(b)
      PROVE  (l \o r)[k] = (a \o b)[k]
  <2>1. CASE k <= Len(a)
    BY <1>1, <1>2, <1>4, <1>5, <2>1
  <2>2. CASE k = Len(a) + 1
    BY <1>1, <1>2, <1>4, <1>5, <2>2
  <2>3. CASE k > Len(a) + 1
    <3>1. k - Len(l) \in 1 .. Len(r) /\ ~(k <= Len(l)) /\ ~(k <= Len(a)) /\ (k - Len(l)) + 1 = k - Len(a)
      BY <1>1, <1>2, <1>3, <2>3
    <3>2. (l \o r)[k] = r[k - Len(l)] /\ (a \o b)[k] = b[k - Len(a)]
      BY <1>4, <1>5, <3>1
    <3>3. PICK m \in 1 .. Len(r) : m = k - Len(l) /\ m + 1 = k - Len(a)
      BY <3>1
    <3>4. r[m] = b[m + 1]
      BY <1>3
    <3>5. (l \o r)[k] = r[m] /\ (a \o b)[k] = b[m + 1]
      BY <3>2, <3>3, Zenon
    <3> QED BY <3>4, <3>5, Zenon
  <2>4. k <= Len(a) \/ k = Len(a) + 1 \/ k > Len(a) + 1
    BY <1>1
  <2> QED BY <2>1, <2>2, <2>3, <2>4, Zenon
<1>7. l \o r = a \o b
  BY <1>4, <1>5, <1>6, SeqEqual
<1> QED BY <1>2, <1>3, <1>7 DEF l, r

LEMMA GivenParts ==
    ASSUME Lists
    PROVE  /\ Given \in Seq(Nat) /\ got \o input \in Seq(Nat)
           /\ Len(Given) = Len(got) + Len(input) + Len(pending)
           /\ Len(got) \in Nat /\ Len(input) \in Nat /\ Len(pending) \in Nat
           /\ Len(got \o input) = Len(got) + Len(input)
           /\ \A i \in 1 .. Len(Given) :
                  Given[i] = IF i <= Len(got \o input) THEN (got \o input)[i] ELSE pending[i - Len(got \o input)]
           /\ \A i \in 1 .. Len(got \o input) :
                  (got \o input)[i] = IF i <= Len(got) THEN got[i] ELSE input[i - Len(got)]
<1>1. /\ got \in Seq(Nat) /\ input \in Seq(Nat) /\ pending \in Seq(Nat)
      /\ Len(got) \in Nat /\ Len(input) \in Nat /\ Len(pending) \in Nat
  BY DEF Lists
<1>2. /\ got \o input \in Seq(Nat) /\ Len(got \o input) = Len(got) + Len(input)
      /\ \A i \in 1 .. Len(got) + Len(input) :
             (got \o input)[i] = IF i <= Len(got) THEN got[i] ELSE input[i - Len(got)]
  BY <1>1, ConcatProperties
<1> DEFINE base == got \o input
<1>3. base \in Seq(Nat) /\ Given = base \o pending
  BY <1>2 DEF Given
<1> HIDE DEF base
<1>4. /\ Given \in Seq(Nat) /\ Len(Given) = Len(base) + Len(pending)
      /\ \A i \in 1 .. Len(base) + Len(pending) :
             Given[i] = IF i <= Len(base) THEN base[i] ELSE pending[i - Len(base)]
  BY <1>1, <1>3, ConcatProperties
<1> QED BY <1>1, <1>2, <1>4 DEF base

\* The three parts hold nothing but what is given.
LEMMA PartsOfGiven ==
    ASSUME Lists, NEW s \in {pending, input, got}
    PROVE  /\ Len(s) <= Len(Given) /\ Len(s) \in Nat
           /\ \A i \in 1 .. Len(s) : \E j \in 1 .. Len(Given) : s[i] = Given[j]
<1>0. /\ Len(Given) = Len(got) + Len(input) + Len(pending)
      /\ Len(got) \in Nat /\ Len(input) \in Nat /\ Len(pending) \in Nat
      /\ Len(got \o input) = Len(got) + Len(input)
      /\ \A i \in 1 .. Len(Given) :
             Given[i] = IF i <= Len(got \o input) THEN (got \o input)[i] ELSE pending[i - Len(got \o input)]
      /\ \A i \in 1 .. Len(got \o input) :
             (got \o input)[i] = IF i <= Len(got) THEN got[i] ELSE input[i - Len(got)]
  BY GivenParts
<1>1. ASSUME NEW i \in 1 .. Len(got)
      PROVE  i \in 1 .. Len(Given) /\ got[i] = Given[i]
  BY <1>0
<1>2. ASSUME NEW i \in 1 .. Len(input)
      PROVE  Len(got) + i \in 1 .. Len(Given) /\ input[i] = Given[Len(got) + i]
  <2>1. /\ Len(got) + i \in 1 .. Len(got \o input) /\ ~(Len(got) + i <= Len(got))
        /\ (Len(got) + i) - Len(got) = i /\ Len(got) + i \in 1 .. Len(Given)
    BY <1>0
  <2> QED BY <1>0, <2>1
<1>3. ASSUME NEW i \in 1 .. Len(pending)
      PROVE  Len(got \o input) + i \in 1 .. Len(Given) /\ pending[i] = Given[Len(got \o input) + i]
  <2>1. /\ Len(got \o input) + i \in 1 .. Len(Given) /\ ~(Len(got \o input) + i <= Len(got \o input))
        /\ (Len(got \o input) + i) - Len(got \o input) = i
    BY <1>0
  <2> QED BY <1>0, <2>1
<1>4. CASE s = got
  BY <1>0, <1>1, <1>4
<1>5. CASE s = input
  <2>1. \A i \in 1 .. Len(input) : \E j \in 1 .. Len(Given) : input[i] = Given[j]
    BY ONLY <1>2
  <2> QED BY <1>0, <1>5, <2>1
<1>6. CASE s = pending
  <2>1. \A i \in 1 .. Len(pending) : \E j \in 1 .. Len(Given) : pending[i] = Given[j]
    BY ONLY <1>3
  <2> QED BY <1>0, <1>6, <2>1
<1> QED BY <1>4, <1>5, <1>6

-----------------------------------------------------------------------------
(* The entity.                                                             *)

\* Bytes that are handed over stay where they are in what is given.
LEMMA GivenMoves ==
    ASSUME Lists
    PROVE  /\ pending # <<>> => got \o Append(input, Head(pending)) \o Tail(pending) = Given
           /\ input # <<>> => Append(got, Head(input)) \o Tail(input) \o pending = Given
<1>1. got \in Seq(Nat) /\ input \in Seq(Nat) /\ pending \in Seq(Nat)
  BY DEF Lists
<1>2. ASSUME pending # <<>>
      PROVE  got \o Append(input, Head(pending)) \o Tail(pending) = Given
  <2> DEFINE longer == Append(input, Head(pending))
             shorter == Tail(pending)
  <2>1. longer \in Seq(Nat) /\ shorter \in Seq(Nat) /\ longer \o shorter = input \o pending
    BY <1>1, <1>2, HandOver
  <2> HIDE DEF longer, shorter
  <2>2. (got \o longer) \o shorter = got \o (longer \o shorter)
    BY <1>1, <2>1, Associates, Zenon
  <2>3. (got \o input) \o pending = got \o (input \o pending)
    BY <1>1, Associates, Zenon
  <2> QED BY <2>1, <2>2, <2>3, Zenon DEF Given, longer, shorter
<1>3. ASSUME input # <<>>
      PROVE  Append(got, Head(input)) \o Tail(input) \o pending = Given
  <2>1. Append(got, Head(input)) \o Tail(input) = got \o input
    BY <1>1, <1>3, HandOver
  <2> QED BY <2>1, Zenon DEF Given
<1> QED BY <1>2, <1>3

LEMMA Sizes ==
    /\ MaxEntity \in Nat /\ HeaderLines \in Nat /\ BodyBytes \in Nat
    /\ PipeSize \in Nat \ {0} /\ ReadSize \in Nat \ {0}
    /\ Blank \in Nat \ {0} /\ OutputEnd \in Nat /\ Blank <= OutputEnd
  BY DocumentAssumption DEF Blank, OutputEnd

\* Every step but these leaves the entity alone.
EntityStep == ReadEntity \/ GiveByte \/ DropRest \/ CgiReads

LEMMA EntityRests ==
    ASSUME [Next]_vars, ~EntityStep
    PROVE  /\ UNCHANGED <<pending, input, got, taken, length, inSize, switchesBack>>
           /\ at' # "write" => at # "write" \/ pending = <<>>
           /\ cgi = "exited" => cgi' = "exited"
           /\ nonblocking' = nonblocking \/ nonblocking' = ~switchesBack
  BY DEF Next, ServerStep, CgiStep, EntityStep, SkipInput, ReadNothing, EndInput, WouldBlock, Look, Flush,
         EndDocument, CgiChooses, CgiWrites, ClientSends, ClientLeaves, AfterLook, vars, serverVars,
         clientVars, cgiVars, fixedVars

LEMMA EntityRestsInv ==
    ASSUME Numbered, EntityInv, [Next]_vars, ~EntityStep
    PROVE  EntityInv'
<1>1. /\ UNCHANGED <<pending, input, got, taken, length, inSize, switchesBack>>
      /\ at' # "write" => at # "write" \/ pending = <<>>
      /\ cgi = "exited" => cgi' = "exited"
      /\ nonblocking' = nonblocking \/ nonblocking' = ~switchesBack
  BY EntityRests
<1>2. Given' = Given
  BY <1>1 DEF Given
<1>3. /\ \A i \in 1 .. Len(Given') : Given'[i] \in 1 .. taken'
      /\ Len(Given') <= taken'
  BY <1>1, <1>2 DEF EntityInv
<1>4. EntityInOrder'
  BY <1>1, <1>2 DEF EntityInv, EntityInOrder, Given
<1>5. at' # "write" => pending' = <<>>
  BY <1>1 DEF EntityInv
<1>6. switchesBack' => ~nonblocking'
  <2>1. switchesBack \in BOOLEAN /\ nonblocking \in BOOLEAN /\ switchesBack' = switchesBack
    BY <1>1 DEF Numbered
  <2>2. CASE switchesBack = TRUE
    <3>1. nonblocking = FALSE /\ (~switchesBack) = FALSE
      BY <2>1, <2>2 DEF EntityInv
    <3> QED BY <1>1, <3>1
  <2>3. CASE switchesBack = FALSE
    BY <2>1, <2>3
  <2> QED BY <2>1, <2>2, <2>3
<1> QED BY <1>3, <1>4, <1>5, <1>6 DEF EntityInv

\* What the connection gives comes behind what was given.
LEMMA ReadEntityInv ==
    ASSUME Lists, Numbered, EntityInv, ReadEntity
    PROVE  EntityInv' /\ pending' \in Seq(Nat) /\ Len(pending') <= ReadSize
           /\ taken' \in 0 .. arrived
<1>1. PICK n \in AtMost(ReadSize, arrived - taken) :
          pending' = [i \in 1 .. n |-> taken + i] /\ taken' = taken + n
  BY DEF ReadEntity
<1>2. /\ taken \in Nat /\ arrived \in Nat /\ taken <= arrived /\ length \in Nat
      /\ at = "input" /\ at' = "write" /\ pending = <<>>
      /\ UNCHANGED <<input, got, inSize, length, switchesBack, nonblocking, cgi>>
  BY Sizes DEF Numbered, EntityInv, ReadEntity, fixedVars, cgiVars
<1>3. n \in Nat /\ n >= 1 /\ n <= ReadSize /\ taken + n <= arrived
  BY <1>1, <1>2, Sizes DEF AtMost
<1>4. /\ pending' \in Seq(Nat) /\ Len(pending') = n
      /\ \A i \in 1 .. n : pending'[i] = taken + i
  BY <1>1, <1>2, <1>3
<1> DEFINE base == got \o input
<1>5. /\ base \in Seq(Nat) /\ Len(base) \in Nat /\ Len(Given) = Len(base)
      /\ \A i \in 1 .. Len(base) : Given[i] = base[i]
  <2>1. Len(pending) = 0
    BY <1>2
  <2>2. /\ base \in Seq(Nat) /\ Len(base) \in Nat
        /\ Len(Given) = Len(base) + Len(pending)
        /\ \A i \in 1 .. Len(Given) : Given[i] = IF i <= Len(base) THEN base[i] ELSE pending[i - Len(base)]
    BY GivenParts
  <2> HIDE DEF base
  <2> QED BY <2>1, <2>2
<1>6. Given' = base \o pending'
  BY <1>2 DEF Given
<1> HIDE DEF base
<1>7. /\ Len(Given') = Len(base) + n
      /\ \A i \in 1 .. Len(base) + n :
             Given'[i] = IF i <= Len(base) THEN base[i] ELSE pending'[i - Len(base)]
  <2>1. /\ Len(Given') = Len(base) + Len(pending')
        /\ \A i \in 1 .. Len(base) + Len(pending') :
               Given'[i] = IF i <= Len(base) THEN base[i] ELSE pending'[i - Len(base)]
    BY <1>4, <1>5, <1>6, Concatenated, Zenon
  <2> QED BY <1>4, <2>1, Zenon
<1>8. ASSUME NEW i \in 1 .. Len(base)
      PROVE  Given'[i] = Given[i] /\ Given[i] \in 1 .. taken
  BY <1>3, <1>5, <1>7 DEF EntityInv
<1>9. ASSUME NEW i \in 1 .. Len(base) + n, ~(i <= Len(base))
      PROVE  Given'[i] = taken + (i - Len(base)) /\ i - Len(base) \in 1 .. n
  <2>1. i - Len(base) \in 1 .. n
    BY <1>3, <1>5, <1>9
  <2> QED BY <1>4, <1>7, <1>9, <2>1
<1>10. ASSUME NEW i \in 1 .. Len(base) + n
       PROVE  Given'[i] \in 1 .. taken + n
  <2>1. CASE i <= Len(base)
    BY <1>2, <1>3, <1>5, <1>8, <2>1
  <2>2. CASE ~(i <= Len(base))
    BY <1>2, <1>3, <1>5, <1>9, <2>2
  <2> QED BY <2>1, <2>2
<1>11. ASSUME NEW i \in 1 .. Len(base) + n, NEW j \in 1 .. Len(base) + n, i < j
       PROVE  Given'[i] < Given'[j]
  <2>1. CASE j <= Len(base)
    <3>1. i \in 1 .. Len(Given) /\ j \in 1 .. Len(Given)
      BY <1>3, <1>5, <1>11, <2>1
    <3>2. Given[i] < Given[j]
      BY <1>11, <3>1 DEF EntityInv, EntityInOrder, Given
    <3> QED BY <1>5, <1>8, <3>1, <3>2
  <2>2. CASE i <= Len(base) /\ ~(j <= Len(base))
    <3>1. Given'[i] \in 1 .. taken
      BY <1>3, <1>5, <1>8, <2>2
    <3>2. Given'[j] = taken + (j - Len(base)) /\ j - Len(base) >= 1 /\ j - Len(base) \in Int
      BY <1>3, <1>9, <2>2
    <3> QED BY <1>2, <3>1, <3>2
  <2>3. CASE ~(i <= Len(base)) /\ ~(j <= Len(base))
    BY <1>2, <1>3, <1>5, <1>9, <1>11, <2>3
  <2> QED BY <1>3, <1>5, <1>11, <2>1, <2>2, <2>3
<1>12. EntityInOrder'
  <2>1. \A i, j \in 1 .. Len(Given') : i < j => Given'[i] < Given'[j]
    BY <1>7, <1>11
  <2>2. inSize' = length' - taken' + Len(pending')
    <3>1. inSize = length - taken
      BY <1>2 DEF EntityInv, EntityInOrder
    <3> QED BY <1>1, <1>2, <1>3, <1>4, <3>1
  <2>3. switchesBack' /\ cgi' # "exited" => Len(Given') = taken'
    BY <1>1, <1>2, <1>3, <1>5, <1>7 DEF EntityInv, EntityInOrder, Given
  <2> QED BY <2>1, <2>2, <2>3 DEF EntityInOrder, Given
<1> QED BY <1>1, <1>2, <1>3, <1>4, <1>5, <1>7, <1>10, <1>12 DEF EntityInv

LEMMA GiveByteInv ==
    ASSUME Lists, Numbered, EntityInv, GiveByte
    PROVE  /\ EntityInv' /\ Given' = Given
           /\ input' \in Seq(Nat) /\ pending' \in Seq(Nat)
           /\ Len(input') <= PipeSize /\ Len(pending') <= ReadSize
<1>1. /\ at = "write" /\ at' = "write" /\ pending # <<>> /\ Len(input) < PipeSize
      /\ input' = Append(input, Head(pending)) /\ pending' = Tail(pending)
      /\ inSize' = inSize - 1
      /\ UNCHANGED <<got, taken, length, switchesBack, nonblocking, cgi>>
  BY DEF GiveByte, cgiVars, fixedVars
<1>2. /\ input' \in Seq(Nat) /\ pending' \in Seq(Nat)
      /\ Len(input') = Len(input) + 1 /\ Len(pending') = Len(pending) - 1
  BY <1>1, HandOver DEF Lists
<1>3. Given' = Given
  BY <1>1, GivenMoves DEF Given
<1>4. Len(input) \in Nat /\ Len(pending) \in Nat /\ taken \in Nat /\ length \in Nat
  BY Sizes, GivenParts DEF Numbered
<1>5. EntityInOrder'
  <2>1. inSize = length - taken + Len(pending)
    BY DEF EntityInv, EntityInOrder
  <2>2. inSize' = length' - taken' + Len(pending')
    BY <1>1, <1>2, <1>4, <2>1
  <2> QED BY <1>1, <1>3, <2>2 DEF EntityInv, EntityInOrder, Given
<1>6. Len(input') <= PipeSize /\ Len(pending') <= ReadSize
  BY <1>1, <1>2, <1>4, Sizes DEF Numbered
<1> QED BY <1>1, <1>2, <1>3, <1>5, <1>6 DEF EntityInv

\* flush_input drops only for a program that has exited, or on a descriptor that
\* does not switch back.
LEMMA DropRestInv ==
    ASSUME Lists, Numbered, EntityInv, DropRest
    PROVE  EntityInv' /\ pending' \in Seq(Nat) /\ Len(pending') <= ReadSize
<1>1. /\ at = "write" /\ at' = "write" /\ pending' = <<>> /\ inSize' = inSize - Len(pending)
      /\ cgi = "exited" \/ nonblocking
      /\ UNCHANGED <<got, input, taken, length, switchesBack, nonblocking, cgi>>
  BY DEF DropRest, cgiVars, fixedVars
<1>2. /\ Len(pending) \in Nat /\ taken \in Nat /\ length \in Nat
      /\ Len(got \o input) \in Nat /\ Len(Given) = Len(got \o input) + Len(pending)
      /\ \A i \in 1 .. Len(got \o input) : i \in 1 .. Len(Given) /\ Given[i] = (got \o input)[i]
  <2>1. /\ Len(got) \in Nat /\ Len(input) \in Nat /\ Len(pending) \in Nat
        /\ Len(got \o input) = Len(got) + Len(input)
        /\ Len(Given) = Len(got) + Len(input) + Len(pending)
        /\ \A i \in 1 .. Len(Given) :
               Given[i] = IF i <= Len(got \o input) THEN (got \o input)[i] ELSE pending[i - Len(got \o input)]
    BY GivenParts
  <2>2. taken \in Nat /\ length \in Nat
    BY Sizes DEF Numbered
  <2> QED BY <2>1, <2>2
<1>3. Given' = got \o input
  <2>1. got \o input \in Seq(Nat)
    BY GivenParts
  <2>2. (got \o input) \o <<>> = got \o input
    BY <2>1, ConcatEmptySeq, Zenon
  <2> QED BY <1>1, <2>2, Zenon DEF Given
<1>4. EntityInOrder'
  <2>1. \A i, j \in 1 .. Len(Given') : i < j => Given'[i] < Given'[j]
    <3> SUFFICES ASSUME NEW i \in 1 .. Len(got \o input), NEW j \in 1 .. Len(got \o input), i < j
                 PROVE  Given[i] < Given[j]
      BY <1>2, <1>3
    <3> QED BY <1>2 DEF EntityInv, EntityInOrder, Given
  <2>2. inSize' = length' - taken' + Len(pending')
    <3>1. inSize = length - taken + Len(pending)
      BY DEF EntityInv, EntityInOrder
    <3> QED BY <1>1, <1>2, <3>1
  <2>3. ~(switchesBack' /\ cgi' # "exited")
    BY <1>1 DEF EntityInv
  <2> QED BY <2>1, <2>2, <2>3 DEF EntityInOrder, Given
<1>5. /\ \A i \in 1 .. Len(Given') : Given'[i] \in 1 .. taken'
      /\ Len(Given') <= taken'
  BY <1>1, <1>2, <1>3 DEF EntityInv
<1>6. pending' \in Seq(Nat) /\ Len(pending') <= ReadSize
  BY <1>1, Sizes
<1> QED BY <1>1, <1>4, <1>5, <1>6 DEF EntityInv

LEMMA CgiReadsInv ==
    ASSUME Lists, Numbered, EntityInv, CgiReads
    PROVE  /\ EntityInv' /\ Given' = Given
           /\ input' \in Seq(Nat) /\ got' \in Seq(Nat) /\ Len(input') <= PipeSize
<1>1. /\ input # <<>> /\ got' = Append(got, Head(input)) /\ input' = Tail(input)
      /\ UNCHANGED <<at, inSize, pending, taken, length, switchesBack, nonblocking>>
      /\ cgi # "exited"
  BY DEF CgiReads, serverVars, fixedVars
<1>2. got' \in Seq(Nat) /\ input' \in Seq(Nat) /\ Len(input') = Len(input) - 1
  BY <1>1, HandOver DEF Lists
<1>3. Given' = Given
  BY <1>1, GivenMoves DEF Given
<1>4. EntityInOrder'
  BY <1>1, <1>3 DEF EntityInv, EntityInOrder, Given
<1>5. Len(input') <= PipeSize
  BY <1>2, Sizes, GivenParts DEF Numbered
<1> QED BY <1>1, <1>2, <1>3, <1>4, <1>5 DEF EntityInv

-----------------------------------------------------------------------------
(* The answer.                                                             *)

LEMMA ItemsApart == \A p \in Nat \X Nat : p # Header /\ (Empty(p) <=> p[1] > p[2])
  BY DEF Header, Empty

\* An item that is sent comes behind the others.
LEMMA Sent ==
    ASSUME answer \in Seq(Items), NEW x \in Items, answer' = Append(answer, x)
    PROVE  /\ answer' \in Seq(Items) /\ Len(answer) \in Nat
           /\ Len(answer') = Len(answer) + 1
           /\ answer'[Len(answer) + 1] = x
           /\ \A i \in 1 .. Len(answer) : answer'[i] = answer[i]
  OBVIOUS

\* Every step but these leaves the answer alone.
AnswerStep == Look \/ Flush \/ EndDocument \/ CgiWrites

LEMMA AnswerRests ==
    ASSUME [Next]_vars, ~AnswerStep
    PROVE  /\ UNCHANGED <<answer, fetched, written, inHeader, data>>
           /\ at' = "flush" <=> at = "flush"
           /\ at' = "ended" <=> at = "ended"
           /\ cgi = "exited" => cgi' = "exited"
  BY DEF Next, ServerStep, CgiStep, AnswerStep, SkipInput, ReadEntity, ReadNothing, GiveByte, DropRest,
         EndInput, WouldBlock, CgiChooses, CgiReads, ClientSends, ClientLeaves, vars, serverVars,
         clientVars, cgiVars, fixedVars

LEMMA AnswerRestsInv ==
    ASSUME AnswerInv, [Next]_vars, ~AnswerStep
    PROVE  AnswerInv'
<1>1. /\ UNCHANGED <<answer, fetched, written, inHeader, data>>
      /\ at' = "flush" <=> at = "flush"
      /\ at' = "ended" <=> at = "ended"
      /\ cgi = "exited" => cgi' = "exited"
  BY AnswerRests
<1>2. AnswerIsOutput'
  BY <1>1 DEF AnswerInv, AnswerIsOutput
<1>3. Behind' = Behind
  BY <1>1 DEF Behind
<1> QED BY <1>1, <1>2, <1>3 DEF AnswerInv

\* What the program writes is behind everything sent, the header included.
LEMMA CgiWritesInv ==
    ASSUME Numbered, AnswerInv, CgiWrites
    PROVE  AnswerInv'
<1>1. /\ UNCHANGED <<answer, fetched, inHeader, data, at>> /\ written' = written + 1
      /\ cgi = "write" /\ at # "ended"
  BY DEF CgiWrites, serverVars, AnswerInv
<1>2. fetched \in Nat /\ written \in Nat /\ fetched <= written
  BY Sizes DEF Numbered
<1>3. AnswerIsOutput'
  <2>1. Len(answer) > 0 /\ 1 \in 1 .. Len(answer) => answer[1] = Header
    BY <1>1, <1>2, Sizes DEF AnswerInv, AnswerIsOutput
  <2>2. AnswerIsOutput
    BY DEF AnswerInv
  <2> QED BY <1>1, <1>2, <2>1, <2>2 DEF AnswerIsOutput
<1>4. Behind' = Behind
  BY <1>1 DEF Behind
<1> QED BY <1>1, <1>3, <1>4 DEF AnswerInv

LEMMA FlushInv ==
    ASSUME Lists, Numbered, AnswerInv, Flush
    PROVE  AnswerInv' /\ answer' \in Seq(Items)
<1>1. /\ at = "flush" /\ at' = "input" /\ answer' = Append(answer, data)
      /\ UNCHANGED <<inHeader, data, fetched, written>>
  BY DEF Flush, cgiVars
<1>2. /\ fetched \in Nat /\ data \in Nat \X Nat /\ data[1] \in Nat /\ data[2] \in Nat
      /\ data \in Items /\ data # Header /\ ~Empty(data)
      /\ ~inHeader /\ data[2] = fetched
  BY <1>1, Sizes, ItemsApart DEF Numbered, AnswerInv, Items
<1>3. /\ answer' \in Seq(Items) /\ Len(answer) \in Nat /\ Len(answer') = Len(answer) + 1
      /\ answer'[Len(answer) + 1] = data
      /\ \A i \in 1 .. Len(answer) : answer'[i] = answer[i]
  BY <1>1, <1>2, Sent DEF Lists
<1>4. Len(answer) > 0 /\ Behind = data[1]
  BY <1>1, <1>2, <1>3 DEF AnswerInv, Lists
<1>5. AnswerIsOutput'
  <2>1. ASSUME NEW i \in 1 .. Len(answer)
        PROVE  IF answer'[i] = Header THEN i = 1
               ELSE /\ i > 1 => answer'[i][1] = IF answer'[i - 1] = Header THEN Blank + 1 ELSE answer'[i - 1][2] + 1
                    /\ i = 1 => written < Blank
                    /\ ~Empty(answer'[i])
    BY <1>1, <1>3 DEF AnswerInv, AnswerIsOutput
  <2>2. LET last == answer'[Len(answer)]
        IN  data[1] = IF last = Header THEN Blank + 1 ELSE last[2] + 1
    BY <1>3, <1>4 DEF Behind
  <2>3. \A i \in 1 .. Len(answer') : i \in 1 .. Len(answer) \/ i = Len(answer) + 1
    BY <1>3
  <2> QED BY <1>1, <1>2, <1>3, <1>4, <2>1, <2>2, <2>3 DEF AnswerIsOutput
<1>6. Behind' = fetched + 1
  BY <1>2, <1>3 DEF Behind
<1>7. answer' # <<>>
  BY <1>3
<1> QED BY <1>1, <1>2, <1>3, <1>5, <1>6, <1>7 DEF AnswerInv

\* The last chunk, the only empty one.
LEMMA EndDocumentInv ==
    ASSUME Lists, Numbered, AnswerInv, EndDocument
    PROVE  AnswerInv' /\ answer' \in Seq(Items)
<1> DEFINE item == <<fetched + 1, fetched>>
<1>1. /\ at = "generate" /\ at' = "ended" /\ answer' = Append(answer, item)
      /\ UNCHANGED <<inHeader, fetched, written, cgi>> /\ cgi = "exited" /\ Unread = 0
  BY DEF EndDocument, cgiVars
<1>2. /\ fetched \in Nat /\ written = fetched /\ item \in Nat \X Nat
      /\ item[1] = fetched + 1 /\ item[2] = fetched
  BY <1>1, Sizes DEF Numbered, Unread
<1> HIDE DEF item
<1>3. item \in Items /\ item # Header /\ Empty(item)
  BY <1>2, ItemsApart DEF Items
<1>4. /\ answer' \in Seq(Items) /\ Len(answer) \in Nat /\ Len(answer') = Len(answer) + 1
      /\ answer'[Len(answer) + 1] = item
      /\ \A i \in 1 .. Len(answer) : answer'[i] = answer[i]
  BY <1>1, <1>3, Sent DEF Lists
<1>5. AnswerIsOutput'
  <2>1. ASSUME NEW i \in 1 .. Len(answer)
        PROVE  IF answer'[i] = Header THEN i = 1
               ELSE /\ i > 1 => answer'[i][1] = IF answer'[i - 1] = Header THEN Blank + 1 ELSE answer'[i - 1][2] + 1
                    /\ i = 1 => written < Blank
                    /\ ~Empty(answer'[i])
    BY <1>1, <1>4 DEF AnswerInv, AnswerIsOutput
  <2>2. CASE inHeader
    <3>1. Len(answer) = 0 /\ written < Blank
      BY <1>1, <1>2, <2>2 DEF AnswerInv, Lists
    <3> QED BY <1>1, <1>2, <1>3, <1>4, <3>1 DEF AnswerIsOutput
  <2>3. CASE ~inHeader
    <3>1. Len(answer) > 0 /\ Behind = fetched + 1
      BY <1>1, <1>4, <2>3 DEF AnswerInv, Lists
    <3>2. LET last == answer'[Len(answer)]
          IN  item[1] = IF last = Header THEN Blank + 1 ELSE last[2] + 1
      BY <1>2, <1>4, <3>1 DEF Behind
    <3>3. \A i \in 1 .. Len(answer') : i \in 1 .. Len(answer) \/ i = Len(answer) + 1
      BY <1>4
    <3> QED BY <1>1, <1>2, <1>3, <1>4, <2>1, <3>1, <3>2, <3>3 DEF AnswerIsOutput
  <2> QED BY <2>2, <2>3
<1> QED BY <1>1, <1>4, <1>5 DEF AnswerInv

\* Of a header in progress the blank line is the end, whatever comes with it.
LEMMA LookInv ==
    ASSUME Lists, Numbered, AnswerInv, Look
    PROVE  /\ AnswerInv' /\ answer' \in Seq(Items)
           /\ fetched' \in fetched .. written /\ inHeader' \in BOOLEAN
           /\ data' \in (1 .. OutputEnd + 1) \X (0 .. OutputEnd)
<1>1. PICK n \in AtMost(ReadSize, Unread) :
          LET last      == fetched + n
              first     == IF inHeader THEN Blank + 1 ELSE fetched + 1
              completes == inHeader /\ Blank <= last
          IN  /\ fetched' = last
              /\ inHeader' = (inHeader /\ ~completes)
              /\ answer' = IF completes THEN Append(answer, Header) ELSE answer
              /\ IF first <= last THEN at' = "flush" /\ data' = <<first, last>>
                                  ELSE at' = "input" /\ UNCHANGED data
  BY DEF Look
<1>2. /\ at = "generate" /\ UNCHANGED <<written, cgi>>
      /\ fetched \in Nat /\ written \in Nat /\ fetched <= written /\ written <= OutputEnd
      /\ Unread \in Nat /\ Unread = written - fetched /\ inHeader \in BOOLEAN
  BY Sizes DEF Look, cgiVars, Numbered, Unread
<1>3. n \in Nat /\ n >= 1 /\ fetched + n <= written
  BY <1>2, Sizes DEF AtMost
<1>4. (inHeader <=> fetched < Blank) /\ (answer = <<>> <=> inHeader) /\ AnswerIsOutput
  BY <1>2 DEF AnswerInv
<1>8. inHeader' \in BOOLEAN
  <2>1. inHeader' = (inHeader /\ ~(inHeader /\ Blank <= fetched + n))
    BY <1>1
  <2>2. CASE inHeader /\ ~(inHeader /\ Blank <= fetched + n)
    BY <2>1, <2>2, Zenon
  <2>3. CASE ~(inHeader /\ ~(inHeader /\ Blank <= fetched + n))
    BY <2>1, <2>3, Zenon
  <2> QED BY <2>2, <2>3, Zenon
<1>5. CASE ~inHeader
  <2>1. /\ fetched' = fetched + n /\ ~inHeader' /\ answer' = answer
        /\ at' = "flush" /\ data' = <<fetched + 1, fetched + n>>
    BY <1>1, <1>2, <1>3, <1>5
  <2>2. Behind' = fetched + 1
    BY <1>2, <1>5, <2>1 DEF AnswerInv, Behind
  <2>3. AnswerIsOutput'
    BY <1>2, <1>4, <2>1 DEF AnswerIsOutput
  <2>4. AnswerInv'
    BY <1>2, <1>3, <1>4, <1>5, <2>1, <2>2, <2>3, Sizes DEF AnswerInv
  <2> QED BY <1>2, <1>3, <1>8, <2>1, <2>4, Sizes DEF Lists
<1>6. CASE inHeader /\ fetched + n < Blank
  <2>1. /\ fetched' = fetched + n /\ inHeader' /\ answer' = answer
        /\ at' = "input" /\ data' = data
    <3>1. ~(Blank <= fetched + n) /\ ~(Blank + 1 <= fetched + n)
      BY <1>2, <1>3, <1>6, Sizes
    <3>2. inHeader /\ inHeader' /\ fetched' = fetched + n
      BY <1>1, <1>6, <3>1
    <3> QED BY <1>1, <1>6, <3>1, <3>2
  <2>2. AnswerIsOutput'
    BY <1>2, <1>4, <2>1 DEF AnswerIsOutput
  <2>3. AnswerInv'
    BY <1>4, <1>6, <2>1, <2>2 DEF AnswerInv
  <2> QED BY <1>2, <1>3, <1>8, <2>1, <2>3, Sizes DEF Lists, Numbered
<1>7. CASE inHeader /\ ~(fetched + n < Blank)
  <2>1. /\ fetched' = fetched + n /\ ~inHeader' /\ answer' = <<Header>>
        /\ Blank <= fetched + n
    <3>1. Blank <= fetched + n /\ inHeader
      BY <1>2, <1>3, <1>7, Sizes
    <3>2. ~inHeader' /\ fetched' = fetched + n /\ answer' = Append(answer, Header)
      BY <1>1, <3>1
    <3>3. answer = <<>>
      BY <1>4, <3>1
    <3> QED BY <3>1, <3>2, <3>3
  <2>2. IF Blank + 1 <= fetched + n THEN at' = "flush" /\ data' = <<Blank + 1, fetched + n>>
                                    ELSE at' = "input" /\ data' = data
    BY <1>1, <1>7
  <2>3. Len(answer') = 1 /\ answer'[1] = Header /\ answer' # <<>>
    BY <2>1
  <2>4. AnswerIsOutput'
    BY <2>2, <2>3 DEF AnswerIsOutput
  <2>5. Behind' = Blank + 1
    BY <2>3 DEF Behind
  <2>6. AnswerInv'
    BY <1>2, <1>3, <2>1, <2>2, <2>3, <2>4, <2>5, Sizes DEF AnswerInv
  <2>7. answer' \in Seq(Items)
    BY <2>1 DEF Items
  <2>8. data' \in (1 .. OutputEnd + 1) \X (0 .. OutputEnd)
    BY <1>2, <1>3, <2>2, Sizes DEF Numbered
  <2> QED BY <1>2, <1>3, <1>8, <2>1, <2>6, <2>7, <2>8
<1> QED BY <1>2, <1>5, <1>6, <1>7

-----------------------------------------------------------------------------
(* The invariant.                                                          *)

LEMMA InitDocument == Init => DocumentInv
<1> SUFFICES ASSUME Init
             PROVE  DocumentInv
  OBVIOUS
<1>1. /\ at = "input" /\ pending = <<>> /\ data = <<1, 0>> /\ answer = <<>>
      /\ length \in 0 .. MaxEntity /\ inSize = length /\ inHeader = TRUE
      /\ switchesBack \in BOOLEAN /\ nonblocking = FALSE
      /\ taken = 0 /\ arrived = 0 /\ gone = FALSE
      /\ input = <<>> /\ written = 0 /\ fetched = 0 /\ cgi = "think" /\ got = <<>>
  BY DEF Init
<1>2. Lists
  BY <1>1 DEF Lists
<1>3. Numbered
  <2>1. Len(pending) = 0 /\ Len(input) = 0 /\ Unread = 0
    BY <1>1 DEF Unread
  <2>2. data \in (1 .. OutputEnd + 1) \X (0 .. OutputEnd)
    BY <1>1, Sizes
  <2>3. {inHeader, switchesBack, nonblocking, gone} \subseteq BOOLEAN
    BY <1>1
  <2>4. arrived \in 0 .. length /\ taken \in 0 .. arrived /\ written \in 0 .. OutputEnd /\ fetched \in 0 .. written
    BY <1>1, Sizes
  <2> QED BY <1>1, <2>1, <2>2, <2>3, <2>4, Sizes DEF Numbered
<1>4. EntityInv
  <2>1. Len(got \o input \o pending) = 0
    BY <1>1
  <2> QED BY <1>1, <2>1, Sizes DEF EntityInv, EntityInOrder, Given
<1>5. AnswerInv
  BY <1>1, Sizes DEF AnswerInv, AnswerIsOutput
<1> QED BY <1>2, <1>3, <1>4, <1>5 DEF DocumentInv

LEMMA EntityHolds ==
    ASSUME Lists, Numbered, EntityInv, [Next]_vars
    PROVE  /\ EntityInv'
           /\ pending' \in Seq(Nat) /\ input' \in Seq(Nat) /\ got' \in Seq(Nat)
           /\ Len(pending') <= ReadSize /\ Len(input') <= PipeSize
<1>1. /\ pending \in Seq(Nat) /\ input \in Seq(Nat) /\ got \in Seq(Nat)
      /\ Len(pending) <= ReadSize /\ Len(input) <= PipeSize
  BY DEF Lists, Numbered
<1>2. CASE ReadEntity
  BY <1>1, <1>2, ReadEntityInv DEF ReadEntity, cgiVars
<1>3. CASE GiveByte
  BY <1>1, <1>3, GiveByteInv DEF GiveByte, cgiVars
<1>4. CASE DropRest
  BY <1>1, <1>4, DropRestInv DEF DropRest, cgiVars
<1>5. CASE CgiReads
  BY <1>1, <1>5, CgiReadsInv DEF CgiReads, serverVars
<1>6. CASE ~EntityStep
  BY <1>1, <1>6, EntityRests, EntityRestsInv
<1> QED BY <1>2, <1>3, <1>4, <1>5, <1>6 DEF EntityStep

LEMMA AnswerHolds ==
    ASSUME Lists, Numbered, AnswerInv, [Next]_vars
    PROVE  AnswerInv' /\ answer' \in Seq(Items)
<1>1. CASE Look
  BY <1>1, LookInv
<1>2. CASE Flush
  BY <1>2, FlushInv
<1>3. CASE EndDocument
  BY <1>3, EndDocumentInv
<1>4. CASE CgiWrites
  BY <1>4, CgiWritesInv DEF CgiWrites, serverVars, Lists
<1>5. CASE ~AnswerStep
  BY <1>5, AnswerRests, AnswerRestsInv DEF Lists
<1> QED BY <1>1, <1>2, <1>3, <1>4, <1>5 DEF AnswerStep

LEMMA NumbersHold ==
    ASSUME Lists, Numbered, AnswerInv, [Next]_vars,
           Len(pending') <= ReadSize, Len(input') <= PipeSize, taken' \in 0 .. arrived
    PROVE  Numbered'
<1>0. /\ at \in {"input", "write", "generate", "flush", "ended"}
      /\ length \in 0 .. MaxEntity /\ arrived \in 0 .. length /\ taken \in 0 .. arrived
      /\ written \in 0 .. OutputEnd /\ fetched \in 0 .. written /\ written - fetched <= PipeSize
      /\ inHeader \in BOOLEAN /\ switchesBack \in BOOLEAN /\ nonblocking \in BOOLEAN /\ gone \in BOOLEAN
      /\ cgi \in {"think", "read", "write", "exited"} /\ (cgi = "write" => written < OutputEnd)
      /\ data \in (1 .. OutputEnd + 1) \X (0 .. OutputEnd)
  BY DEF Numbered, Unread
<1>1. switchesBack' = switchesBack /\ length' = length
  BY DEF Next, ServerStep, CgiStep, SkipInput, ReadEntity, ReadNothing, GiveByte, DropRest, EndInput,
         WouldBlock, Look, Flush, EndDocument, CgiChooses, CgiReads, CgiWrites, ClientSends, ClientLeaves,
         vars, fixedVars
<1>2. at' \in {"input", "write", "generate", "flush", "ended"}
  BY <1>0 DEF Next, ServerStep, CgiStep, SkipInput, ReadEntity, ReadNothing, GiveByte, DropRest, EndInput,
         WouldBlock, Look, Flush, EndDocument, CgiChooses, CgiReads, CgiWrites, ClientSends, ClientLeaves,
         vars, serverVars
<1>3. nonblocking' \in BOOLEAN
  BY <1>0 DEF Next, ServerStep, CgiStep, SkipInput, ReadEntity, ReadNothing, GiveByte, DropRest, EndInput,
         WouldBlock, Look, Flush, EndDocument, CgiChooses, CgiReads, CgiWrites, ClientSends, ClientLeaves,
         AfterLook, vars, serverVars
<1>4. /\ arrived' \in 0 .. length /\ arrived <= arrived' /\ gone' \in BOOLEAN
  <2>1. /\ arrived' = arrived \/ (arrived' = arrived + 1 /\ arrived < length)
        /\ gone' = gone \/ gone' = TRUE
    BY DEF Next, ServerStep, CgiStep, SkipInput, ReadEntity, ReadNothing, GiveByte, DropRest, EndInput,
           WouldBlock, Look, Flush, EndDocument, CgiChooses, CgiReads, CgiWrites, ClientSends, ClientLeaves,
           vars, clientVars
  <2>2. length \in Nat /\ arrived \in Nat /\ arrived <= length
    BY <1>0, Sizes
  <2>3. gone' \in BOOLEAN
    BY <1>0, <2>1
  <2>4. arrived' \in 0 .. length /\ arrived <= arrived'
    BY <2>1, <2>2
  <2> QED BY <2>3, <2>4
<1>5. /\ cgi' \in {"think", "read", "write", "exited"} /\ (cgi' = "write" => written' < OutputEnd)
      /\ written' \in 0 .. OutputEnd /\ written <= written'
      /\ fetched' \in 0 .. written' /\ written' - fetched' <= PipeSize
      /\ inHeader' \in BOOLEAN /\ data' \in (1 .. OutputEnd + 1) \X (0 .. OutputEnd)
  <2>0. written \in Nat /\ fetched \in Nat /\ PipeSize \in Nat /\ OutputEnd \in Nat
    BY <1>0, Sizes
  <2>1. CASE CgiWrites
    <3>1. /\ written' = written + 1 /\ written - fetched < PipeSize /\ cgi' = "think"
          /\ UNCHANGED <<fetched, inHeader, data>>
      BY <2>1 DEF CgiWrites, Unread, serverVars
    <3>2. written + 1 <= OutputEnd
      BY <1>0, <2>0, <2>1 DEF CgiWrites
    <3> QED BY <1>0, <2>0, <3>1, <3>2
  <2>2. CASE Look
    BY <1>0, <2>0, <2>2, LookInv DEF Look, cgiVars
  <2>3. CASE ~CgiWrites /\ ~Look
    <3>1. /\ UNCHANGED <<written, fetched, inHeader, data>>
          /\ cgi' \in {cgi, "think", "read", "write", "exited"}
          /\ cgi' = "write" => cgi = "write" \/ written < OutputEnd
      BY <2>3 DEF Next, ServerStep, CgiStep, SkipInput, ReadEntity, ReadNothing, GiveByte, DropRest, EndInput,
             WouldBlock, Flush, EndDocument, CgiChooses, CgiReads, ClientSends, ClientLeaves,
             vars, serverVars, cgiVars
    <3> QED BY <1>0, <2>0, <3>1
  <2> QED BY <2>1, <2>2, <2>3
<1>6. taken' \in 0 .. arrived'
  <2>1. arrived \in Nat /\ arrived' \in Nat
    BY <1>0, <1>4, Sizes
  <2> QED BY <1>4, <2>1
<1> QED BY <1>0, <1>1, <1>2, <1>3, <1>4, <1>5, <1>6 DEF Numbered, Unread

LEMMA StepDocument == DocumentInv /\ [Next]_vars => DocumentInv'
<1> SUFFICES ASSUME Lists, Numbered, EntityInv, AnswerInv, [Next]_vars
             PROVE  DocumentInv'
  BY DEF DocumentInv
<1>1. /\ EntityInv'
      /\ pending' \in Seq(Nat) /\ input' \in Seq(Nat) /\ got' \in Seq(Nat)
      /\ Len(pending') <= ReadSize /\ Len(input') <= PipeSize
  BY EntityHolds
<1>2. AnswerInv' /\ answer' \in Seq(Items)
  BY AnswerHolds
<1>3. taken' \in 0 .. arrived
  <2>1. CASE ReadEntity
    BY <2>1, ReadEntityInv
  <2>2. CASE ~ReadEntity
    BY <2>2 DEF Numbered, Next, ServerStep, CgiStep, SkipInput, ReadNothing, GiveByte, DropRest, EndInput,
           WouldBlock, Look, Flush, EndDocument, CgiChooses, CgiReads, CgiWrites, ClientSends, ClientLeaves,
           vars, serverVars
  <2> QED BY <2>1, <2>2
<1>4. Numbered'
  BY <1>1, <1>3, NumbersHold
<1>5. Lists'
  BY <1>1, <1>2 DEF Lists
<1> QED BY <1>1, <1>2, <1>4, <1>5 DEF DocumentInv

THEOREM DocumentInvariant == Spec => []DocumentInv
  BY InitDocument, StepDocument, PTL DEF Spec

\* What is still to be given is what has not been taken and what flush_input holds.
LEMMA InvTyped == DocumentInv => DocumentTypeOK
<1> SUFFICES ASSUME Lists, Numbered, EntityInv
             PROVE  DocumentTypeOK
  BY DEF DocumentInv
<1>1. /\ length \in Nat /\ taken \in Nat /\ taken <= length
      /\ Len(Given) \in Nat /\ Len(Given) <= taken
      /\ inSize = length - taken + Len(pending)
      /\ \A i \in 1 .. Len(Given) : Given[i] \in 1 .. length
  <2>1. /\ length \in Nat /\ taken \in Nat /\ taken <= length
    BY Sizes DEF Numbered
  <2>2. Len(Given) \in Nat
    BY GivenParts
  <2>3. \A i \in 1 .. Len(Given) : Given[i] \in 1 .. length
    BY <2>1 DEF EntityInv
  <2> QED BY <2>1, <2>2, <2>3 DEF EntityInv, EntityInOrder
<1>2. ASSUME NEW s \in {pending, input, got}
      PROVE  Len(s) <= length /\ \A i \in 1 .. Len(s) : s[i] \in 1 .. length
  <2>1. /\ Len(s) <= Len(Given) /\ Len(s) \in Nat
        /\ \A i \in 1 .. Len(s) : \E j \in 1 .. Len(Given) : s[i] = Given[j]
    BY PartsOfGiven
  <2> QED BY <1>1, <2>1
<1>3. inSize \in 0 .. length
  <2>1. Len(pending) \in Nat /\ Len(pending) <= Len(Given)
    BY PartsOfGiven
  <2> QED BY <1>1, <2>1
<1>4. \A s \in {pending, input, got} : Len(s) <= length /\ \A i \in 1 .. Len(s) : s[i] \in 1 .. length
  BY <1>2
<1> QED BY <1>3, <1>4 DEF Numbered, DocumentTypeOK

-----------------------------------------------------------------------------
(* The theorems.                                                           *)

\* The variables of GenerateDocument, of the process resource and of the socket
\* pair keep their ranges: in_size is never below zero, so that flush_input never
\* finds more bytes in its buffer than it still had to give; buf_input is not
\* overrun, and neither direction of the pair holds more than it can.
THEOREM DocumentTypeCorrect == Spec => []DocumentTypeOK
  BY DocumentInvariant, InvTyped, PTL

\* Whatever the lengths of the entity and of the buffers, the program reads the
\* client's bytes in the order they were sent and none twice, and in_size counts
\* what is still to come; none is missing while the program reads and the
\* descriptor can be made blocking again.
THEOREM EntityStaysInOrder == Spec => []EntityInOrder
<1>1. DocumentInv => EntityInOrder
  BY DEF DocumentInv, EntityInv
<1> QED BY <1>1, DocumentInvariant, PTL

\* Whatever the lengths of the header and of the body and however the output is
\* cut by the reads, the client's answer is the header once and then the body in
\* chunks that follow one another, none of them empty but the last.
THEOREM AnswerStaysOutput == Spec => []AnswerIsOutput
<1>1. DocumentInv => AnswerIsOutput
  BY DEF DocumentInv, AnswerInv
<1> QED BY <1>1, DocumentInvariant, PTL
=============================================================================
