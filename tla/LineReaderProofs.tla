-------------------------- MODULE LineReaderProofs --------------------------
(***************************************************************************)
(* Theorem about the line reader: it keeps the promise of LineStream for   *)
(* any bytes, whatever follows its buffers in memory, in any number and    *)
(* size of pieces.                                                         *)
(***************************************************************************)
EXTENDS LineReader, SequenceTheorems, WellFoundedInduction, TLAPS

-----------------------------------------------------------------------------
(* The inductive invariant.                                                *)

Typed ==
    /\ m_line \in Seq(Bytes) /\ m_buf \in Seq(Bytes) /\ received \in Seq(Bytes)
    /\ thrown \in BOOLEAN

\* How many bytes were handed out.
Cut == Len(received) - Len(m_line) - Len(m_buf)

\* Unless the buffer threw, what was received and not handed out is m_line and
\* m_buf together; m_line is begun only when m_buf is empty, and has no end.
Kept ==
    /\ Cut \in Nat /\ Stream!Rest(received, Cut) = m_line \o m_buf
    /\ ~Stream!HasLine(m_line)
    /\ m_line # <<>> => m_buf = <<>>

ReaderInv == Typed /\ (~thrown => Kept)

-----------------------------------------------------------------------------
(* Sequences.                                                              *)

LEMMA RestIs ==
    ASSUME NEW S, NEW s \in Seq(S), NEW n \in 0 .. Len(s)
    PROVE  /\ Stream!Rest(s, n) \in Seq(S) /\ Len(Stream!Rest(s, n)) = Len(s) - n
           /\ \A i \in 1 .. Len(s) - n : Stream!Rest(s, n)[i] = s[n + i]
<1> DEFINE r == SubSeq(s, n + 1, Len(s))
<1>1. Len(s) \in Nat /\ n \in Nat /\ n <= Len(s)
  BY LenProperties
<1>2. \A i \in n + 1 .. Len(s) : s[i] \in S
  BY <1>1, ElementOfSeq
<1>3. /\ r \in Seq(S) /\ Len(r) = IF n + 1 <= Len(s) THEN Len(s) - (n + 1) + 1 ELSE 0
      /\ \A i \in 1 .. Len(s) - (n + 1) + 1 : r[i] = s[(n + 1) + i - 1]
  BY <1>1, <1>2, SubSeqProperties
<1>4. Len(r) = Len(s) - n
  BY <1>1, <1>3
<1>5. \A i \in 1 .. Len(s) - n : r[i] = s[n + i]
  BY <1>1, <1>3
<1> QED BY <1>3, <1>4, <1>5 DEF Stream!Rest

LEMMA StartIs ==
    ASSUME NEW S, NEW s \in Seq(S), NEW n \in 0 .. Len(s)
    PROVE  /\ SubSeq(s, 1, n) \in Seq(S) /\ Len(SubSeq(s, 1, n)) = n
           /\ \A i \in 1 .. n : SubSeq(s, 1, n)[i] = s[i]
<1>1. Len(s) \in Nat /\ n \in Nat /\ n <= Len(s)
  BY LenProperties
<1>2. \A i \in 1 .. n : s[i] \in S
  BY <1>1, ElementOfSeq
<1>3. /\ SubSeq(s, 1, n) \in Seq(S) /\ Len(SubSeq(s, 1, n)) = IF 1 <= n THEN n - 1 + 1 ELSE 0
      /\ \A i \in 1 .. n - 1 + 1 : SubSeq(s, 1, n)[i] = s[1 + i - 1]
  BY <1>1, <1>2, SubSeqProperties
<1> QED BY <1>1, <1>3

LEMMA RestOfConcat ==
    ASSUME NEW S, NEW s \in Seq(S), NEW t \in Seq(S), NEW n \in 0 .. Len(s)
    PROVE  Stream!Rest(s \o t, n) = Stream!Rest(s, n) \o t
<1>1. Len(s) \in Nat /\ Len(t) \in Nat /\ n \in Nat /\ n <= Len(s)
  BY LenProperties
<1>2. /\ s \o t \in Seq(S) /\ Len(s \o t) = Len(s) + Len(t)
      /\ \A i \in 1 .. Len(s) + Len(t) : (s \o t)[i] = IF i <= Len(s) THEN s[i] ELSE t[i - Len(s)]
  BY ConcatProperties
<1> DEFINE st == s \o t
           l == Stream!Rest(st, n)
           a == Stream!Rest(s, n)
           r == a \o t
<1> HIDE DEF st
<1>3. st \in Seq(S) /\ n \in 0 .. Len(st) /\ Len(st) - n = Len(s) + Len(t) - n
  BY <1>1, <1>2 DEF st
<1>4. /\ l \in Seq(S) /\ Len(l) = Len(s) + Len(t) - n
      /\ \A i \in 1 .. Len(s) + Len(t) - n : l[i] = st[n + i]
  <2>1. l \in Seq(S) /\ Len(l) = Len(st) - n /\ \A i \in 1 .. Len(st) - n : l[i] = st[n + i]
    BY <1>3, RestIs
  <2> QED BY <1>3, <2>1
<1>5. a \in Seq(S) /\ Len(a) = Len(s) - n /\ \A i \in 1 .. Len(s) - n : a[i] = s[n + i]
  BY RestIs
<1> HIDE DEF l, a
<1>6. /\ r \in Seq(S) /\ Len(r) = Len(a) + Len(t)
      /\ \A i \in 1 .. Len(a) + Len(t) : r[i] = IF i <= Len(a) THEN a[i] ELSE t[i - Len(a)]
  BY <1>5, ConcatProperties
<1> HIDE DEF r
<1>7. Len(l) = Len(r)
  BY <1>1, <1>4, <1>5, <1>6
<1>8. ASSUME NEW i \in 1 .. Len(l) PROVE l[i] = r[i]
  <2>1. i \in Nat /\ i >= 1 /\ i <= Len(s) + Len(t) - n /\ n + i \in 1 .. Len(s) + Len(t)
    BY <1>1, <1>4
  <2>2. l[i] = IF n + i <= Len(s) THEN s[n + i] ELSE t[(n + i) - Len(s)]
    BY <1>2, <1>4, <2>1 DEF st
  <2>3. r[i] = IF i <= Len(s) - n THEN s[n + i] ELSE t[i - (Len(s) - n)]
    <3>1. i \in 1 .. Len(a) + Len(t)
      BY <1>1, <1>5, <2>1
    <3>2. r[i] = IF i <= Len(a) THEN a[i] ELSE t[i - Len(a)]
      BY <1>6, <3>1
    <3>3. i <= Len(s) - n => a[i] = s[n + i]
      BY <1>1, <1>5, <2>1
    <3> QED BY <1>5, <3>2, <3>3
  <2>4. (n + i <= Len(s) <=> i <= Len(s) - n) /\ (n + i) - Len(s) = i - (Len(s) - n)
    BY <1>1, <2>1
  <2> QED BY <2>2, <2>3, <2>4
<1> QED BY <1>4, <1>6, <1>7, <1>8, SeqEqual DEF l, r, a, st

LEMMA RestOfRest ==
    ASSUME NEW S, NEW s \in Seq(S), NEW n \in 0 .. Len(s), NEW m \in 0 .. Len(s) - n
    PROVE  Stream!Rest(Stream!Rest(s, n), m) = Stream!Rest(s, n + m)
<1> DEFINE a == Stream!Rest(s, n)
           l == Stream!Rest(a, m)
           r == Stream!Rest(s, n + m)
<1>1. Len(s) \in Nat /\ n \in Nat /\ m \in Nat /\ n + m \in 0 .. Len(s)
  BY LenProperties
<1>2. a \in Seq(S) /\ Len(a) = Len(s) - n /\ \A i \in 1 .. Len(s) - n : a[i] = s[n + i]
  BY RestIs
<1>3. /\ r \in Seq(S) /\ Len(r) = Len(s) - (n + m)
      /\ \A i \in 1 .. Len(s) - (n + m) : r[i] = s[(n + m) + i]
  BY <1>1, RestIs
<1> HIDE DEF a
<1>4. l \in Seq(S) /\ Len(l) = Len(a) - m /\ \A i \in 1 .. Len(a) - m : l[i] = a[m + i]
  <2>1. m \in 0 .. Len(a)
    BY <1>2
  <2> QED BY <1>2, <2>1, RestIs
<1> HIDE DEF l, r
<1>5. ASSUME NEW i \in 1 .. Len(l) PROVE l[i] = r[i]
  <2>1. l[i] = a[m + i] /\ m + i \in 1 .. Len(s) - n /\ i \in 1 .. Len(s) - (n + m)
    BY <1>1, <1>2, <1>4
  <2>2. a[m + i] = s[n + (m + i)] /\ r[i] = s[(n + m) + i] /\ n + (m + i) = (n + m) + i
    BY <1>1, <1>2, <1>3, <2>1
  <2> QED BY <2>1, <2>2
<1>6. Len(l) = Len(r)
  BY <1>1, <1>2, <1>3, <1>4
<1> QED BY <1>3, <1>4, <1>5, <1>6, SeqEqual DEF a, l, r

\* The beginning and the rest of a concatenation, cut in its second part.
LEMMA StartOfConcat ==
    ASSUME NEW S, NEW s \in Seq(S), NEW t \in Seq(S), NEW n \in 0 .. Len(t)
    PROVE  SubSeq(s \o t, 1, Len(s) + n) = s \o SubSeq(t, 1, n)
<1>1. Len(s) \in Nat /\ Len(t) \in Nat /\ n \in Nat /\ n <= Len(t)
  BY LenProperties
<1>2. /\ s \o t \in Seq(S) /\ Len(s \o t) = Len(s) + Len(t)
      /\ \A i \in 1 .. Len(s) + Len(t) : (s \o t)[i] = IF i <= Len(s) THEN s[i] ELSE t[i - Len(s)]
  BY ConcatProperties
<1> DEFINE l == SubSeq(s \o t, 1, Len(s) + n)
           a == SubSeq(t, 1, n)
           r == s \o a
<1>3. Len(s) + n \in 0 .. Len(s \o t)
  BY <1>1, <1>2
<1>4. l \in Seq(S) /\ Len(l) = Len(s) + n /\ \A i \in 1 .. Len(s) + n : l[i] = (s \o t)[i]
  BY <1>2, <1>3, StartIs
<1>5. a \in Seq(S) /\ Len(a) = n /\ \A i \in 1 .. n : a[i] = t[i]
  BY StartIs
<1> HIDE DEF l, a
<1>6. /\ r \in Seq(S) /\ Len(r) = Len(s) + Len(a)
      /\ \A i \in 1 .. Len(s) + Len(a) : r[i] = IF i <= Len(s) THEN s[i] ELSE a[i - Len(s)]
  BY <1>5, ConcatProperties
<1> HIDE DEF r
<1>7. ASSUME NEW i \in 1 .. Len(l) PROVE l[i] = r[i]
  <2>1. i \in 1 .. Len(s) + Len(t) /\ i \in 1 .. Len(s) + n
    BY <1>1, <1>4
  <2>2. l[i] = IF i <= Len(s) THEN s[i] ELSE t[i - Len(s)]
    BY <1>2, <1>4, <2>1
  <2>3. r[i] = IF i <= Len(s) THEN s[i] ELSE a[i - Len(s)]
    BY <1>5, <1>6, <2>1
  <2>4. ~(i <= Len(s)) => i - Len(s) \in 1 .. n
    BY <1>1, <2>1
  <2>5. ~(i <= Len(s)) => a[i - Len(s)] = t[i - Len(s)]
    BY <1>5, <2>4
  <2> QED BY <2>2, <2>3, <2>5
<1>8. Len(l) = Len(r)
  BY <1>4, <1>5, <1>6
<1> QED BY <1>4, <1>6, <1>7, <1>8, SeqEqual DEF l, r, a

LEMMA EndOfConcat ==
    ASSUME NEW S, NEW s \in Seq(S), NEW t \in Seq(S), NEW n \in 0 .. Len(t)
    PROVE  Stream!Rest(s \o t, Len(s) + n) = Stream!Rest(t, n)
<1>1. Len(s) \in Nat /\ Len(t) \in Nat /\ n \in Nat /\ n <= Len(t)
  BY LenProperties
<1>2. /\ s \o t \in Seq(S) /\ Len(s \o t) = Len(s) + Len(t)
      /\ \A i \in 1 .. Len(s) + Len(t) : (s \o t)[i] = IF i <= Len(s) THEN s[i] ELSE t[i - Len(s)]
  BY ConcatProperties
<1> DEFINE l == Stream!Rest(s \o t, Len(s) + n)
           r == Stream!Rest(t, n)
<1>3. Len(s) + n \in 0 .. Len(s \o t)
  BY <1>1, <1>2
<1>4. /\ l \in Seq(S) /\ Len(l) = Len(s \o t) - (Len(s) + n)
      /\ \A i \in 1 .. Len(s \o t) - (Len(s) + n) : l[i] = (s \o t)[(Len(s) + n) + i]
  BY <1>2, <1>3, RestIs
<1>5. r \in Seq(S) /\ Len(r) = Len(t) - n /\ \A i \in 1 .. Len(t) - n : r[i] = t[n + i]
  BY RestIs
<1> HIDE DEF l, r
<1>6. ASSUME NEW i \in 1 .. Len(l) PROVE l[i] = r[i]
  <2>1. /\ i \in 1 .. Len(t) - n /\ (Len(s) + n) + i \in 1 .. Len(s) + Len(t)
        /\ ~((Len(s) + n) + i <= Len(s)) /\ ((Len(s) + n) + i) - Len(s) = n + i
    BY <1>1, <1>2, <1>4
  <2>2. l[i] = t[n + i]
    BY <1>2, <1>4, <2>1
  <2> QED BY <1>5, <2>1, <2>2
<1>7. Len(l) = Len(r)
  BY <1>1, <1>2, <1>4, <1>5
<1> QED BY <1>4, <1>5, <1>6, <1>7, SeqEqual DEF l, r

-----------------------------------------------------------------------------
(* Line ends.                                                              *)

LEMMA SmallestPlace ==
    ASSUME NEW S \in SUBSET Nat, S # {}
    PROVE  \E n \in S : \A k \in S : n <= k
<1> DEFINE less == {ss \in Nat \X Nat : ss[1] < ss[2]}
<1>1. IsWellFoundedOn(less, Nat)
  BY NatLessThanWellFounded DEF OpToRel
<1>2. PICK n \in S : \A k \in S : <<k, n>> \notin less
  <2> HIDE DEF less
  <2> QED BY <1>1, WFMin
<1>3. \A k \in S : ~(k < n)
  BY <1>2
<1> QED BY <1>3

\* The scan of the buffer that finds no first end has met none.
LEMMA NoEndAtAll ==
    ASSUME NEW s \in Seq(Bytes)
    PROVE  /\ NoEnd(s) => \A n : ~Stream!EndsLine(s, n)
           /\ \A n : EndAt(s, n) <=> Stream!FirstEnd(s, n)
<1>1. \A n : EndAt(s, n) <=> Stream!FirstEnd(s, n)
  BY LenProperties DEF EndAt, Stream!FirstEnd, Stream!EndsLine
<1>2. ASSUME NoEnd(s), NEW n, Stream!EndsLine(s, n)
      PROVE  FALSE
  <2> DEFINE ends == {k \in 1 .. Len(s) - 1 : s[k] = CR /\ s[k + 1] = LF}
  <2>1. n \in ends /\ ends \in SUBSET Nat /\ Len(s) \in Nat
    BY <1>2, LenProperties DEF Stream!EndsLine
  <2>2. PICK first \in ends : \A k \in ends : first <= k
    BY <2>1, SmallestPlace
  <2>3. \A k \in 1 .. first - 1 : ~(s[k] = CR /\ s[k + 1] = LF)
    BY <2>1, <2>2
  <2>4. EndAt(s, first)
    BY <2>2, <2>3 DEF EndAt
  <2> QED BY <1>2, <2>2, <2>4 DEF NoEnd
<1> QED BY <1>1, <1>2

\* Where the first part has no end, and none lies across the two, the ends of a
\* concatenation are those of its second part.
LEMMA EndOfTwo ==
    ASSUME NEW s \in Seq(Bytes), NEW t \in Seq(Bytes), ~Stream!HasLine(s),
           ~(EndsIn(s, CR) /\ t # <<>> /\ Head(t) = LF)
    PROVE  /\ \A n \in Nat : Stream!EndsLine(s \o t, n) <=> n > Len(s) /\ Stream!EndsLine(t, n - Len(s))
           /\ \A n \in Nat : Stream!FirstEnd(t, n) => Stream!FirstEnd(s \o t, Len(s) + n)
<1>1. Len(s) \in Nat /\ Len(t) \in Nat
  BY LenProperties
<1> DEFINE st == s \o t
<1>2. /\ st \in Seq(Bytes) /\ Len(st) = Len(s) + Len(t)
      /\ \A i \in 1 .. Len(s) + Len(t) : st[i] = IF i <= Len(s) THEN s[i] ELSE t[i - Len(s)]
  BY ConcatProperties
<1> HIDE DEF st
<1>3. ASSUME NEW n \in 1 .. Len(s) PROVE ~Stream!EndsLine(st, n)
  <2> SUFFICES ASSUME Stream!EndsLine(st, n) PROVE FALSE
    OBVIOUS
  <2>1. /\ n \in Nat /\ n >= 1 /\ n <= Len(s) /\ n + 1 <= Len(s) + Len(t)
        /\ st[n] = CR /\ st[n + 1] = LF
    BY <1>1, <1>2 DEF Stream!EndsLine
  <2>2. st[n] = s[n]
    BY <1>1, <1>2, <2>1
  <2>3. CASE n < Len(s)
    <3>1. st[n + 1] = s[n + 1] /\ n \in 1 .. Len(s) - 1
      BY <1>1, <1>2, <2>1, <2>3
    <3>2. Stream!EndsLine(s, n)
      BY <2>1, <2>2, <3>1 DEF Stream!EndsLine
    <3> QED BY <3>2 DEF Stream!HasLine
  <2>4. CASE n = Len(s)
    <3>1. st[n + 1] = t[(n + 1) - Len(s)] /\ (n + 1) - Len(s) = 1 /\ Len(t) >= 1
      BY <1>1, <1>2, <2>1, <2>4
    <3>2. t # <<>> /\ s # <<>> /\ Head(t) = t[1]
      BY <1>1, <2>1, <3>1, EmptySeq
    <3>3. EndsIn(s, CR)
      BY <2>1, <2>2, <2>4, <3>2 DEF EndsIn, Last
    <3> QED BY <2>1, <3>1, <3>2, <3>3
  <2> QED BY <1>1, <2>1, <2>3, <2>4
<1>4. ASSUME NEW n \in Nat, n > Len(s)
      PROVE  Stream!EndsLine(st, n) <=> Stream!EndsLine(t, n - Len(s))
  <2>1. n \in 1 .. Len(st) - 1 <=> n - Len(s) \in 1 .. Len(t) - 1
    BY <1>1, <1>2, <1>4
  <2>2. ASSUME n \in 1 .. Len(st) - 1
        PROVE  st[n] = t[n - Len(s)] /\ st[n + 1] = t[(n - Len(s)) + 1]
    <3>1. /\ n \in 1 .. Len(s) + Len(t) /\ n + 1 \in 1 .. Len(s) + Len(t)
          /\ ~(n <= Len(s)) /\ ~(n + 1 <= Len(s)) /\ (n + 1) - Len(s) = (n - Len(s)) + 1
      BY <1>1, <1>2, <1>4, <2>2
    <3> QED BY <1>2, <3>1
  <2> QED BY <2>1, <2>2 DEF Stream!EndsLine
<1>5. \A n \in Nat : Stream!EndsLine(st, n) <=> n > Len(s) /\ Stream!EndsLine(t, n - Len(s))
  <2> TAKE n \in Nat
  <2>1. CASE n > Len(s)
    BY <1>4, <2>1
  <2>2. CASE n \in 1 .. Len(s)
    BY <1>1, <1>3, <2>2
  <2>3. CASE n = 0
    BY <1>1, <2>3 DEF Stream!EndsLine
  <2> QED BY <1>1, <2>1, <2>2, <2>3
<1>6. ASSUME NEW n \in Nat, Stream!FirstEnd(t, n) PROVE Stream!FirstEnd(st, Len(s) + n)
  <2>1. n \in 1 .. Len(t) - 1 /\ Len(s) + n \in Nat /\ Len(s) + n > Len(s) /\ (Len(s) + n) - Len(s) = n
    BY <1>1, <1>6 DEF Stream!FirstEnd, Stream!EndsLine
  <2>2. Stream!EndsLine(st, Len(s) + n)
    BY <1>5, <1>6, <2>1 DEF Stream!FirstEnd
  <2>3. ASSUME NEW k \in 1 .. (Len(s) + n) - 1, Stream!EndsLine(st, k) PROVE FALSE
    <3>1. k \in Nat /\ k > Len(s) /\ Stream!EndsLine(t, k - Len(s))
      BY <1>1, <1>5, <2>1, <2>3
    <3>2. k - Len(s) \in 1 .. n - 1
      BY <1>1, <2>1, <2>3, <3>1
    <3> QED BY <1>6, <3>1, <3>2 DEF Stream!FirstEnd
  <2> QED BY <2>2, <2>3 DEF Stream!FirstEnd
<1> QED BY <1>5, <1>6 DEF st

\* A piece with no line end of its own, that ends none, has none to offer.
LEMMA NoneOfTwo ==
    ASSUME NEW s \in Seq(Bytes), NEW t \in Seq(Bytes), ~Stream!HasLine(s), NoEnd(t),
           ~(EndsIn(s, CR) /\ t # <<>> /\ Head(t) = LF)
    PROVE  ~Stream!HasLine(s \o t)
<1>1. \A n : ~Stream!EndsLine(t, n)
  BY NoEndAtAll
<1>2. \A n \in Nat : ~Stream!EndsLine(s \o t, n)
  BY <1>1, EndOfTwo
<1>3. s \o t \in Seq(Bytes)
  BY ConcatProperties
<1>4. Len(s \o t) \in Nat
  BY <1>3, LenProperties
<1> QED BY <1>2, <1>4 DEF Stream!HasLine

LEMMA EmptyHasNone == ~Stream!HasLine(<<>>)
  BY DEF Stream!HasLine, Stream!EndsLine

-----------------------------------------------------------------------------
(* Calls.                                                                  *)

\* What a call with a piece looks at.
LEMMA Looked ==
    ASSUME Typed, Kept, NEW piece \in Seq(Bytes), Receive(piece)
    PROVE  /\ Data(piece) \in Seq(Bytes) /\ received' \in Seq(Bytes)
           /\ Len(received) \in Nat /\ Len(received') \in Nat /\ Len(m_line) \in Nat /\ Len(Data(piece)) \in Nat
           /\ Cut \in 0 .. Len(received')
           /\ Stream!Rest(received', Cut) = m_line \o Data(piece)
           /\ Len(received') - Cut = Len(m_line) + Len(Data(piece))
<1>1. Len(m_line) \in Nat /\ Len(m_buf) \in Nat /\ Len(received) \in Nat /\ Len(piece) \in Nat
  BY LenProperties DEF Typed
<1>2. received' \in Seq(Bytes) /\ Len(received') = Len(received) + Len(piece)
  BY ConcatProperties DEF Receive, Typed
<1>3. Data(piece) \in Seq(Bytes) /\ Len(Data(piece)) = Len(m_buf) + Len(piece)
  BY ConcatProperties DEF Data, Typed
<1>4. Cut \in 0 .. Len(received)
  BY <1>1 DEF Kept, Cut
<1>5. Stream!Rest(received \o piece, Cut) = Stream!Rest(received, Cut) \o piece
  BY <1>4, RestOfConcat DEF Typed
<1>6. (m_line \o m_buf) \o piece = m_line \o Data(piece)
  BY ConcatAssociative DEF Typed, Data
<1>7. Stream!Rest(received', Cut) = m_line \o Data(piece)
  BY <1>5, <1>6 DEF Kept, Receive
<1>8. Len(received') - Cut = Len(m_line) + Len(Data(piece))
  BY <1>1, <1>2, <1>3 DEF Cut
<1>9. Cut \in 0 .. Len(received') /\ Len(received') \in Nat /\ Len(Data(piece)) \in Nat
  BY <1>1, <1>2, <1>3, <1>4
<1> QED BY <1>1, <1>2, <1>3, <1>7, <1>8, <1>9

\* After a line everything that was not handed out is in m_buf.
LEMMA LineGiven ==
    ASSUME Typed, Kept, NEW piece \in Seq(Bytes), Receive(piece), UNCHANGED thrown,
           NEW n \in 0 .. Len(Data(piece)), m_line' = <<>>, m_buf' = Stream!Rest(Data(piece), n)
    PROVE  ReaderInv' /\ Cut' = Cut + Len(m_line) + n
<1> USE Looked
<1>1. m_buf' \in Seq(Bytes) /\ Len(m_buf') = Len(Data(piece)) - n
  BY RestIs
<1>2. Typed'
  BY <1>1, EmptySeq DEF Typed
<1>3. Cut' = Len(received') - 0 - Len(m_buf')
  BY EmptySeq DEF Cut
<1>4. Cut \in Nat /\ Cut' = Cut + Len(m_line) + n /\ Len(m_line) + n \in 0 .. Len(received') - Cut
  BY <1>1, <1>3
<1>5. Stream!Rest(received', Cut + (Len(m_line) + n)) = Stream!Rest(m_line \o Data(piece), Len(m_line) + n)
  <2> DEFINE m == Len(m_line) + n
  <2>1. /\ received' \in Seq(Bytes) /\ Cut \in 0 .. Len(received') /\ m \in 0 .. Len(received') - Cut
        /\ Stream!Rest(received', Cut) = m_line \o Data(piece)
    BY <1>4
  <2>2. \A all \in Seq(Bytes) : \A c \in 0 .. Len(all) : \A k \in 0 .. Len(all) - c :
            Stream!Rest(Stream!Rest(all, c), k) = Stream!Rest(all, c + k)
    BY RestOfRest
  <2> HIDE DEF m
  <2>3. Stream!Rest(Stream!Rest(received', Cut), m) = Stream!Rest(received', Cut + m)
    BY <2>1, <2>2
  <2> QED BY <2>1, <2>3 DEF m
<1>6. Stream!Rest(m_line \o Data(piece), Len(m_line) + n) = m_buf'
  BY EndOfConcat DEF Typed
<1>7. m_line' \o m_buf' = m_buf'
  BY <1>1, ConcatEmptySeq
<1>8. Cut + (Len(m_line) + n) = Cut' /\ Cut' \in Nat
  BY <1>4
<1>9. Kept'
  <2>1. Stream!Rest(received', Cut') = m_line' \o m_buf'
    BY <1>5, <1>6, <1>7, <1>8
  <2>2. ~Stream!HasLine(m_line')
    BY EmptyHasNone
  <2>3. (Stream!HasLine(m_line))' <=> Stream!HasLine(m_line')
    BY DEF Stream!HasLine, Stream!EndsLine
  <2>4. (Stream!Rest(received, Cut))' = Stream!Rest(received', Cut')
    BY DEF Stream!Rest
  <2> QED BY <1>8, <2>1, <2>2, <2>3, <2>4 DEF Kept
<1> QED BY <1>2, <1>4, <1>9 DEF ReaderInv

\* The CR was the last of m_line, its LF is the first of the data.
LEMMA JoinSpecialGives ==
    ASSUME Typed, Kept, NEW piece \in Seq(Bytes), JoinSpecial(piece)
    PROVE  ReaderInv' /\ Stream!GiveLine(piece)
<1> DEFINE data == Data(piece)
           rest == m_line \o data
           n == Len(m_line)
<1>0. Receive(piece) /\ UNCHANGED thrown /\ m_line' = <<>>
  BY DEF JoinSpecial
<1>1. /\ data \in Seq(Bytes) /\ received' \in Seq(Bytes) /\ n \in Nat /\ Len(data) \in Nat
      /\ Cut \in 0 .. Len(received') /\ Stream!Rest(received', Cut) = rest
  BY <1>0, Looked
<1>2. m_line \in Seq(Bytes) /\ m_line # <<>> /\ m_line[n] = CR /\ data # <<>> /\ Head(data) = LF
  BY DEF JoinSpecial, Joined, EndsIn, Last, Typed
<1>3. n >= 1 /\ Len(data) >= 1 /\ data[1] = LF
  BY <1>1, <1>2, EmptySeq
<1>4. m_buf' = Stream!Rest(data, 1)
  BY <1>1, <1>2, TailIsSubSeq DEF JoinSpecial, Stream!Rest
<1>5. ReaderInv' /\ Cut' = Cut + n + 1
  BY <1>0, <1>1, <1>3, <1>4, LineGiven
<1>6. /\ Len(rest) = n + Len(data)
      /\ \A i \in 1 .. n + Len(data) : rest[i] = IF i <= n THEN m_line[i] ELSE data[i - n]
  BY <1>1, <1>2, ConcatProperties
<1>7. Stream!EndsLine(rest, n)
  BY <1>1, <1>2, <1>3, <1>6 DEF Stream!EndsLine
<1>8. ASSUME NEW k \in 1 .. n - 1 PROVE ~Stream!EndsLine(rest, k)
  <2>1. rest[k] = m_line[k] /\ rest[k + 1] = m_line[k + 1] /\ k \in 1 .. n
    BY <1>1, <1>6
  <2>2. ~Stream!EndsLine(m_line, k)
    BY <2>1 DEF Kept, Stream!HasLine
  <2> QED BY <1>1, <2>1, <2>2 DEF Stream!EndsLine
<1>9. SubSeq(rest, 1, n - 1) = Front(m_line)
  <2>1. n - 1 \in 0 .. Len(m_line)
    BY <1>1, <1>3
  <2>2. /\ SubSeq(m_line, 1, n - 1) \in Seq(Bytes) /\ Len(SubSeq(m_line, 1, n - 1)) = n - 1
        /\ \A i \in 1 .. n - 1 : SubSeq(m_line, 1, n - 1)[i] = m_line[i]
    BY <1>2, <2>1, StartIs
  <2>3. rest \in Seq(Bytes) /\ n - 1 \in 0 .. Len(rest)
    BY <1>1, <1>2, <1>3, <1>6, ConcatProperties
  <2>4. /\ SubSeq(rest, 1, n - 1) \in Seq(Bytes) /\ Len(SubSeq(rest, 1, n - 1)) = n - 1
        /\ \A i \in 1 .. n - 1 : SubSeq(rest, 1, n - 1)[i] = rest[i]
    BY <2>3, StartIs
  <2>5. \A i \in 1 .. n - 1 : rest[i] = m_line[i]
    BY <1>1, <1>6
  <2>6. SubSeq(rest, 1, n - 1) = SubSeq(m_line, 1, n - 1)
    <3> HIDE DEF rest, n
    <3> QED BY <2>2, <2>4, <2>5, SeqEqual
  <2> QED BY <2>6 DEF Front
<1>10. answer' = SubSeq(rest, 1, n - 1) /\ received' = received \o piece
  BY <1>9 DEF JoinSpecial, Receive
<1>11. Stream!FirstEnd(rest, n) /\ n \in 1 .. Len(rest)
  BY <1>1, <1>3, <1>6, <1>7, <1>8 DEF Stream!FirstEnd
<1> HIDE DEF rest, n
<1> QED BY <1>1, <1>5, <1>10, <1>11 DEF Stream!GiveLine, Cut

LEMMA TakeLineGives ==
    ASSUME Typed, Kept, NEW piece \in Seq(Bytes), TakeLine(piece)
    PROVE  ReaderInv' /\ Stream!GiveLine(piece)
<1> DEFINE data == Data(piece)
           rest == m_line \o data
<1>0. Receive(piece) /\ UNCHANGED thrown /\ m_line' = <<>> /\ ~Joined(piece)
  BY DEF TakeLine
<1>1. /\ data \in Seq(Bytes) /\ received' \in Seq(Bytes) /\ Len(m_line) \in Nat /\ Len(data) \in Nat
      /\ Cut \in 0 .. Len(received') /\ Stream!Rest(received', Cut) = rest
  BY <1>0, Looked
<1>2. PICK n \in 1 .. Len(data) : /\ EndAt(data, n)
                                  /\ answer' = m_line \o SubSeq(data, 1, n - 1)
                                  /\ m_buf' = SubSeq(data, n + 2, Len(data))
  BY DEF TakeLine
<1>3. n \in Nat /\ n \in 1 .. Len(data) - 1 /\ n + 1 \in 0 .. Len(data) /\ (n + 1) + 1 = n + 2
  BY <1>1, <1>2 DEF EndAt
<1>4. m_buf' = Stream!Rest(data, n + 1)
  BY <1>2, <1>3 DEF Stream!Rest
<1>5. ReaderInv' /\ Cut' = Cut + Len(m_line) + (n + 1)
  BY <1>0, <1>3, <1>4, LineGiven
<1>6. Stream!FirstEnd(rest, Len(m_line) + n)
  <2>1. Stream!FirstEnd(data, n)
    BY <1>1, <1>2, NoEndAtAll
  <2> QED BY <1>0, <1>1, <1>3, <2>1, EndOfTwo DEF Joined, Kept, Typed
<1>7. SubSeq(rest, 1, Len(m_line) + (n - 1)) = m_line \o SubSeq(data, 1, n - 1)
  <2>1. n - 1 \in 0 .. Len(data)
    BY <1>1, <1>3
  <2> QED BY <1>1, <2>1, StartOfConcat DEF Typed
<1> DEFINE place == Len(m_line) + n
<1>8. Len(rest) = Len(m_line) + Len(data)
  BY <1>1, ConcatProperties DEF Typed
<1>9. place \in 1 .. Len(rest) /\ place - 1 = Len(m_line) + (n - 1) /\ Cut' = Cut + place + 1
  BY <1>1, <1>3, <1>5, <1>8
<1>10. answer' = SubSeq(rest, 1, place - 1) /\ received' = received \o piece /\ Stream!FirstEnd(rest, place)
  BY <1>0, <1>2, <1>6, <1>7, <1>9 DEF Receive
<1> HIDE DEF rest, place
<1> QED BY <1>1, <1>5, <1>9, <1>10 DEF Stream!GiveLine, Cut

LEMMA KeepRestGives ==
    ASSUME Typed, Kept, NEW piece \in Seq(Bytes), KeepRest(piece)
    PROVE  ReaderInv' /\ Stream!NothingYet(piece)
<1> DEFINE data == Data(piece)
           rest == m_line \o data
<1>0. /\ Receive(piece) /\ UNCHANGED thrown /\ ~Joined(piece) /\ NoEnd(data)
      /\ m_line' = rest /\ m_buf' = <<>> /\ answer' = NoLine
  BY DEF KeepRest
<1>1. /\ data \in Seq(Bytes) /\ received' \in Seq(Bytes) /\ Len(m_line) \in Nat /\ Len(data) \in Nat
      /\ Len(received') \in Nat /\ Cut \in 0 .. Len(received') /\ Stream!Rest(received', Cut) = rest
      /\ Len(received') - Cut = Len(m_line) + Len(data)
  BY <1>0, Looked
<1>2. rest \in Seq(Bytes) /\ Len(rest) = Len(m_line) + Len(data)
  BY <1>1, ConcatProperties DEF Typed
<1>3. ~Stream!HasLine(rest)
  BY <1>0, <1>1, NoneOfTwo DEF Kept, Typed, Joined
<1> HIDE DEF rest, data
<1>4. Cut' = Cut /\ Cut \in Nat
  <2>1. Cut' = Len(received') - Len(rest) - 0
    BY <1>0, EmptySeq DEF Cut
  <2> QED BY <1>1, <1>2, <2>1
<1>5. Typed'
  BY <1>0, <1>1, <1>2, EmptySeq DEF Typed
<1>6. Kept'
  <2>1. m_line' \o m_buf' = rest
    BY <1>0, <1>2, ConcatEmptySeq
  <2>2. (Stream!HasLine(m_line))' <=> Stream!HasLine(m_line')
    BY DEF Stream!HasLine, Stream!EndsLine
  <2>3. (Stream!Rest(received, Cut))' = Stream!Rest(received', Cut')
    BY DEF Stream!Rest
  <2> QED BY <1>0, <1>1, <1>3, <1>4, <2>1, <2>2, <2>3 DEF Kept
<1>7. Stream!NothingYet(piece)
  <2>1. received' = received \o piece
    BY <1>0 DEF Receive
  <2> QED BY <1>0, <1>1, <1>3, <1>4, <2>1 DEF Stream!NothingYet, Cut
<1> QED BY <1>5, <1>6, <1>7 DEF ReaderInv

\* The line and the buffer that ends in CR are handed out without it.
LEMMA OverReadGives ==
    ASSUME Typed, Kept, NEW piece \in Seq(Bytes), OverRead(piece)
    PROVE  ReaderInv' /\ Stream!GiveEarly(piece)
<1> DEFINE data == Data(piece)
           rest == m_line \o data
           n == Len(data)
<1>0. /\ Receive(piece) /\ UNCHANGED thrown /\ ~Joined(piece) /\ NoEnd(data)
      /\ m_line' = <<>> /\ m_buf' = <<>> /\ LF \in PastEnd
      /\ answer' = m_line \o Front(data) /\ data # <<>> /\ data[n] = CR
  BY DEF OverRead, EndsIn, Last
<1>1. /\ data \in Seq(Bytes) /\ received' \in Seq(Bytes) /\ Len(m_line) \in Nat /\ n \in Nat
      /\ Len(received') \in Nat /\ Cut \in 0 .. Len(received') /\ Stream!Rest(received', Cut) = rest
      /\ Len(received') - Cut = Len(m_line) + n
  BY <1>0, Looked
<1>2. n >= 1 /\ n \in 0 .. n /\ n - 1 \in 0 .. n
  BY <1>0, <1>1, EmptySeq
<1>3. m_buf' = Stream!Rest(data, n)
  BY <1>0, <1>1, SubSeqEmpty DEF Stream!Rest
<1>4. ReaderInv' /\ Cut' = Cut + Len(m_line) + n
  BY <1>0, <1>2, <1>3, LineGiven
<1>5. ~Stream!HasLine(rest)
  BY <1>0, <1>1, NoneOfTwo DEF Kept, Typed, Joined
<1>6. /\ rest \in Seq(Bytes) /\ Len(rest) = Len(m_line) + n
      /\ \A i \in 1 .. Len(m_line) + n : rest[i] = IF i <= Len(m_line) THEN m_line[i] ELSE data[i - Len(m_line)]
  BY <1>1, ConcatProperties DEF Typed
<1>7. rest[Len(rest)] = CR /\ rest # <<>>
  <2>1. /\ Len(rest) \in 1 .. Len(m_line) + n /\ ~(Len(rest) <= Len(m_line))
        /\ Len(rest) - Len(m_line) = n /\ Len(rest) > 0
    BY <1>1, <1>2, <1>6
  <2> QED BY <1>0, <1>6, <2>1, EmptySeq
<1>8. SubSeq(rest, 1, Len(m_line) + (n - 1)) = m_line \o Front(data)
  BY <1>1, <1>2, StartOfConcat DEF Typed, Front
<1>9. Len(rest) - 1 = Len(m_line) + (n - 1) /\ Cut' = Len(received')
  BY <1>1, <1>4, <1>6
<1>10. answer' = SubSeq(rest, 1, Len(rest) - 1) /\ received' = received \o piece
  BY <1>0, <1>8, <1>9 DEF Receive
<1> HIDE DEF rest, data, n
<1> QED BY <1>0, <1>1, <1>4, <1>5, <1>7, <1>9, <1>10 DEF Stream!GiveEarly, Cut

\* The buffer throws: the CR is neither handed out nor kept, and nobody asks again.
LEMMA OverReadOneGives ==
    ASSUME Typed, Kept, NEW piece \in Seq(Bytes), OverReadOne(piece)
    PROVE  ReaderInv' /\ Stream!NothingYet(piece)
<1> DEFINE data == Data(piece)
           rest == m_line \o data
<1>0. /\ Receive(piece) /\ ~Joined(piece) /\ data = <<CR>>
      /\ m_line' = m_line /\ answer' = NoLine /\ thrown' = TRUE
  BY DEF OverReadOne
<1>1. /\ data \in Seq(Bytes) /\ received' \in Seq(Bytes) /\ Len(m_line) \in Nat
      /\ Len(received') \in Nat /\ Cut \in 0 .. Len(received') /\ Stream!Rest(received', Cut) = rest
      /\ Len(received') - Cut = Len(m_line) + Len(data)
  BY <1>0, Looked
<1>2. Len(data) = 1 /\ NoEnd(data)
  BY <1>0 DEF NoEnd
<1>3. ~Stream!HasLine(rest)
  BY <1>0, <1>1, <1>2, NoneOfTwo DEF Kept, Typed, Joined
<1>4. PICK b \in Bytes : m_buf' = <<b>>
  BY DEF OverReadOne
<1>5. m_buf' \in Seq(Bytes) /\ Len(m_buf') = 1
  BY <1>4
<1> HIDE DEF rest, data
<1>6. Cut' = Cut
  <2>1. Cut' = Len(received') - Len(m_line) - 1
    BY <1>0, <1>5 DEF Cut
  <2> QED BY <1>1, <1>2, <2>1
<1>7. ReaderInv'
  BY <1>0, <1>1, <1>5 DEF ReaderInv, Typed
<1>8. received' = received \o piece
  BY <1>0 DEF Receive
<1> QED BY <1>0, <1>1, <1>3, <1>6, <1>7, <1>8 DEF Stream!NothingYet, Cut

LEMMA GetBytesGives ==
    ASSUME Typed, Kept, NEW n \in AskSizes, GetBytes(n)
    PROVE  ReaderInv' /\ Stream!GiveBytes(n)
<1> DEFINE k == IF n < Len(m_buf) THEN n ELSE Len(m_buf)
<1>0. /\ m_line = <<>> /\ UNCHANGED <<m_line, thrown, received>>
      /\ answer' = SubSeq(m_buf, 1, k) /\ m_buf' = Stream!Rest(m_buf, k)
  BY DEF GetBytes, Stream!Rest
<1>1. /\ n \in Nat /\ Len(m_buf) \in Nat /\ Len(received) \in Nat /\ k \in 0 .. Len(m_buf)
      /\ m_buf \in Seq(Bytes) /\ received \in Seq(Bytes)
  BY LineReaderAssumption, LenProperties DEF Typed
<1>2. Cut = Len(received) - 0 - Len(m_buf) /\ Cut \in 0 .. Len(received)
  BY <1>0, <1>1, EmptySeq DEF Cut, Kept
<1>3. Stream!Rest(received, Cut) = m_buf
  BY <1>0, <1>1, ConcatEmptySeq DEF Kept
<1>4. /\ Stream!Rest(m_buf, k) \in Seq(Bytes) /\ Len(Stream!Rest(m_buf, k)) = Len(m_buf) - k
  BY <1>1, RestIs
<1>5. Cut' = Len(received) - 0 - (Len(m_buf) - k)
  BY <1>0, <1>4, EmptySeq DEF Cut
<1> HIDE DEF k
<1>6. Cut' = Cut + k /\ Cut' \in Nat /\ k \in 0 .. Len(received) - Cut /\ Len(received) - Cut = Len(m_buf)
  BY <1>1, <1>2, <1>5
<1>7. Stream!Rest(received, Cut + k) = m_buf'
  BY <1>0, <1>1, <1>2, <1>3, <1>6, RestOfRest
<1>8. m_line' \o m_buf' = m_buf'
  BY <1>0, <1>4, ConcatEmptySeq
<1>9. Kept'
  <2>1. (Stream!HasLine(m_line))' <=> Stream!HasLine(m_line')
    BY DEF Stream!HasLine, Stream!EndsLine
  <2>2. (Stream!Rest(received, Cut))' = Stream!Rest(received', Cut')
    BY DEF Stream!Rest
  <2>3. Stream!Rest(received', Cut') = m_line' \o m_buf'
    BY <1>0, <1>6, <1>7, <1>8
  <2> QED BY <1>0, <1>6, <2>1, <2>2, <2>3, EmptyHasNone DEF Kept
<1>10. Typed'
  BY <1>0, <1>4 DEF Typed
<1>11. SubSeq(received, Cut + 1, Cut + k) = SubSeq(m_buf, 1, k)
  <2> DEFINE l == SubSeq(received, Cut + 1, Cut + k)
             r == SubSeq(m_buf, 1, k)
  <2>1. \A i \in Cut + 1 .. Cut + k : received[i] \in Bytes
    BY <1>1, <1>2, <1>6, ElementOfSeq
  <2>2. /\ l \in Seq(Bytes) /\ Len(l) = IF Cut + 1 <= Cut + k THEN (Cut + k) - (Cut + 1) + 1 ELSE 0
        /\ \A i \in 1 .. (Cut + k) - (Cut + 1) + 1 : l[i] = received[(Cut + 1) + i - 1]
    BY <1>1, <1>2, <2>1, SubSeqProperties
  <2>3. r \in Seq(Bytes) /\ Len(r) = k /\ \A i \in 1 .. k : r[i] = m_buf[i]
    BY <1>1, StartIs
  <2>4. \A i \in 1 .. Len(m_buf) : m_buf[i] = received[Cut + i]
    <3>1. \A i \in 1 .. Len(received) - Cut : Stream!Rest(received, Cut)[i] = received[Cut + i]
      BY <1>1, <1>2, RestIs
    <3> QED BY <1>3, <1>6, <3>1
  <2> HIDE DEF l, r
  <2>5. Len(l) = k /\ \A i \in 1 .. k : l[i] = received[Cut + i]
    <3>1. k \in Nat /\ Cut \in Nat
      BY <1>1, <1>2
    <3>2. (Cut + k) - (Cut + 1) + 1 = k /\ (Cut + 1 <= Cut + k <=> k >= 1)
      BY <3>1
    <3>3. Len(l) = k
      BY <2>2, <3>1, <3>2
    <3>4. \A i \in 1 .. k : (Cut + 1) + i - 1 = Cut + i
      BY <3>1
    <3> QED BY <2>2, <3>2, <3>3, <3>4
  <2>6. \A i \in 1 .. k : l[i] = r[i]
    BY <1>1, <2>3, <2>4, <2>5
  <2>7. l = r
    BY <2>2, <2>3, <2>5, <2>6, SeqEqual
  <2> QED BY <2>7 DEF l, r
<1>12. k = IF n < Len(received) - Cut THEN n ELSE Len(received) - Cut
  BY <1>6 DEF k
<1>13. Stream!GiveBytes(n)
  BY <1>0, <1>6, <1>11, <1>12 DEF Stream!GiveBytes, Cut
<1> QED BY <1>9, <1>10, <1>13 DEF ReaderInv

-----------------------------------------------------------------------------

LEMMA PiecesAreBytes == \A piece \in Pieces : piece \in Seq(Bytes)
  BY SeqDef, LineReaderAssumption DEF Pieces

LEMMA ReaderStep ==
    ASSUME ReaderInv, [ReaderNext]_vars
    PROVE  ReaderInv' /\ [Stream!StreamNext]_(Stream!streamVars)
<1>1. CASE UNCHANGED vars
  <2>1. (Stream!HasLine(m_line))' <=> Stream!HasLine(m_line')
    BY DEF Stream!HasLine, Stream!EndsLine
  <2>2. (Stream!Rest(received, Cut))' = Stream!Rest(received', Cut')
    BY DEF Stream!Rest
  <2>3. Cut' = Cut
    BY <1>1 DEF Cut, vars
  <2>4. ReaderInv'
    BY <1>1, <2>1, <2>2, <2>3 DEF vars, ReaderInv, Typed, Kept
  <2> QED BY <1>1, <2>4 DEF vars, Stream!streamVars
<1>2. ASSUME NEW piece \in Pieces, FromBuffer(piece)
      PROVE  ReaderInv' /\ Stream!StreamNext
  <2>1. piece \in Seq(Bytes) /\ Typed /\ Kept
    BY <1>2, PiecesAreBytes DEF ReaderInv, FromBuffer, JoinSpecial, TakeLine, KeepRest, OverRead,
                                OverReadOne, Receive
  <2>2. ReaderInv' /\ (Stream!GiveLine(piece) \/ Stream!GiveEarly(piece) \/ Stream!NothingYet(piece))
    BY <1>2, <2>1, JoinSpecialGives, TakeLineGives, KeepRestGives, OverReadGives, OverReadOneGives
       DEF FromBuffer
  <2> QED BY <2>2 DEF Stream!StreamNext
<1>3. ASSUME NEW n \in AskSizes, GetBytes(n)
      PROVE  ReaderInv' /\ Stream!StreamNext
  <2>1. Typed /\ Kept
    BY <1>3 DEF ReaderInv, GetBytes
  <2> QED BY <1>3, <2>1, GetBytesGives DEF Stream!StreamNext
<1> QED BY <1>1, <1>2, <1>3 DEF ReaderNext

LEMMA ReaderStart == ReaderInit => ReaderInv /\ Stream!StreamInit
<1> SUFFICES ASSUME ReaderInit PROVE ReaderInv /\ Stream!StreamInit
  OBVIOUS
<1>1. Len(received) = 0 /\ Len(m_line) = 0 /\ Len(m_buf) = 0 /\ <<>> \in Seq(Bytes)
  BY EmptySeq DEF ReaderInit
<1>2. Cut = 0
  BY <1>1 DEF Cut
<1>3. m_line \o m_buf = <<>>
  BY <1>1, ConcatEmptySeq DEF ReaderInit
<1>4. Stream!Rest(received, Cut) = <<>>
  BY <1>1, <1>2, SubSeqEmpty DEF Stream!Rest
<1>5. ReaderInv
  BY <1>1, <1>2, <1>3, <1>4, EmptyHasNone DEF ReaderInit, ReaderInv, Typed, Kept
<1> QED BY <1>2, <1>5 DEF ReaderInit, Stream!StreamInit, Cut

\* However the bytes of a connection are cut into pieces, utils::line hands them
\* out in order, each once, cut at the line ends, as LineStream says.
THEOREM ReaderKeepsPromise == ReaderSpec => ReaderImplementsStream
<1>1. ReaderSpec => []ReaderInv
  <2>1. ReaderInit => ReaderInv
    BY ReaderStart
  <2>2. ReaderInv /\ [ReaderNext]_vars => ReaderInv'
    BY ReaderStep
  <2> QED BY <2>1, <2>2, PTL DEF ReaderSpec
<1>2. ReaderInit => Stream!StreamInit
  BY ReaderStart
<1>3. ReaderInv /\ [ReaderNext]_vars => [Stream!StreamNext]_(Stream!streamVars)
  BY ReaderStep
<1> QED BY <1>1, <1>2, <1>3, PTL DEF ReaderSpec, ReaderImplementsStream, Stream!StreamSpec
=============================================================================
