--------------------------- MODULE TcpStreamProof ---------------------------
(***************************************************************************)
(* The framing of TcpTransport keeps messages whole: TcpStream implements   *)
(* MessageChannel, whatever pieces recv returns and for every sequence of   *)
(* texts that end in the delimiter and hold no other.                       *)
(***************************************************************************)
EXTENDS TcpStream, SequenceTheorems, WellFoundedInduction, TLAPS

\* The first of a set of numbers.
LEMMA Least ==
  ASSUME NEW I \in SUBSET Nat, I # {}
  PROVE  \E i \in I : \A j \in I : i <= j
<1>1. PICK i \in I : \A j \in I : ~ (<<j, i>> \in OpToRel(<, Nat))
  BY WFMin, NatLessThanWellFounded
<1>2. \A j \in I : i <= j
  <2> TAKE j \in I
  <2>1. i \in Nat /\ j \in Nat
    OBVIOUS
  <2>2. ~ (j < i)
    BY <1>1, <2>1 DEF OpToRel
  <2> QED BY <2>1, <2>2
<1> QED BY <1>2

\* Where DelimiterAt points a delimiter stands, and none before; where it points
\* nowhere there is none.
Stands(text, i) == i \in 1..Len(text) - 3 /\ SubSeq(text, i, i + 3) = Delimiter

LEMMA DelimiterFound ==
  ASSUME NEW text \in Seq(Tokens)
  PROVE  /\ DelimiterAt(text) \in Nat
         /\ DelimiterAt(text) # 0 =>
              /\ Stands(text, DelimiterAt(text))
              /\ \A j : Stands(text, j) => DelimiterAt(text) <= j
<1> DEFINE at == {i \in 1..Len(text) - 3 : SubSeq(text, i, i + 3) = Delimiter}
<1>1. at \in SUBSET Nat
  BY LenProperties
<1>2. CASE at = {}
  BY <1>2 DEF DelimiterAt
<1>3. CASE at # {}
  <2>1. DelimiterAt(text) = CHOOSE i \in at : \A j \in at : i <= j
    BY <1>3 DEF DelimiterAt
  <2>2. \E i \in at : \A j \in at : i <= j
    <3> HIDE DEF at
    <3> QED BY <1>1, <1>3, Least
  <2>3. DelimiterAt(text) \in at /\ \A j \in at : DelimiterAt(text) <= j
    <3> HIDE DEF at
    <3> QED BY <2>1, <2>2
  <2> QED BY <2>3, <1>1 DEF Stands
<1> QED BY <1>2, <1>3

\* Two ways to split one text, the first part of each starting alike.
LEMMA SamePlaces ==
  ASSUME NEW a \in Seq(Tokens), NEW w \in Seq(Tokens),
         NEW p \in Seq(Tokens), NEW r \in Seq(Tokens), a \o w = p \o r,
         NEW i \in Nat, i <= Len(a), i <= Len(p), i # 0
  PROVE  a[i] = p[i]
<1>1. (a \o w)[i] = a[i]
  BY ConcatProperties, LenProperties
<1>2. (p \o r)[i] = p[i]
  BY ConcatProperties, LenProperties
<1> QED BY <1>1, <1>2

LEMMA SameDelimiters ==
  ASSUME NEW a \in Seq(Tokens), NEW w \in Seq(Tokens),
         NEW p \in Seq(Tokens), NEW r \in Seq(Tokens), a \o w = p \o r,
         NEW i \in Nat, i # 0, i + 3 <= Len(a), i + 3 <= Len(p)
  PROVE  Stands(a, i) <=> Stands(p, i)
<1>1. i \in 1..Len(a) - 3 /\ i \in 1..Len(p) - 3
  BY LenProperties
<1>2. \A k \in i..i + 3 : a[k] \in Tokens /\ p[k] \in Tokens /\ a[k] = p[k]
  <2> TAKE k \in i..i + 3
  <2>1. k \in Nat /\ k # 0 /\ k \in 1..Len(a) /\ k \in 1..Len(p)
    BY LenProperties
  <2>2. a[k] \in Tokens /\ p[k] \in Tokens
    BY <2>1, ElementOfSeq
  <2>3. a[k] = p[k]
    BY <2>1, SamePlaces
  <2> QED BY <2>2, <2>3
<1>3. SubSeq(a, i, i + 3) = SubSeq(p, i, i + 3)
  <2>1. /\ SubSeq(a, i, i + 3) \in Seq(Tokens) /\ Len(SubSeq(a, i, i + 3)) = 4
        /\ \A k \in 1..4 : SubSeq(a, i, i + 3)[k] = a[i + k - 1]
    BY <1>2, SubSeqProperties
  <2>2. /\ SubSeq(p, i, i + 3) \in Seq(Tokens) /\ Len(SubSeq(p, i, i + 3)) = 4
        /\ \A k \in 1..4 : SubSeq(p, i, i + 3)[k] = p[i + k - 1]
    BY <1>2, SubSeqProperties
  <2>3. \A k \in 1..4 : a[i + k - 1] = p[i + k - 1]
    BY <1>2
  <2> QED BY <2>1, <2>2, <2>3, SeqEqual
<1> QED BY <1>1, <1>3 DEF Stands

\* The first delimiter received is the end of the first text sent: a cut is
\* never early and never late.
LEMMA CutIsWhole ==
  ASSUME NEW a \in Seq(Tokens), NEW w \in Seq(Tokens),
         NEW p \in Framed, NEW r \in Seq(Tokens), a \o w = p \o r,
         DelimiterAt(a) # 0
  PROVE  DelimiterAt(a) + 3 = Len(p)
<1> DEFINE d == DelimiterAt(a)
           e == DelimiterAt(p)
<1> SUFFICES d + 3 = Len(p)
  OBVIOUS
<1>1. p \in Seq(Tokens) /\ e # 0 /\ e + 3 = Len(p)
  BY DEF Framed, IsFramed
<1>2. d \in Nat /\ d # 0 /\ Stands(a, d) /\ \A j : Stands(a, j) => d <= j
  BY DelimiterFound
<1>3. e \in Nat /\ Stands(p, e) /\ \A j : Stands(p, j) => e <= j
  BY <1>1, DelimiterFound
<1>4. Len(a) \in Nat /\ Len(p) \in Nat
  BY <1>1, LenProperties
<1>5. d + 3 <= Len(a)
  BY <1>2, <1>4 DEF Stands
<1> HIDE DEF d, e
<1>6. CASE d + 3 < Len(p)
  <2>1. Stands(p, d)
    <3>1. d \in Nat /\ d # 0 /\ d + 3 <= Len(a) /\ d + 3 <= Len(p)
      BY <1>2, <1>4, <1>5, <1>6
    <3>2. Stands(a, d) <=> Stands(p, d)
      BY <1>1, <3>1, SameDelimiters, Zenon
    <3> QED BY <3>2, <1>2
  <2>2. e <= d
    BY <2>1, <1>3
  <2> QED BY <2>2, <1>1, <1>2, <1>3, <1>4, <1>6
<1>7. CASE d + 3 > Len(p)
  <2>1. e + 3 <= Len(a) /\ e + 3 <= Len(p) /\ e < d
    BY <1>1, <1>2, <1>3, <1>4, <1>5, <1>7
  <2>2. Stands(a, e)
    <3>1. e \in Nat /\ e # 0 /\ e + 3 <= Len(a) /\ e + 3 <= Len(p)
      BY <1>1, <1>3, <2>1
    <3>2. Stands(a, e) <=> Stands(p, e)
      BY <1>1, <3>1, SameDelimiters, Zenon
    <3> QED BY <3>2, <1>3
  <2>3. d <= e
    BY <2>2, <1>2
  <2> QED BY <2>1, <2>3, <1>2, <1>3
<1> QED BY <1>6, <1>7, <1>2, <1>4

LEMMA Regroup ==
  \A s, t, u \in Seq(Tokens) : (s \o t) \o u = s \o (t \o u)
<1> TAKE s, t, u \in Seq(Tokens)
<1>1. s \o t \in Seq(Tokens) /\ t \o u \in Seq(Tokens)
  BY ConcatProperties
<1>2. (s \o t) \o u \in Seq(Tokens) /\ s \o (t \o u) \in Seq(Tokens)
  BY <1>1, ConcatProperties
<1>3. Len(s) \in Nat /\ Len(t) \in Nat /\ Len(u) \in Nat
  BY LenProperties
<1>4. /\ Len(s \o t) = Len(s) + Len(t) /\ Len(t \o u) = Len(t) + Len(u)
      /\ Len((s \o t) \o u) = Len(s) + Len(t) + Len(u)
      /\ Len(s \o (t \o u)) = Len(s) + Len(t) + Len(u)
  BY <1>1, <1>3, ConcatProperties
<1>5. \A i \in 1..Len((s \o t) \o u) : ((s \o t) \o u)[i] = (s \o (t \o u))[i]
  BY <1>1, <1>3, <1>4, ConcatProperties
<1> QED BY <1>2, <1>4, <1>5, SeqEqual

\* A text is its beginning and its rest.
LEMMA TwoParts ==
  ASSUME NEW t \in Seq(Tokens), NEW n \in Nat, n <= Len(t)
  PROVE  /\ SubSeq(t, 1, n) \in Seq(Tokens)
         /\ SubSeq(t, n + 1, Len(t)) \in Seq(Tokens)
         /\ SubSeq(t, 1, n) \o SubSeq(t, n + 1, Len(t)) = t
<1>1. Len(t) \in Nat /\ \A k \in 1..Len(t) : t[k] \in Tokens
  BY LenProperties, ElementOfSeq
<1>2. SubSeq(t, 1, n) \in Seq(Tokens)
  BY <1>1, SubSeqProperties
<1>3. SubSeq(t, n + 1, Len(t)) \in Seq(Tokens)
  BY <1>1, SubSeqProperties
<1>4. 1 \in 1..Len(t) + 1 /\ n \in 1 - 1..Len(t) /\ Len(t) \in n..Len(t)
  BY <1>1
<1>5. SubSeq(t, 1, n) \o SubSeq(t, n + 1, Len(t)) = SubSeq(t, 1, Len(t))
  <2>1. \A m \in 1..Len(t) + 1 : \A k \in m - 1..Len(t) : \A l \in k..Len(t) :
          SubSeq(t, m, k) \o SubSeq(t, k + 1, l) = SubSeq(t, m, l)
    BY ConcatAdjacentSubSeq, Zenon
  <2> QED BY <2>1, <1>4
<1>6. SubSeq(t, 1, Len(t)) = t
  BY SubSeqFull
<1> QED BY <1>2, <1>3, <1>5, <1>6

\* What a cut takes and what it leaves.
LEMMA CutParts ==
  ASSUME NEW a \in Seq(Tokens), NEW w \in Seq(Tokens),
         NEW p \in Seq(Tokens), NEW r \in Seq(Tokens), a \o w = p \o r,
         Len(p) <= Len(a)
  PROVE  /\ SubSeq(a, 1, Len(p)) = p
         /\ SubSeq(a, Len(p) + 1, Len(a)) \in Seq(Tokens)
         /\ SubSeq(a, Len(p) + 1, Len(a)) \o w = r
<1> DEFINE n == Len(p)
           x == SubSeq(a, n + 1, Len(a))
<1>1. n \in Nat /\ Len(a) \in Nat /\ n <= Len(a)
  BY LenProperties
<1>2. \A k \in 1..n : a[k] \in Tokens /\ a[k] = p[k]
  <2> TAKE k \in 1..n
  <2>1. k \in Nat /\ k # 0 /\ k \in 1..Len(a)
    BY <1>1
  <2> QED BY <2>1, <1>1, SamePlaces, ElementOfSeq
<1>3. SubSeq(a, 1, n) = p
  <2>1. /\ SubSeq(a, 1, n) \in Seq(Tokens) /\ Len(SubSeq(a, 1, n)) = n
        /\ \A k \in 1..n : SubSeq(a, 1, n)[k] = a[k]
    BY <1>1, <1>2, SubSeqProperties
  <2> QED BY <2>1, <1>2, SeqEqual
<1>4. x \in Seq(Tokens)
  BY <1>1, TwoParts
<1>5. SubSeq(a, 1, n) \o x = a
  BY <1>1, TwoParts
<1> HIDE DEF x, n
<1>6. p \o (x \o w) = p \o r
  <2>1. (p \o x) \o w = p \o (x \o w)
    BY <1>1, <1>4, Regroup, Zenon
  <2>2. p \o x = a
    BY <1>3, <1>5
  <2> QED BY <2>1, <2>2
<1>7. x \o w \in Seq(Tokens)
  BY <1>4, ConcatProperties
<1>8. x \o w = r
  BY <1>6, <1>7, ConcatSimplifications
<1> QED BY <1>3, <1>4, <1>8 DEF x, n

\* A piece moved from the wire to the accumulator.
LEMMA PieceMoved ==
  ASSUME NEW a \in Seq(Tokens), NEW w \in Seq(Tokens),
         NEW n \in Nat, n <= Len(w)
  PROVE  /\ SubSeq(w, 1, n) \in Seq(Tokens)
         /\ SubSeq(w, n + 1, Len(w)) \in Seq(Tokens)
         /\ a \o SubSeq(w, 1, n) \in Seq(Tokens)
         /\ (a \o SubSeq(w, 1, n)) \o SubSeq(w, n + 1, Len(w)) = a \o w
<1> DEFINE x == SubSeq(w, 1, n)
           y == SubSeq(w, n + 1, Len(w))
<1>1. x \in Seq(Tokens) /\ y \in Seq(Tokens) /\ x \o y = w
  BY TwoParts
<1> HIDE DEF x, y
<1>2. a \o x \in Seq(Tokens)
  BY <1>1, ConcatProperties
<1>3. (a \o x) \o y = a \o (x \o y)
  BY <1>1, Regroup, Zenon
<1>4. (a \o x) \o y = a \o w
  BY <1>1, <1>3
<1> QED BY <1>1, <1>2, <1>4 DEF x, y

----------------------------------------------------------------------------
(* The invariant: of the texts posted the first ones are delivered, and     *)
(* what is received and on its way is the others, one after another.        *)
(* TailsOf(texts) says what follows each of them.                           *)

AreTails(rest, texts) ==
  /\ rest \in [0..Len(texts) -> Seq(Tokens)]
  /\ rest[Len(texts)] = <<>>
  /\ \A i \in 1..Len(texts) : rest[i - 1] = texts[i] \o rest[i]

Follows(text, texts, n) == \E rest : AreTails(rest, texts) /\ rest[n] = text

StreamTypes ==
  /\ posted \in [Streams -> Seq(Framed)]
  /\ delivered \in [Streams -> Seq(Seq(Tokens))]
  /\ wire \in [Streams -> Seq(Tokens)]
  /\ accumulator \in [Streams -> Seq(Tokens)]

StreamOwn(s) ==
  /\ Len(delivered[s]) <= Len(posted[s])
  /\ \A i \in 1..Len(delivered[s]) : delivered[s][i] = posted[s][i]
  /\ Follows(accumulator[s] \o wire[s], posted[s], Len(delivered[s]))

StreamInv == StreamTypes /\ \A s \in Streams : StreamOwn(s)

\* A text sent comes after all that is on its way.
LEMMA SentFollows ==
  ASSUME NEW texts \in Seq(Framed), NEW n \in 0..Len(texts), NEW text \in Seq(Tokens),
         Follows(text, texts, n), NEW new \in Framed
  PROVE  Follows(text \o new, Append(texts, new), n)
<1> DEFINE more == Append(texts, new)
           l == Len(texts)
<1>1. l \in Nat /\ new \in Seq(Tokens) /\ \A i \in 1..l : texts[i] \in Seq(Tokens)
  BY LenProperties, ElementOfSeq DEF Framed
<1>2. /\ Len(more) = l + 1 /\ more[l + 1] = new
      /\ \A i \in 1..l : more[i] = texts[i]
  BY AppendProperties
<1>3. PICK rest : AreTails(rest, texts) /\ rest[n] = text
  BY DEF Follows
<1> DEFINE after == [i \in 0..l + 1 |-> IF i = l + 1 THEN <<>> ELSE rest[i] \o new]
<1> HIDE DEF more
<1>4. \A i \in 0..l : rest[i] \in Seq(Tokens)
  BY <1>3 DEF AreTails
<1>5. \A i \in 0..l : after[i] = rest[i] \o new /\ after[i] \in Seq(Tokens)
  BY <1>1, <1>4, ConcatProperties
<1>6. after[l + 1] = <<>> /\ after \in [0..l + 1 -> Seq(Tokens)]
  <2>1. after[l + 1] = <<>>
    BY <1>1
  <2>2. \A i \in 0..l + 1 : after[i] \in Seq(Tokens)
    <3> TAKE i \in 0..l + 1
    <3>1. i = l + 1 \/ i \in 0..l
      BY <1>1
    <3> HIDE DEF after
    <3> QED BY <1>5, <2>1, <3>1, EmptySeq
  <2>3. DOMAIN after = 0..l + 1 /\ after = [i \in 0..l + 1 |-> after[i]]
    OBVIOUS
  <2> HIDE DEF after
  <2> QED BY <2>1, <2>2, <2>3
<1> HIDE DEF after
<1>7. \A i \in 1..l + 1 : after[i - 1] = more[i] \o after[i]
  <2> TAKE i \in 1..l + 1
  <2>1. CASE i = l + 1
    <3>1. rest[l] = <<>>
      BY <1>3 DEF AreTails
    <3>2. after[l] = new
      <4>1. <<>> \o new = new
        BY <1>1, ConcatEmptySeq, Zenon
      <4>2. after[l] = rest[l] \o new
        BY <1>1, <1>5
      <4> QED BY <3>1, <4>1, <4>2
    <3>3. more[i] \o after[i] = new
      BY <1>1, <1>2, <1>6, <2>1, ConcatEmptySeq
    <3> QED BY <1>1, <2>1, <3>2, <3>3
  <2>2. CASE i \in 1..l
    <3>1. i - 1 \in 0..l /\ i \in 0..l
      BY <1>1, <2>2
    <3>2. rest[i - 1] = texts[i] \o rest[i]
      BY <1>3, <2>2 DEF AreTails
    <3>3. after[i - 1] = (texts[i] \o rest[i]) \o new
      BY <1>5, <3>1, <3>2
    <3>0. texts[i] \in Seq(Tokens) /\ rest[i] \in Seq(Tokens) /\ new \in Seq(Tokens)
      BY <1>1, <1>4, <2>2, <3>1
    <3>4. (texts[i] \o rest[i]) \o new = texts[i] \o (rest[i] \o new)
      BY <3>0, Regroup, Zenon
    <3>5. texts[i] = more[i] /\ rest[i] \o new = after[i]
      BY <1>2, <1>5, <2>2, <3>1
    <3> QED BY <3>3, <3>4, <3>5
  <2>3. i = l + 1 \/ i \in 1..l
    BY <1>1
  <2> QED BY <2>1, <2>2, <2>3
<1>8. AreTails(after, more)
  BY <1>2, <1>6, <1>7 DEF AreTails
<1>9. after[n] = text \o new
  BY <1>3, <1>5
<1> QED BY <1>8, <1>9 DEF Follows, more

LEMMA StreamStart == StreamInit => StreamInv
<1> SUFFICES ASSUME StreamInit PROVE StreamInv
  OBVIOUS
<1>1. StreamTypes
  BY EmptySeq DEF StreamInit, StreamTypes
<1>2. ASSUME NEW s \in Streams PROVE StreamOwn(s)
  <2>1. posted[s] = <<>> /\ delivered[s] = <<>> /\ accumulator[s] = <<>> /\ wire[s] = <<>>
    BY DEF StreamInit
  <2> DEFINE rest == [i \in 0..0 |-> <<>>]
  <2>2. <<>> \in Seq(Tokens) /\ Len(<<>>) = 0 /\ <<>> \o <<>> = <<>>
    BY EmptySeq, ConcatEmptySeq
  <2>3. AreTails(rest, <<>>) /\ rest[0] = <<>>
    BY <2>2 DEF AreTails
  <2> HIDE DEF rest
  <2>4. Follows(<<>>, <<>>, 0)
    BY <2>3 DEF Follows
  <2> QED BY <2>1, <2>2, <2>4 DEF StreamOwn
<1> QED BY <1>1, <1>2 DEF StreamInv

\* What does not touch a stream keeps what is said of it.
LEMMA OwnKept ==
  ASSUME NEW s \in Streams, StreamOwn(s), posted'[s] = posted[s],
         delivered'[s] = delivered[s], wire'[s] = wire[s],
         accumulator'[s] = accumulator[s]
  PROVE  StreamOwn(s)'
BY DEF StreamOwn

LEMMA SendKeeps ==
  ASSUME StreamInv, NEW s \in Streams, NEW text \in Framed, Send(s, text)
  PROVE  StreamInv'
<1>1. /\ posted \in [Streams -> Seq(Framed)] /\ delivered \in [Streams -> Seq(Seq(Tokens))]
      /\ wire \in [Streams -> Seq(Tokens)] /\ accumulator \in [Streams -> Seq(Tokens)]
      /\ text \in Seq(Tokens)
  BY DEF StreamInv, StreamTypes, Framed
<1>2. /\ posted' = [posted EXCEPT ![s] = Append(@, text)]
      /\ wire' = [wire EXCEPT ![s] = @ \o text]
      /\ accumulator' = accumulator /\ delivered' = delivered
  BY DEF Send
<1>3. Append(posted[s], text) \in Seq(Framed) /\ wire[s] \o text \in Seq(Tokens)
  BY <1>1, AppendProperties, ConcatProperties
<1>4. StreamTypes'
  BY <1>1, <1>2, <1>3 DEF StreamTypes
<1>5. StreamOwn(s)'
  <2> DEFINE k == Len(delivered[s])
  <2>1. StreamOwn(s)
    BY DEF StreamInv
  <2>2. posted'[s] = Append(posted[s], text) /\ wire'[s] = wire[s] \o text
    BY <1>1, <1>2
  <2>3. posted[s] \in Seq(Framed) /\ Len(posted[s]) \in Nat /\ k \in Nat
    BY <1>1, LenProperties
  <2>4. /\ Len(posted'[s]) = Len(posted[s]) + 1
        /\ \A i \in 1..Len(posted[s]) : posted'[s][i] = posted[s][i]
    BY <2>2, <2>3, AppendProperties
  <2>5. k <= Len(posted'[s]) /\ \A i \in 1..k : delivered[s][i] = posted'[s][i]
    BY <2>1, <2>3, <2>4 DEF StreamOwn
  <2>6. accumulator[s] \o wire[s] \in Seq(Tokens)
    BY <1>1, ConcatProperties
  <2>7. k \in 0..Len(posted[s]) /\ Follows(accumulator[s] \o wire[s], posted[s], k)
    BY <2>1, <2>3 DEF StreamOwn
  <2>8. Follows((accumulator[s] \o wire[s]) \o text, posted'[s], k)
    BY <2>2, <2>3, <2>6, <2>7, SentFollows, Zenon
  <2>9. (accumulator[s] \o wire[s]) \o text = accumulator[s] \o wire'[s]
    <3>1. accumulator[s] \in Seq(Tokens) /\ wire[s] \in Seq(Tokens)
      BY <1>1
    <3>2. (accumulator[s] \o wire[s]) \o text = accumulator[s] \o (wire[s] \o text)
      BY <1>1, <3>1, Regroup, Zenon
    <3> QED BY <2>2, <3>2, Zenon
  <2> QED BY <1>2, <2>5, <2>8, <2>9 DEF StreamOwn
<1>6. ASSUME NEW o \in Streams \ {s} PROVE StreamOwn(o)'
  <2>1. /\ posted'[o] = posted[o] /\ wire'[o] = wire[o]
        /\ accumulator'[o] = accumulator[o] /\ delivered'[o] = delivered[o]
    BY <1>1, <1>2
  <2>2. StreamOwn(o)
    BY DEF StreamInv
  <2> QED BY <2>1, <2>2, OwnKept
<1> QED BY <1>4, <1>5, <1>6 DEF StreamInv

LEMMA RecvKeeps ==
  ASSUME StreamInv, NEW s \in Streams, NEW n \in ChunkSizes, Recv(s, n)
  PROVE  StreamInv'
<1> DEFINE size == IF n < Len(wire[s]) THEN n ELSE Len(wire[s])
<1>1. /\ posted \in [Streams -> Seq(Framed)] /\ delivered \in [Streams -> Seq(Seq(Tokens))]
      /\ wire \in [Streams -> Seq(Tokens)] /\ accumulator \in [Streams -> Seq(Tokens)]
  BY DEF StreamInv, StreamTypes
<1>2. /\ accumulator' = [accumulator EXCEPT ![s] = @ \o SubSeq(wire[s], 1, size)]
      /\ wire' = [wire EXCEPT ![s] = SubSeq(@, size + 1, Len(@))]
      /\ posted' = posted /\ delivered' = delivered
  BY DEF Recv
<1>3. size \in Nat /\ size <= Len(wire[s])
  <2>1. n \in Nat /\ Len(wire[s]) \in Nat
    BY <1>1, ChunkAssumption, LenProperties
  <2> QED BY <2>1
<1> HIDE DEF size
<1>4. /\ SubSeq(wire[s], size + 1, Len(wire[s])) \in Seq(Tokens)
      /\ accumulator[s] \o SubSeq(wire[s], 1, size) \in Seq(Tokens)
      /\ (accumulator[s] \o SubSeq(wire[s], 1, size)) \o SubSeq(wire[s], size + 1, Len(wire[s]))
           = accumulator[s] \o wire[s]
  <2>1. accumulator[s] \in Seq(Tokens) /\ wire[s] \in Seq(Tokens)
    BY <1>1
  <2> QED BY <1>3, <2>1, PieceMoved, Zenon
<1>5. StreamTypes'
  BY <1>1, <1>2, <1>4 DEF StreamTypes
<1>6. StreamOwn(s)'
  <2>1. /\ accumulator'[s] = accumulator[s] \o SubSeq(wire[s], 1, size)
        /\ wire'[s] = SubSeq(wire[s], size + 1, Len(wire[s]))
    BY <1>1, <1>2
  <2>2. accumulator'[s] \o wire'[s] = accumulator[s] \o wire[s]
    BY <1>4, <2>1
  <2>3. StreamOwn(s)
    BY DEF StreamInv
  <2> QED BY <1>2, <2>2, <2>3 DEF StreamOwn
<1>7. ASSUME NEW o \in Streams \ {s} PROVE StreamOwn(o)'
  <2>1. /\ posted'[o] = posted[o] /\ wire'[o] = wire[o]
        /\ accumulator'[o] = accumulator[o] /\ delivered'[o] = delivered[o]
    BY <1>1, <1>2
  <2>2. StreamOwn(o)
    BY DEF StreamInv
  <2> QED BY <2>1, <2>2, OwnKept
<1> QED BY <1>5, <1>6, <1>7 DEF StreamInv

\* What Deliver hands over is the next text, whole.
LEMMA NextIsWhole ==
  ASSUME StreamInv, NEW s \in Streams, Deliver(s)
  PROVE  LET k == Len(delivered[s])
         IN  /\ k < Len(posted[s])
             /\ delivered'[s] = Append(delivered[s], posted[s][k + 1])
             /\ accumulator'[s] \in Seq(Tokens)
             /\ Follows(accumulator'[s] \o wire[s], posted[s], k + 1)
<1> DEFINE k == Len(delivered[s])
           a == accumulator[s]
           w == wire[s]
           pos == DelimiterAt(a)
           p == posted[s][k + 1]
           r(rest) == rest[k + 1]
<1>1. /\ posted[s] \in Seq(Framed) /\ delivered[s] \in Seq(Seq(Tokens))
      /\ a \in Seq(Tokens) /\ w \in Seq(Tokens)
      /\ Len(posted[s]) \in Nat /\ k \in Nat /\ Len(a) \in Nat
  BY LenProperties DEF StreamInv, StreamTypes
<1>2. /\ pos # 0
      /\ delivered'[s] = Append(delivered[s], SubSeq(a, 1, pos + 3))
      /\ accumulator'[s] = SubSeq(a, pos + 4, Len(a))
  BY DEF Deliver, StreamInv, StreamTypes
<1>3. k <= Len(posted[s])
  BY DEF StreamInv, StreamOwn
<1>4. PICK rest : AreTails(rest, posted[s]) /\ rest[k] = a \o w
  BY DEF StreamInv, StreamOwn, Follows
<1>5. pos \in Nat /\ pos + 3 <= Len(a)
  BY <1>1, <1>2, DelimiterFound DEF Stands
<1>6. k < Len(posted[s])
  <2>1. SUFFICES ASSUME k = Len(posted[s]) PROVE FALSE
    BY <1>1, <1>3
  <2>2. a \o w = <<>>
    BY <1>4, <2>1 DEF AreTails
  <2>3. a = <<>>
    BY <1>1, <2>2, ConcatEqualIffEmpty
  <2> QED BY <1>5, <2>3
<1>7. p \in Framed /\ p \in Seq(Tokens) /\ r(rest) \in Seq(Tokens)
  BY <1>1, <1>4, <1>6, ElementOfSeq DEF AreTails, Framed
<1>8. a \o w = p \o r(rest)
  <2>1. k + 1 \in 1..Len(posted[s]) /\ (k + 1) - 1 = k
    BY <1>1, <1>6
  <2> QED BY <1>4, <2>1 DEF AreTails
<1> HIDE DEF k, p, w, a, r
<1>9. pos + 3 = Len(p)
  BY <1>1, <1>2, <1>7, <1>8, CutIsWhole, Zenon
<1>10. /\ SubSeq(a, 1, Len(p)) = p
       /\ SubSeq(a, Len(p) + 1, Len(a)) \in Seq(Tokens)
       /\ SubSeq(a, Len(p) + 1, Len(a)) \o w = r(rest)
  <2>1. Len(p) <= Len(a)
    BY <1>5, <1>9
  <2> QED BY <1>1, <1>7, <1>8, <2>1, CutParts, Zenon
<1>11. Len(p) + 1 = pos + 4
  BY <1>5, <1>9
<1>12. delivered'[s] = Append(delivered[s], p) /\ accumulator'[s] = SubSeq(a, Len(p) + 1, Len(a))
  BY <1>2, <1>9, <1>10, <1>11
<1>13. accumulator'[s] \in Seq(Tokens) /\ rest[k + 1] = accumulator'[s] \o w
  BY <1>10, <1>12 DEF r
<1>14. Follows(accumulator'[s] \o w, posted[s], k + 1)
  BY <1>4, <1>13 DEF Follows
<1> QED BY <1>6, <1>12, <1>13, <1>14 DEF k, p, w

LEMMA DeliverKeeps ==
  ASSUME StreamInv, NEW s \in Streams, Deliver(s)
  PROVE  StreamInv'
<1> DEFINE k == Len(delivered[s])
<1>1. /\ posted \in [Streams -> Seq(Framed)] /\ delivered \in [Streams -> Seq(Seq(Tokens))]
      /\ wire \in [Streams -> Seq(Tokens)] /\ accumulator \in [Streams -> Seq(Tokens)]
  BY DEF StreamInv, StreamTypes
<1>2. /\ k < Len(posted[s])
      /\ delivered'[s] = Append(delivered[s], posted[s][k + 1])
      /\ accumulator'[s] \in Seq(Tokens)
      /\ Follows(accumulator'[s] \o wire[s], posted[s], k + 1)
  BY NextIsWhole
<1>3. /\ posted' = posted /\ wire' = wire
      /\ \E t : delivered' = [delivered EXCEPT ![s] = t]
      /\ \E t : accumulator' = [accumulator EXCEPT ![s] = t]
  BY DEF Deliver
<1>4. posted[s] \in Seq(Framed) /\ Len(posted[s]) \in Nat /\ k \in Nat
  BY <1>1, LenProperties
<1>5. posted[s][k + 1] \in Seq(Tokens)
  BY <1>2, <1>4, ElementOfSeq DEF Framed
<1>6. /\ delivered'[s] \in Seq(Seq(Tokens)) /\ Len(delivered'[s]) = k + 1
      /\ \A i \in 1..k : delivered'[s][i] = delivered[s][i]
      /\ delivered'[s][k + 1] = posted[s][k + 1]
  <2>1. delivered[s] \in Seq(Seq(Tokens))
    BY <1>1
  <2> QED BY <1>2, <1>5, <2>1, AppendProperties
<1>7. StreamTypes'
  BY <1>1, <1>2, <1>3, <1>6 DEF StreamTypes
<1>8. StreamOwn(s)'
  <2>1. \A i \in 1..k : delivered[s][i] = posted[s][i]
    BY DEF StreamInv, StreamOwn
  <2>2. \A i \in 1..k + 1 : delivered'[s][i] = posted[s][i]
    <3> TAKE i \in 1..k + 1
    <3>1. i = k + 1 \/ i \in 1..k
      BY <1>4
    <3> HIDE DEF k
    <3> QED BY <1>6, <2>1, <3>1
  <2>3. k + 1 <= Len(posted[s])
    BY <1>2, <1>4
  <2> HIDE DEF k
  <2> QED BY <1>2, <1>3, <1>6, <2>2, <2>3 DEF StreamOwn
<1>9. ASSUME NEW o \in Streams \ {s} PROVE StreamOwn(o)'
  <2>1. /\ posted'[o] = posted[o] /\ wire'[o] = wire[o]
        /\ accumulator'[o] = accumulator[o] /\ delivered'[o] = delivered[o]
    BY <1>1, <1>3
  <2>2. StreamOwn(o)
    BY DEF StreamInv
  <2> QED BY <2>1, <2>2, OwnKept
<1> QED BY <1>7, <1>8, <1>9 DEF StreamInv

LEMMA StreamStep == StreamInv /\ [StreamNext]_streamVars => StreamInv'
<1> SUFFICES ASSUME StreamInv, [StreamNext]_streamVars PROVE StreamInv'
  OBVIOUS
<1>1. CASE StreamNext
  <2>1. PICK s \in Streams : Receive(s) \/ \E text \in Framed : Send(s, text)
    BY <1>1 DEF StreamNext
  <2>2. CASE Deliver(s)
    BY <2>2, DeliverKeeps
  <2>3. CASE \E n \in ChunkSizes : Recv(s, n)
    BY <2>3, RecvKeeps
  <2>4. CASE \E text \in Framed : Send(s, text)
    BY <2>4, SendKeeps
  <2> QED BY <2>1, <2>2, <2>3, <2>4 DEF Receive
<1>2. CASE UNCHANGED streamVars
  BY <1>2 DEF streamVars, StreamInv, StreamTypes, StreamOwn
<1> QED BY <1>1, <1>2

\* Every step of a stream is a step of the channel, or none.
LEMMA StepIsChannelStep ==
  StreamInv /\ [StreamNext]_streamVars => [Channel!Next]_(Channel!vars)
<1> SUFFICES ASSUME StreamInv, [StreamNext]_streamVars
             PROVE  Channel!Next \/ UNCHANGED <<posted, delivered>>
  BY DEF Channel!vars
<1>1. CASE StreamNext
  <2>1. PICK s \in Streams : Receive(s) \/ \E text \in Framed : Send(s, text)
    BY <1>1 DEF StreamNext
  <2>2. CASE Deliver(s)
    <3>1. /\ Len(delivered[s]) < Len(posted[s])
          /\ delivered'[s] = Append(delivered[s], posted[s][Len(delivered[s]) + 1])
      BY <2>2, NextIsWhole
    <3>2. posted' = posted /\ \E t : delivered' = [delivered EXCEPT ![s] = t]
      BY <2>2 DEF Deliver
    <3>3. delivered \in [Streams -> Seq(Seq(Tokens))]
      BY DEF StreamInv, StreamTypes
    <3>4. delivered' = [delivered EXCEPT ![s] = Append(@, posted[s][Len(@) + 1])]
      BY <3>1, <3>2, <3>3
    <3> QED BY <3>1, <3>2, <3>4 DEF Channel!Next, Channel!Receive
  <2>3. CASE \E n \in ChunkSizes : Recv(s, n)
    BY <2>3 DEF Recv
  <2>4. CASE \E text \in Framed : Send(s, text)
    <3>1. PICK text \in Framed : Send(s, text)
      BY <2>4
    <3>2. posted \in [Streams -> Seq(Framed)] /\ posted[s] \in Seq(Framed)
      BY DEF StreamInv, StreamTypes
    <3>3. /\ posted' = [posted EXCEPT ![s] = Append(@, text)]
          /\ posted'[s] = Append(posted[s], text) /\ delivered' = delivered
      BY <3>1, <3>2 DEF Send
    <3>4. posted'[s] # <<>> /\ posted'[s][Len(posted'[s])] = text
      BY <3>2, <3>3, AppendProperties
    <3> QED BY <3>3, <3>4 DEF Channel!Next, Channel!Send
  <2> QED BY <2>1, <2>2, <2>3, <2>4 DEF Receive
<1>2. CASE UNCHANGED streamVars
  BY <1>2 DEF streamVars
<1> QED BY <1>1, <1>2

\* The framing of tcp_transport.cpp:164 neither splits nor merges, loses nor
\* doubles, and keeps the order, for every number of streams, whatever recv
\* returns, as long as what is sent ends in the delimiter and holds no other.
THEOREM FramingKeepsMessages == StreamSpec => StreamsAreChannels
<1>1. StreamInit => Channel!Init
  BY DEF StreamInit, Channel!Init
<1>2. StreamSpec => []StreamInv
  BY StreamStart, StreamStep, PTL DEF StreamSpec
<1>3. StreamSpec => Channel!Spec
  BY <1>1, <1>2, StepIsChannelStep, PTL DEF StreamSpec, Channel!Spec
<1> QED BY <1>3 DEF StreamsAreChannels
=============================================================================
