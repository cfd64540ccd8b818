--------------------------- MODULE SequenceLemmas ----------------------------
(***************************************************************************)
(* Cutting sequences: what a buffer of units, a position in it and a queue *)
(* behind it do to the sequence of units that follow the position.         *)
(***************************************************************************)
EXTENDS Integers, Sequences, SequenceTheorems, TLAPS

\* Cutting s \o t where s ends gives s and t back.
LEMMA SplitConcat ==
  ASSUME NEW S, NEW s \in Seq(S), NEW t \in Seq(S)
  PROVE  /\ Len(s) \in 0 .. Len(s \o t)
         /\ SubSeq(s \o t, 1, Len(s)) = s
         /\ SubSeq(s \o t, Len(s) + 1, Len(s \o t)) = t
<1>1. /\ Len(s) \in Nat /\ Len(t) \in Nat
      /\ Len(s \o t) = Len(s) + Len(t)
  BY ConcatProperties
<1>2. SubSeq(s \o t, 1, Len(s)) = s
  <2>1. CASE Len(s) = 0
    BY <1>1, <2>1, EmptySeq, SubSeqEmpty
  <2>2. CASE Len(s) > 0
    <3>1. SubSeq(s \o t, 1, Len(s)) = SubSeq(s, 1, Len(s))
      BY <1>1, <2>2, SubSeqOfConcat1
    <3> QED BY <3>1, SubSeqFull
  <2> QED BY <1>1, <2>1, <2>2
<1>3. SubSeq(s \o t, Len(s) + 1, Len(s \o t)) = t
  <2>1. CASE Len(t) = 0
    BY <1>1, <2>1, EmptySeq, SubSeqEmpty
  <2>2. CASE Len(t) > 0
    <3>1. SubSeq(s \o t, Len(s) + 1, Len(s) + Len(t))
            = SubSeq(t, Len(s) + 1 - Len(s), Len(s) + Len(t) - Len(s))
      BY <1>1, <2>2, SubSeqOfConcat2
    <3>2. Len(s) + 1 - Len(s) = 1 /\ Len(s) + Len(t) - Len(s) = Len(t)
      BY <1>1
    <3> QED BY <1>1, <3>1, <3>2, SubSeqFull
  <2> QED BY <1>1, <2>1, <2>2
<1> QED BY <1>1, <1>2, <1>3

\* Concatenation regroups, in the form that fits a sequence known to be a cut one.
LEMMA Regroup ==
  ASSUME NEW S, NEW a \in Seq(S), NEW b \in Seq(S), NEW c \in Seq(S),
         NEW r, r = a \o b
  PROVE  r \o c = a \o (b \o c)
<1>1. (a \o b) \o c = a \o (b \o c)
  BY ConcatAssociative
<1> QED BY <1>1

\* A stretch of a sequence is a sequence.
LEMMA StretchType ==
  ASSUME NEW S, NEW p \in Seq(S), NEW i \in 0 .. Len(p), NEW j \in i .. Len(p)
  PROVE  SubSeq(p, i + 1, j) \in Seq(S) /\ Len(SubSeq(p, i + 1, j)) = j - i
<1>1. Len(p) \in Nat /\ \A n \in i + 1 .. j : p[n] \in S
  BY ElementOfSeq
<1>2. i + 1 \in Int /\ j \in Int
  BY <1>1
<1>3. /\ SubSeq(p, i + 1, j) \in Seq(S)
      /\ Len(SubSeq(p, i + 1, j)) = IF i + 1 <= j THEN j - (i + 1) + 1 ELSE 0
  BY <1>1, <1>2, SubSeqProperties
<1> QED BY <1>1, <1>3

\* Cutting what follows position i at position j.
LEMMA CutAt ==
  ASSUME NEW S, NEW p \in Seq(S), NEW i \in 0 .. Len(p), NEW j \in i .. Len(p)
  PROVE  SubSeq(p, i + 1, Len(p)) = SubSeq(p, i + 1, j) \o SubSeq(p, j + 1, Len(p))
<1> DEFINE m == i + 1
           n == Len(p)
<1>1. Len(p) \in Nat
  OBVIOUS
<1>2. /\ m \in 1 .. Len(p) + 1
      /\ j \in m - 1 .. Len(p)
      /\ n \in j .. Len(p)
  BY <1>1
<1> HIDE DEF m, n
<1>3. SubSeq(p, m, j) \o SubSeq(p, j + 1, n) = SubSeq(p, m, n)
  BY <1>2, ConcatAdjacentSubSeq
<1> QED BY <1>3 DEF m, n

\* Moving the head of q to the end of p leaves what follows position k as it was.
LEMMA DrainKeeps ==
  ASSUME NEW S, NEW p \in Seq(S), NEW q \in Seq(S), NEW k \in 0 .. Len(p), q # <<>>
  PROVE  /\ Append(p, Head(q)) \in Seq(S)
         /\ Len(Append(p, Head(q))) = Len(p) + 1
         /\ SubSeq(Append(p, Head(q)), k + 1, Len(Append(p, Head(q)))) \o Tail(q)
              = SubSeq(p, k + 1, Len(p)) \o q
<1> DEFINE h == <<Head(q)>>
           b == SubSeq(p, k + 1, Len(p))
<1>1. Head(q) \in S /\ Tail(q) \in Seq(S) /\ Len(p) \in Nat /\ h \in Seq(S) /\ Len(h) = 1
  BY HeadTailProperties
<1>2. Append(p, Head(q)) = p \o h
  BY <1>1, AppendIsConcat
<1>3. p \o h \in Seq(S) /\ Len(p \o h) = Len(p) + 1
  BY <1>1, ConcatProperties
<1>4. b \in Seq(S)
  BY <1>1, StretchType
<1>5. q = h \o Tail(q)
  <2>1. Len(q) \in Nat \ {0} /\ Head(q) = q[1]
    BY EmptySeq
  <2>2. 1 \in 1 .. Len(q) /\ Len(q) \in 1 .. Len(q)
    BY <2>1
  <2>3. SubSeq(q, 1, Len(q)) = <<q[1]>> \o SubSeq(q, 1 + 1, Len(q))
    BY <2>2, SubSeqRecursiveFirst
  <2>4. Tail(q) = SubSeq(q, 2, Len(q)) /\ SubSeq(q, 1, Len(q)) = q /\ 1 + 1 = 2
    BY TailIsSubSeq, SubSeqFull
  <2> QED BY <2>1, <2>3, <2>4
<1>6. SubSeq(p \o h, k + 1, Len(p \o h)) = b \o h
  <2>1. k \in 0 .. Len(p \o h) /\ Len(p) \in k .. Len(p \o h)
    BY <1>1, <1>3
  <2>2. SubSeq(p \o h, k + 1, Len(p \o h))
          = SubSeq(p \o h, k + 1, Len(p)) \o SubSeq(p \o h, Len(p) + 1, Len(p \o h))
    BY <1>3, <2>1, CutAt
  <2>3. SubSeq(p \o h, Len(p) + 1, Len(p \o h)) = h
    BY <1>1, SplitConcat
  <2>4. SubSeq(p \o h, k + 1, Len(p)) = b
    <3>1. CASE k = Len(p)
      BY <1>1, <3>1, SubSeqEmpty
    <3>2. CASE k < Len(p)
      <4>1. k + 1 \in 1 .. Len(p) /\ Len(p) \in 1 .. Len(p)
        BY <1>1, <3>2
      <4> QED BY <1>1, <4>1, SubSeqOfConcat1
    <3> QED BY <1>1, <3>1, <3>2
  <2> QED BY <2>2, <2>3, <2>4
<1>7. (b \o h) \o Tail(q) = b \o (h \o Tail(q))
  <2>1. h \in Seq(S) /\ Tail(q) \in Seq(S)
    BY <1>1
  <2> HIDE DEF h, b
  <2>2. b \in Seq(S)
    BY <1>4
  <2> QED BY ONLY <2>1, <2>2, Regroup
<1> QED BY <1>2, <1>3, <1>5, <1>6, <1>7

\* Consuming n units after position k takes the first n units of what is unread.
LEMMA ConsumeTakes ==
  ASSUME NEW S, NEW p \in Seq(S), NEW q \in Seq(S),
         NEW k \in 0 .. Len(p), NEW n \in 0 .. Len(p) - k
  PROVE  LET r == SubSeq(p, k + 1, Len(p))
             u == r \o q
         IN  /\ n \in 0 .. Len(u)
             /\ SubSeq(r, 1, n) = SubSeq(u, 1, n)
             /\ SubSeq(p, k + n + 1, Len(p)) \o q = SubSeq(u, n + 1, Len(u))
<1> DEFINE r == SubSeq(p, k + 1, Len(p))
           a == SubSeq(p, k + 1, k + n)
           s == SubSeq(p, k + n + 1, Len(p))
<1>1. Len(p) \in Nat /\ k + n \in k .. Len(p) /\ k + n \in 0 .. Len(p)
  OBVIOUS
<1>2. a \in Seq(S) /\ Len(a) = n
  <2>1. Len(a) = k + n - k /\ a \in Seq(S)
    BY <1>1, StretchType
  <2> QED BY <1>1, <2>1
<1>3. s \in Seq(S)
  BY <1>1, StretchType
<1>4. r = a \o s
  BY <1>1, CutAt
<1> HIDE DEF a, s, r
<1>5. s \o q \in Seq(S)
  BY <1>3, ConcatProperties, ZenonT(30)
<1>6. r \o q = a \o (s \o q)
  <2>1. a \in Seq(S)
    BY <1>2
  <2>2. s \in Seq(S) /\ q \in Seq(S) /\ r = a \o s
    BY <1>3, <1>4
  <2> QED BY ONLY <2>1, <2>2, Regroup
<1>7. SubSeq(r, 1, n) = a
  BY <1>2, <1>3, <1>4, SplitConcat
<1>8. /\ n \in 0 .. Len(r \o q)
      /\ SubSeq(r \o q, 1, n) = a
      /\ SubSeq(r \o q, n + 1, Len(r \o q)) = s \o q
  <2> DEFINE w == s \o q
  <2>1. w \in Seq(S) /\ r \o q = a \o w
    BY <1>5, <1>6
  <2> HIDE DEF w
  <2>2. /\ Len(a) \in 0 .. Len(a \o w)
        /\ SubSeq(a \o w, 1, Len(a)) = a
        /\ SubSeq(a \o w, Len(a) + 1, Len(a \o w)) = w
    <3>1. a \in Seq(S) /\ w \in Seq(S)
      BY <1>2, <2>1, ZenonT(30)
    <3> QED BY ONLY <3>1, SplitConcat, ZenonT(30)
  <2>3. /\ n \in 0 .. Len(a \o w)
        /\ SubSeq(a \o w, 1, n) = a
        /\ SubSeq(a \o w, n + 1, Len(a \o w)) = w
    BY <1>2, <2>2
  <2> QED BY <2>1, <2>3 DEF w
<1> QED BY <1>7, <1>8 DEF r, s

\* What follows position j >= k is a stretch of what is unread.
LEMMA TapReads ==
  ASSUME NEW S, NEW p \in Seq(S), NEW q \in Seq(S),
         NEW k \in 0 .. Len(p), NEW j \in k .. Len(p)
  PROVE  \E m, n \in 0 .. Len(SubSeq(p, k + 1, Len(p)) \o q) :
           SubSeq(p, j + 1, Len(p)) = SubSeq(SubSeq(p, k + 1, Len(p)) \o q, m + 1, n)
<1> DEFINE r == SubSeq(p, k + 1, Len(p))
           a == SubSeq(p, k + 1, j)
           t == SubSeq(p, j + 1, Len(p))
<1>1. Len(p) \in Nat /\ j \in 0 .. Len(p) /\ Len(p) \in j .. Len(p) /\ Len(p) \in k .. Len(p)
  OBVIOUS
<1>2. a \in Seq(S) /\ Len(a) = j - k /\ t \in Seq(S) /\ r \in Seq(S) /\ Len(r) = Len(p) - k
  BY <1>1, StretchType
<1>3. r = a \o t
  BY <1>1, CutAt
<1> HIDE DEF a, r, t
<1>4. SubSeq(r, Len(a) + 1, Len(r)) = t /\ Len(a) \in 0 .. Len(r)
  <2>1. a \in Seq(S) /\ t \in Seq(S)
    BY <1>2
  <2>2. SubSeq(a \o t, Len(a) + 1, Len(a \o t)) = t /\ Len(a) \in 0 .. Len(a \o t)
    BY ONLY <2>1, SplitConcat, ZenonT(30)
  <2> QED BY <1>3, <2>2
<1>5. Len(q) \in Nat /\ Len(r \o q) = Len(r) + Len(q) /\ Len(r) \in Nat /\ Len(a) \in Nat
  <2>1. Len(r \o q) = Len(r) + Len(q)
    BY <1>2, ConcatProperties, ZenonT(30)
  <2> QED BY <1>2, <2>1, LenProperties
<1>6. SubSeq(r \o q, Len(a) + 1, Len(r)) = t
  <2>1. CASE Len(a) = Len(r)
    BY <1>4, <1>5, <2>1, SubSeqEmpty
  <2>2. CASE Len(a) < Len(r)
    <3>1. Len(a) + 1 \in 1 .. Len(r) /\ Len(r) \in 1 .. Len(r)
      BY <1>5, <2>2
    <3> QED BY <1>2, <1>4, <3>1, SubSeqOfConcat1
  <2> QED BY <1>4, <1>5, <2>1, <2>2
<1>7. Len(a) \in 0 .. Len(r \o q) /\ Len(r) \in 0 .. Len(r \o q)
  BY <1>4, <1>5
<1> QED BY <1>6, <1>7 DEF r, t

\* Appending to what is not drained appends to what is unread.
LEMMA AppendUnread ==
  ASSUME NEW S, NEW r \in Seq(S), NEW q \in Seq(S), NEW x \in S
  PROVE  r \o Append(q, x) = Append(r \o q, x)
<1>1. <<x>> \in Seq(S) /\ r \o q \in Seq(S)
  BY ConcatProperties
<1>2. Append(q, x) = q \o <<x>> /\ Append(r \o q, x) = (r \o q) \o <<x>>
  BY <1>1, AppendIsConcat
<1> QED BY <1>1, <1>2, ConcatAssociative

\* Handing the first n units over leaves what was handed over and what was not,
\* end to end, as it was.
LEMMA HandOver ==
  ASSUME NEW S, NEW d \in Seq(S), NEW t \in Seq(S), NEW n \in 0 .. Len(t)
  PROVE  (d \o SubSeq(t, 1, n)) \o SubSeq(t, n + 1, Len(t)) = d \o t
<1> DEFINE a == SubSeq(t, 1, n)
           b == SubSeq(t, n + 1, Len(t))
<1>1. 0 \in 0 .. Len(t) /\ n \in 0 .. Len(t) /\ Len(t) \in n .. Len(t) /\ Len(t) \in Nat
  BY LenProperties
<1>2. a \in Seq(S)
  BY <1>1, StretchType
<1>3. b \in Seq(S)
  BY <1>1, StretchType
<1>4. t = a \o b
  <2>1. SubSeq(t, 0 + 1, Len(t)) = SubSeq(t, 0 + 1, n) \o SubSeq(t, n + 1, Len(t))
    BY <1>1, CutAt
  <2>2. SubSeq(t, 1, Len(t)) = t
    BY SubSeqFull
  <2>3. 0 + 1 = 1
    OBVIOUS
  <2> QED BY <2>1, <2>2, <2>3
<1> HIDE DEF a, b
<1>5. (d \o a) \o b = d \o (a \o b)
  BY <1>2, <1>3, ConcatAssociative
<1> QED BY <1>4, <1>5 DEF a, b

\* Losing the far end of the second of two sequences loses that of the two.
LEMMA CutBehind ==
  ASSUME NEW S, NEW d \in Seq(S), NEW t \in Seq(S), NEW n \in 0 .. Len(t)
  PROVE  /\ Len(d) + n \in 0 .. Len(d \o t)
         /\ d \o SubSeq(t, 1, n) = SubSeq(d \o t, 1, Len(d) + n)
<1> DEFINE a == SubSeq(t, 1, n)
           b == SubSeq(t, n + 1, Len(t))
<1>1. 0 \in 0 .. Len(t) /\ n \in 0 .. Len(t) /\ Len(t) \in n .. Len(t) /\ Len(t) \in Nat
      /\ Len(d) \in Nat
  BY LenProperties
<1>2. a \in Seq(S) /\ Len(a) = n
  <2>1. a \in Seq(S) /\ Len(a) = n - 0
    BY <1>1, StretchType
  <2> QED BY <1>1, <2>1
<1>3. b \in Seq(S)
  BY <1>1, StretchType
<1>4. (d \o a) \o b = d \o t
  BY HandOver
<1> HIDE DEF a, b
<1>5. d \o a \in Seq(S) /\ Len(d \o a) = Len(d) + n
  BY <1>2, ConcatProperties
<1>6. /\ Len(d \o a) \in 0 .. Len((d \o a) \o b)
      /\ SubSeq((d \o a) \o b, 1, Len(d \o a)) = d \o a
  BY <1>3, <1>5, SplitConcat
<1> QED BY <1>4, <1>5, <1>6 DEF a

\* The first k elements of a sequence, one by one.
LEMMA PrefixElements ==
  ASSUME NEW S, NEW s \in Seq(S), NEW k \in 0 .. Len(s)
  PROVE  /\ SubSeq(s, 1, k) \in Seq(S) /\ Len(SubSeq(s, 1, k)) = k
         /\ \A i \in 1 .. k : SubSeq(s, 1, k)[i] = s[i]
<1>1. Len(s) \in Nat /\ k \in Int /\ 1 \in Int /\ \A i \in 1 .. k : s[i] \in S
  BY LenProperties, ElementOfSeq
<1>2. /\ SubSeq(s, 1, k) \in Seq(S)
      /\ Len(SubSeq(s, 1, k)) = IF 1 <= k THEN k - 1 + 1 ELSE 0
      /\ \A i \in 1 .. k - 1 + 1 : SubSeq(s, 1, k)[i] = s[1 + i - 1]
  BY <1>1, SubSeqProperties
<1> QED BY <1>1, <1>2

\* A prefix no longer than the first of two sequences is a prefix of it.
LEMMA PrefixOfConcat ==
  ASSUME NEW S, NEW s \in Seq(S), NEW t \in Seq(S), NEW m \in 0 .. Len(s)
  PROVE  SubSeq(s \o t, 1, m) = SubSeq(s, 1, m)
<1>1. CASE m = 0
  BY <1>1, SubSeqEmpty
<1>2. CASE m # 0
  <2>1. 1 \in 1 .. Len(s) /\ m \in 1 .. Len(s)
    BY <1>2, LenProperties
  <2> QED BY <2>1, SubSeqOfConcat1
<1> QED BY <1>1, <1>2
==============================================================================
