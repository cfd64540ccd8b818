--------------------------- MODULE McpPipesProofs ---------------------------
(***************************************************************************)
(* McpPumps implements BytePipe in both directions, for every number of    *)
(* requests, channel capacity and drain size.  What a step has to show is  *)
(* that the pieces of a buffer, a channel and a queue still line up, and   *)
(* that a frame which enters has not been here before.                     *)
(***************************************************************************)
EXTENDS McpPumpsProofs, SequenceLemmas

------------------------------------------------------------------------------
(* Sequences without repetition.                                           *)

LEMMA SingleOnce ==
  ASSUME NEW S, NEW x \in S
  PROVE  <<x>> \in Seq(S) /\ Len(<<x>>) = 1 /\ Range(<<x>>) = {x} /\ IsInjective(<<x>>)
BY DEF Range, IsInjective

LEMMA EmptyOnce == Range(<<>>) = {} /\ IsInjective(<<>>)
BY DEF Range, IsInjective

LEMMA FirstJoins ==
  ASSUME NEW S, NEW x \in S, NEW t \in Seq(S)
  PROVE  /\ <<x>> \o t \in Seq(S) /\ Len(<<x>> \o t) = 1 + Len(t) /\ Len(t) \in Nat
         /\ (<<x>> \o t)[1] = x
         /\ \A i \in 2 .. 1 + Len(t) : (<<x>> \o t)[i] = t[i - 1]
         /\ Range(<<x>> \o t) = {x} \union Range(t)
<1> DEFINE h == <<x>>
           r == h \o t
<1>1. h \in Seq(S) /\ Len(h) = 1 /\ h[1] = x
  BY SingleOnce
<1>2. Range(h) = {x}
  BY SingleOnce
<1> HIDE DEF h
<1>3. /\ r \in Seq(S) /\ Len(r) = Len(h) + Len(t) /\ Len(t) \in Nat
      /\ \A i \in 1 .. Len(h) + Len(t) : r[i] = IF i <= Len(h) THEN h[i] ELSE t[i - Len(h)]
  BY <1>1, ConcatProperties, LenProperties
<1>4. Range(r) = {x} \union Range(t)
  BY <1>1, <1>2, RangeConcatenation
<1> HIDE DEF r
<1>5. r[1] = x /\ \A i \in 2 .. 1 + Len(t) : r[i] = t[i - 1]
  BY <1>1, <1>3
<1> QED BY <1>1, <1>3, <1>4, <1>5 DEF h, r

LEMMA FirstThenRest ==
  ASSUME NEW S, NEW s \in Seq(S), s # <<>>
  PROVE  s = <<Head(s)>> \o Tail(s) /\ Range(s) = {Head(s)} \union Range(Tail(s))
<1> DEFINE x == Head(s)
           t == Tail(s)
           r == <<x>> \o t
<1>1. /\ x \in S /\ t \in Seq(S) /\ Len(t) = Len(s) - 1 /\ s[1] = x
      /\ \A i \in 1 .. Len(t) : t[i] = s[i + 1]
  BY HeadTailProperties
<1> HIDE DEF x, t
<1>2. /\ r \in Seq(S) /\ Len(r) = 1 + Len(t) /\ Len(t) \in Nat /\ r[1] = x
      /\ \A i \in 2 .. 1 + Len(t) : r[i] = t[i - 1]
  BY <1>1, FirstJoins
<1>3. Range(r) = {x} \union Range(t)
  BY <1>1, FirstJoins
<1> HIDE DEF r
<1>4. Len(s) \in Nat /\ Len(s) = Len(r)
  BY <1>1, <1>2, LenProperties
<1>5. ASSUME NEW i \in 1 .. Len(s) PROVE s[i] = r[i]
  <2>1. CASE i = 1
    BY <1>1, <1>2, <2>1
  <2>2. CASE i # 1
    <3>1. i - 1 \in 1 .. Len(t) /\ i \in 2 .. 1 + Len(t) /\ (i - 1) + 1 = i
      BY <1>2, <1>4, <2>2
    <3>2. t[i - 1] = s[(i - 1) + 1]
      BY <1>1, <3>1
    <3> QED BY <1>2, <3>1, <3>2
  <2> QED BY <2>1, <2>2
<1>6. s = r
  BY <1>2, <1>4, <1>5, SeqEqual
<1> QED BY <1>3, <1>6 DEF x, t, r

\* The head of a sequence without repetition does not come again.
LEMMA TailOnce ==
  ASSUME NEW S, NEW s \in Seq(S), s # <<>>, IsInjective(s)
  PROVE  /\ Head(s) \in S /\ Tail(s) \in Seq(S)
         /\ s = <<Head(s)>> \o Tail(s)
         /\ Range(s) = {Head(s)} \union Range(Tail(s))
         /\ Head(s) \notin Range(Tail(s))
         /\ IsInjective(Tail(s))
<1>1. /\ Head(s) \in S /\ Tail(s) \in Seq(S) /\ Len(Tail(s)) = Len(s) - 1
      /\ \A i \in 1 .. Len(Tail(s)) : Tail(s)[i] = s[i + 1]
      /\ Len(s) \in Nat \ {0} /\ Head(s) = s[1]
  BY HeadTailProperties, EmptySeq
<1>2. DOMAIN s = 1 .. Len(s) /\ DOMAIN Tail(s) = 1 .. Len(Tail(s))
  BY <1>1, LenProperties
<1>3. s = <<Head(s)>> \o Tail(s) /\ Range(s) = {Head(s)} \union Range(Tail(s))
  BY FirstThenRest
<1>4. Head(s) \notin Range(Tail(s)) /\ IsInjective(Tail(s))
  <2>1. \A i \in 1 .. Len(Tail(s)) :
          i + 1 \in 1 .. Len(s) /\ i + 1 # 1 /\ Tail(s)[i] = s[i + 1]
    BY <1>1
  <2>2. \A i \in 1 .. Len(Tail(s)) : Tail(s)[i] # s[1]
    BY <1>1, <1>2, <2>1 DEF IsInjective
  <2>3. \A i, j \in 1 .. Len(Tail(s)) : Tail(s)[i] = Tail(s)[j] => i = j
    BY <1>1, <1>2, <2>1 DEF IsInjective
  <2> QED BY <1>1, <1>2, <2>2, <2>3 DEF Range, IsInjective
<1> QED BY <1>1, <1>3, <1>4

\* Two sequences without repetition and without a common element.
LEMMA ConcatOnce ==
  ASSUME NEW S, NEW s \in Seq(S), NEW t \in Seq(S), IsInjective(s), IsInjective(t),
         Range(s) \intersect Range(t) = {}
  PROVE  /\ s \o t \in Seq(S) /\ IsInjective(s \o t)
         /\ Range(s \o t) = Range(s) \union Range(t)
<1>1. /\ s \o t \in Seq(S) /\ Len(s \o t) = Len(s) + Len(t)
      /\ \A i \in 1 .. Len(s) + Len(t) :
           (s \o t)[i] = IF i <= Len(s) THEN s[i] ELSE t[i - Len(s)]
  BY ConcatProperties
<1>2. /\ DOMAIN s = 1 .. Len(s) /\ DOMAIN t = 1 .. Len(t)
      /\ DOMAIN (s \o t) = 1 .. Len(s) + Len(t)
      /\ Len(s) \in Nat /\ Len(t) \in Nat
  BY <1>1, LenProperties
<1>3. \A i \in 1 .. Len(s) + Len(t) :
        \/ i \in 1 .. Len(s) /\ (s \o t)[i] = s[i] /\ s[i] \in Range(s)
        \/ /\ i \notin 1 .. Len(s) /\ i - Len(s) \in 1 .. Len(t)
           /\ (s \o t)[i] = t[i - Len(s)] /\ t[i - Len(s)] \in Range(t)
  BY <1>1, <1>2 DEF Range
<1>4. ASSUME NEW i \in 1 .. Len(s) + Len(t), NEW j \in 1 .. Len(s) + Len(t),
             (s \o t)[i] = (s \o t)[j]
      PROVE  i = j
  <2>1. CASE i \in 1 .. Len(s) /\ j \in 1 .. Len(s)
    BY <1>2, <1>3, <1>4, <2>1 DEF IsInjective
  <2>2. CASE i \notin 1 .. Len(s) /\ j \notin 1 .. Len(s)
    <3>1. i - Len(s) = j - Len(s)
      BY <1>2, <1>3, <1>4, <2>2 DEF IsInjective
    <3> QED BY <1>2, <3>1
  <2>3. CASE (i \in 1 .. Len(s)) # (j \in 1 .. Len(s))
    BY <1>3, <1>4, <2>3
  <2> QED BY <2>1, <2>2, <2>3
<1> QED BY <1>1, <1>2, <1>4, RangeConcatenation DEF IsInjective

\* What leaves at the front of a \o b is a, and b stays; if a is empty nothing
\* happens.
Leaves(a, b, d) ==
  \/ b = a \o b /\ d \o a = d
  \/ \E n \in 1 .. Len(a \o b) :
       /\ d \o a = d \o SubSeq(a \o b, 1, n)
       /\ b = SubSeq(a \o b, n + 1, Len(a \o b))

LEMMA FrontLeaves ==
  ASSUME NEW S, NEW a \in Seq(S), NEW b \in Seq(S), NEW d \in Seq(S)
  PROVE  Leaves(a, b, d)
<1> USE DEF Leaves
<1>1. CASE a = <<>>
  BY <1>1, ConcatEmptySeq
<1>2. CASE a # <<>>
  <2>1. Len(a) \in 1 .. Len(a \o b)
    BY <1>2, EmptySeq, SplitConcat
  <2> QED BY <2>1, SplitConcat
<1> QED BY <1>1, <1>2

------------------------------------------------------------------------------
(* The invariant.                                                          *)

\* A pump that has handed its chunk on holds none, and with the service its
\* channel goes.
NothingHeld ==
  /\ stdin \in {"reading"} \union StdinEnds => chunk = <<>>
  /\ service # "serving" => leftover = <<>> /\ inbound = <<>>

\* A request is in one place of the way to the service, once.
OnceOnTheWay ==
  /\ IsInjective(inbound) /\ IsInjective(input)
  /\ \A r \in Range(accepted) : r \notin Range(leftover) \union Range(inbound) \union Range(chunk) \union Range(input)
  /\ \A r \in Range(leftover) : r \notin Range(inbound) \union Range(chunk) \union Range(input)
  /\ \A r \in Range(inbound) : r \notin Range(chunk) \union Range(input)
  /\ \A r \in Range(chunk) : r \notin Range(input)
  /\ \A r \in Range(accepted) \union Range(leftover) \union Range(inbound)
              \union Range(chunk) \union Range(input) : r <= sent

\* A call that runs has not been answered.
AnsweredOnce ==
  /\ running \subseteq Range(accepted)
  /\ \A u \in Range(written) \union Range(buffer) \union Range(outbound) :
       u[1] \in Range(accepted) \ running

PipesInv == IInv /\ NothingHeld /\ OnceOnTheWay /\ AnsweredOnce

------------------------------------------------------------------------------
(* From the client to the service.                                         *)

Waiting == leftover \o inbound
Coming == IF stdin \in StdinEnds \/ service # "serving" THEN <<>> ELSE chunk \o input
WayOpen == stdin \notin StdinEnds /\ service = "serving"

LEMMA RequestsTyped ==
  ASSUME IInv
  PROVE  /\ leftover \in Seq(Requests) /\ inbound \in Seq(Requests) /\ chunk \in Seq(Requests)
         /\ input \in Seq(Requests) /\ accepted \in Seq(Requests) /\ <<>> \in Seq(Requests)
         /\ Waiting \in Seq(Requests) /\ Coming \in Seq(Requests)
         /\ Waiting \o Coming \in Seq(Requests)
<1>1. /\ leftover \in Seq(Requests) /\ inbound \in Seq(Requests) /\ chunk \in Seq(Requests)
      /\ input \in Seq(Requests) /\ accepted \in Seq(Requests) /\ <<>> \in Seq(Requests)
  BY EmptySeq DEF IInv, TypeOK
<1>2. leftover \o inbound \in Seq(Requests) /\ chunk \o input \in Seq(Requests)
  BY <1>1, ConcatProperties
<1>3. Waiting \in Seq(Requests) /\ Coming \in Seq(Requests)
  BY <1>1, <1>2 DEF Waiting, Coming
<1> QED BY <1>1, <1>3, ConcatProperties

\* The steps of the pipe, in these terms.
LEMMA RequestEnters ==
  ASSUME NEW r \in Requests, WayOpen, WayOpen', accepted' = accepted,
         r \notin Range(accepted \o (Waiting \o Coming)),
         Waiting' \o Coming' = (Waiting \o Coming) \o <<r>>
  PROVE  Requested!PipeNext
<1>1. Requested!UnitsOf(<<r>>) = {r}
  BY DEF Requested!UnitsOf
<1>2. Requested!UnitsOf(accepted \o (Waiting \o Coming)) = Range(accepted \o (Waiting \o Coming))
  BY DEF Requested!UnitsOf, Range
<1>3. Requested!UnitsOf(<<r>>) \cap Requested!UnitsOf(accepted \o (Waiting \o Coming)) = {}
  BY <1>1, <1>2
<1> HIDE DEF Requested!UnitsOf
<1> QED BY <1>3 DEF Requested!PipeNext, Requested!Put, Waiting, Coming, WayOpen

LEMMA RequestsMove ==
  ASSUME accepted' = accepted, WayOpen' = WayOpen, Waiting' \o Coming' = Waiting \o Coming
  PROVE  UNCHANGED Requested!pipeVars
BY DEF Requested!pipeVars, Waiting, Coming, WayOpen

LEMMA RequestsLost ==
  ASSUME accepted' = accepted, ~WayOpen',
         \E n \in 0 .. Len(Waiting \o Coming) :
           Waiting' \o Coming' = SubSeq(Waiting \o Coming, 1, n)
  PROVE  Requested!PipeNext
BY DEF Requested!PipeNext, Requested!Breaks, Waiting, Coming, WayOpen

RequestStep == [Requested!PipeNext]_(Requested!pipeVars)

\* Nothing moves on this side.
LEMMA RequestsRest ==
  ASSUME PipesInv, UNCHANGED <<sent, input, stdin, chunk, inbound, service, leftover, accepted>>
  PROVE  NothingHeld' /\ OnceOnTheWay' /\ RequestStep
<1>1. NothingHeld' /\ OnceOnTheWay'
  BY DEF PipesInv, NothingHeld, OnceOnTheWay
<1>2. UNCHANGED Requested!pipeVars
  BY RequestsMove DEF Waiting, Coming, WayOpen
<1> QED BY <1>1, <1>2 DEF RequestStep

\* While the way is open the next request joins it at its end.
LEMMA RequestJoins ==
  ASSUME PipesInv, ClientSends, WayOpen
  PROVE  /\ Waiting' \o Coming' = (Waiting \o Coming) \o <<sent + 1>>
         /\ WayOpen' /\ sent + 1 \in Requests
<1> DEFINE e == <<sent + 1>>
<1>1. /\ input' = Append(input, sent + 1) /\ sent < MaxRequests
      /\ UNCHANGED <<stdin, chunk, inbound, service, leftover>>
  BY DEF ClientSends, serviceVars
<1>2. sent + 1 \in Requests
  BY <1>1, PumpsAssumption DEF PipesInv, IInv, TypeOK, Requests
<1>3. /\ chunk \in Seq(Requests) /\ input \in Seq(Requests) /\ e \in Seq(Requests)
      /\ Waiting \in Seq(Requests) /\ Coming \in Seq(Requests)
  BY <1>2, RequestsTyped DEF PipesInv
<1>4. input' = input \o e
  BY <1>1, <1>2, <1>3, AppendIsConcat
<1> HIDE DEF e
<1>5. /\ Coming = chunk \o input /\ Coming' = chunk \o (input \o e)
      /\ Waiting' = Waiting /\ WayOpen'
  BY <1>1, <1>4 DEF Coming, Waiting, WayOpen
<1>6. chunk \o (input \o e) = (chunk \o input) \o e
  <2>1. chunk \in Seq(Requests) /\ input \in Seq(Requests) /\ e \in Seq(Requests)
    BY <1>3
  <2> QED BY ONLY <2>1, ConcatAssociative
<1>7. Waiting \o (Coming \o e) = (Waiting \o Coming) \o e
  <2>1. Waiting \in Seq(Requests) /\ Coming \in Seq(Requests) /\ e \in Seq(Requests)
    BY <1>3
  <2> QED BY ONLY <2>1, ConcatAssociative
<1> QED BY <1>2, <1>5, <1>6, <1>7 DEF e

LEMMA RequestSent ==
  ASSUME PipesInv, ClientSends
  PROVE  NothingHeld' /\ OnceOnTheWay' /\ RequestStep
<1> DEFINE r == sent + 1
           e == <<r>>
<1>0. /\ input' = Append(input, r) /\ sent' = r /\ sent < MaxRequests
      /\ UNCHANGED <<stdin, chunk, inbound, service, leftover, accepted>>
  BY DEF ClientSends, serviceVars
<1>1. sent \in Nat /\ r \in Requests /\ r > sent
  BY <1>0, PumpsAssumption DEF PipesInv, IInv, TypeOK, Requests
<1>2. /\ input \in Seq(Requests) /\ chunk \in Seq(Requests) /\ accepted \in Seq(Requests)
      /\ leftover \in Seq(Requests) /\ inbound \in Seq(Requests)
      /\ Waiting \in Seq(Requests) /\ Coming \in Seq(Requests)
      /\ Waiting \o Coming \in Seq(Requests)
  BY RequestsTyped DEF PipesInv
<1> HIDE DEF r
<1>3. /\ r \notin Range(accepted) /\ r \notin Range(leftover) /\ r \notin Range(inbound)
      /\ r \notin Range(chunk) /\ r \notin Range(input)
  <2>1. ~(r <= sent) /\ sent \in Nat
    BY <1>1 DEF r
  <2> QED BY <2>1 DEF PipesInv, OnceOnTheWay
<1>4. e \in Seq(Requests) /\ Range(e) = {r} /\ IsInjective(e)
  BY <1>1, SingleOnce
<1>e. e = <<r>>
  OBVIOUS
<1> HIDE DEF e
<1>5. input' = input \o e /\ IsInjective(input') /\ Range(input') = Range(input) \union {r}
  <2>1. input' = input \o e
    BY <1>0, <1>1, <1>2, <1>e, AppendIsConcat
  <2>2. IsInjective(input) /\ Range(input) \cap Range(e) = {}
    BY <1>3, <1>4 DEF PipesInv, OnceOnTheWay
  <2>3. IsInjective(input \o e) /\ Range(input \o e) = Range(input) \union Range(e)
    <3>1. input \in Seq(Requests) /\ e \in Seq(Requests) /\ IsInjective(e)
      BY <1>2, <1>4
    <3> QED BY <2>2, <3>1, ConcatOnce
  <2> QED BY <1>4, <2>1, <2>3
<1>6. NothingHeld'
  BY <1>0 DEF PipesInv, NothingHeld
<1>7. OnceOnTheWay'
  <2>1. \A x \in Range(accepted) \union Range(leftover) \union Range(inbound)
                 \union Range(chunk) \union Range(input) : x <= sent'
    <3>1. Range(accepted) \union Range(leftover) \union Range(inbound)
            \union Range(chunk) \union Range(input) \subseteq Requests
      BY <1>2, RangeOfSeq
    <3>2. \A x \in Requests : x <= sent => x <= sent + 1
      BY <1>1 DEF Requests
    <3> QED BY <1>0, <3>1, <3>2 DEF PipesInv, OnceOnTheWay, r
  <2>2. r <= sent'
    BY <1>0, <1>1 DEF r
  <2> QED BY <1>0, <1>3, <1>5, <2>1, <2>2 DEF PipesInv, OnceOnTheWay
<1>8. CASE WayOpen
  <2>1. Coming = chunk \o input
    BY <1>8 DEF Coming, WayOpen
  <2>3. Waiting' \o Coming' = (Waiting \o Coming) \o e /\ WayOpen'
    BY <1>8, <1>e, RequestJoins DEF r
  <2>4. Range(Waiting) = Range(leftover) \union Range(inbound)
    BY <1>2, RangeConcatenation DEF Waiting
  <2>5. Range(Coming) = Range(chunk) \union Range(input)
    BY <1>2, <2>1, RangeConcatenation
  <2>6. Range(accepted \o (Waiting \o Coming))
          = Range(accepted) \union (Range(Waiting) \union Range(Coming))
    <3>1. /\ accepted \in Seq(Requests) /\ Waiting \in Seq(Requests) /\ Coming \in Seq(Requests)
          /\ Waiting \o Coming \in Seq(Requests)
      BY <1>2
    <3>2. Range(Waiting \o Coming) = Range(Waiting) \union Range(Coming)
      BY <3>1, RangeConcatenation
    <3> DEFINE w == Waiting \o Coming
    <3>3. w \in Seq(Requests) /\ Range(w) = Range(Waiting) \union Range(Coming)
      BY <3>1, <3>2
    <3> HIDE DEF w
    <3>4. Range(accepted \o w) = Range(accepted) \union Range(w)
      BY <3>1, <3>3, RangeConcatenation
    <3> QED BY <3>3, <3>4 DEF w
  <2>7. r \notin Range(accepted \o (Waiting \o Coming))
    BY <1>3, <2>4, <2>5, <2>6
  <2> QED BY <1>0, <1>1, <1>6, <1>7, <1>8, <2>3, <2>7, <1>e, RequestEnters DEF RequestStep
<1>9. CASE ~WayOpen
  <2>1. Coming = <<>> /\ Coming' = <<>> /\ Waiting' = Waiting /\ WayOpen' = WayOpen
    BY <1>0, <1>9 DEF Coming, Waiting, WayOpen
  <2> QED BY <1>0, <1>6, <1>7, <2>1, RequestsMove DEF RequestStep
<1> QED BY <1>8, <1>9

LEMMA RequestRead ==
  ASSUME PipesInv, StdinReads
  PROVE  NothingHeld' /\ OnceOnTheWay' /\ RequestStep
<1>0. /\ stdin = "reading" /\ stdin' = "feeding" /\ input # <<>> /\ chunk = <<>>
      /\ chunk' = <<Head(input)>> /\ input' = Tail(input)
      /\ UNCHANGED <<sent, inbound, service, leftover, accepted>>
  BY DEF StdinReads, clientVars, serviceVars, PipesInv, NothingHeld
<1>1. /\ input \in Seq(Requests) /\ IsInjective(input)
  BY RequestsTyped DEF PipesInv, OnceOnTheWay
<1>2. /\ Head(input) \in Requests /\ input = chunk' \o input'
      /\ Range(input) = {Head(input)} \union Range(input')
      /\ Head(input) \notin Range(input') /\ IsInjective(input')
  BY <1>0, <1>1, TailOnce
<1>3. Range(chunk') = {Head(input)}
  BY <1>0, <1>2, SingleOnce
<1>4. NothingHeld'
  BY <1>0 DEF PipesInv, NothingHeld, StdinEnds
<1>5. OnceOnTheWay'
  <2>1. Range(chunk') \union Range(input') = Range(input) /\ Range(chunk) = {}
    BY <1>0, <1>2, <1>3, EmptyOnce
  <2> QED BY <1>0, <1>2, <1>3, <2>1 DEF PipesInv, OnceOnTheWay
<1>6. chunk \o input = input
  BY <1>0, <1>1, ConcatEmptySeq
<1>7. Coming' = Coming /\ Waiting' = Waiting /\ WayOpen' = WayOpen
  BY <1>0, <1>2, <1>6 DEF Coming, Waiting, WayOpen, StdinEnds
<1> QED BY <1>0, <1>4, <1>5, <1>7, RequestsMove DEF RequestStep

LEMMA RequestsCutOff ==
  ASSUME PipesInv, NEW how \in StdinEnds, StdinStops(how)
  PROVE  NothingHeld' /\ OnceOnTheWay' /\ RequestStep
<1>0. /\ stdin' = how /\ chunk' = <<>>
      /\ UNCHANGED <<sent, input, inbound, service, leftover, accepted>>
  BY DEF StdinStops, clientVars, serviceVars
<1>1. NothingHeld'
  BY <1>0 DEF PipesInv, NothingHeld
<1>2. OnceOnTheWay'
  <2>1. Range(chunk') = {}
    BY <1>0, EmptyOnce
  <2> QED BY <1>0, <2>1 DEF PipesInv, OnceOnTheWay
<1>3. /\ Waiting \in Seq(Requests) /\ Coming \in Seq(Requests)
  BY RequestsTyped DEF PipesInv
<1>4. Waiting' = Waiting /\ Coming' = <<>> /\ ~WayOpen'
  BY <1>0 DEF Waiting, Coming, WayOpen
<1>5. Waiting' \o Coming' = Waiting
  BY <1>3, <1>4, ConcatEmptySeq
<1>6. Waiting' \o Coming' = SubSeq(Waiting \o Coming, 1, Len(Waiting))
      /\ Len(Waiting) \in 0 .. Len(Waiting \o Coming)
  BY <1>3, <1>5, SplitConcat
<1> QED BY <1>0, <1>1, <1>2, <1>4, <1>6, RequestsLost DEF RequestStep

LEMMA RequestFed ==
  ASSUME PipesInv, FeedSends
  PROVE  NothingHeld' /\ OnceOnTheWay' /\ RequestStep
<1>0. /\ stdin = "sending" /\ stdin' = "reading" /\ service = "serving"
      /\ inbound' = inbound \o chunk /\ chunk' = <<>>
      /\ UNCHANGED <<sent, input, service, leftover, accepted>>
  BY DEF FeedSends, clientVars
<1>1. /\ leftover \in Seq(Requests) /\ inbound \in Seq(Requests) /\ chunk \in Seq(Requests)
      /\ input \in Seq(Requests) /\ Waiting \in Seq(Requests) /\ inbound \o chunk \in Seq(Requests)
  <2>1. inbound \in Seq(Requests) /\ chunk \in Seq(Requests)
    BY RequestsTyped DEF PipesInv
  <2> QED BY <2>1, RequestsTyped, ConcatProperties DEF PipesInv
<1>2. IsInjective(chunk)
  <2>1. Len(chunk) <= 1 /\ DOMAIN chunk = 1 .. Len(chunk) /\ Len(chunk) \in Nat
    BY <1>1, LenProperties DEF PipesInv, IInv, Tally
  <2> QED BY <2>1 DEF IsInjective
<1>3. IsInjective(inbound') /\ Range(inbound') = Range(inbound) \union Range(chunk)
  <2>1. IsInjective(inbound) /\ Range(inbound) \cap Range(chunk) = {}
    BY DEF PipesInv, OnceOnTheWay
  <2> QED BY <1>0, <1>1, <1>2, <2>1, ConcatOnce
<1>4. NothingHeld'
  BY <1>0 DEF PipesInv, NothingHeld
<1>5. OnceOnTheWay'
  <2>1. Range(chunk') = {}
    BY <1>0, EmptyOnce
  <2> QED BY <1>0, <1>3, <2>1 DEF PipesInv, OnceOnTheWay
<1>6. Coming = chunk \o input /\ Coming' = input /\ WayOpen' = WayOpen
  <2>1. <<>> \o input = input
    BY <1>1, ConcatEmptySeq
  <2> QED BY <1>0, <2>1 DEF Coming, WayOpen, StdinEnds
<1>7. Waiting' = Waiting \o chunk
  <2>1. (leftover \o inbound) \o chunk = leftover \o (inbound \o chunk)
    BY <1>1, ConcatAssociative
  <2> QED BY <1>0, <2>1 DEF Waiting
<1>8. Waiting' \o Coming' = Waiting \o Coming
  BY <1>1, <1>6, <1>7, ConcatAssociative
<1> QED BY <1>0, <1>4, <1>5, <1>6, <1>8, RequestsMove DEF RequestStep

LEMMA StreamRefilled ==
  ASSUME PipesInv, StreamRefills
  PROVE  NothingHeld' /\ OnceOnTheWay' /\ RequestStep
<1>0. /\ service = "serving" /\ leftover = <<>> /\ inbound # <<>>
      /\ leftover' = <<Head(inbound)>> /\ inbound' = Tail(inbound)
      /\ UNCHANGED <<sent, input, stdin, chunk, service, accepted>>
  BY DEF StreamRefills, clientVars, inVars
<1>1. inbound \in Seq(Requests) /\ IsInjective(inbound)
  BY RequestsTyped DEF PipesInv, OnceOnTheWay
<1>2. /\ Head(inbound) \in Requests /\ inbound = leftover' \o inbound'
      /\ Range(inbound) = {Head(inbound)} \union Range(inbound')
      /\ Head(inbound) \notin Range(inbound') /\ IsInjective(inbound')
  BY <1>0, <1>1, TailOnce
<1>3. Range(leftover') = {Head(inbound)}
  BY <1>0, <1>2, SingleOnce
<1>4. NothingHeld'
  BY <1>0 DEF PipesInv, NothingHeld
<1>5. OnceOnTheWay'
  <2>1. Range(leftover') \union Range(inbound') = Range(inbound) /\ Range(leftover) = {}
    BY <1>0, <1>2, <1>3, EmptyOnce
  <2> QED BY <1>0, <1>2, <1>3, <2>1 DEF PipesInv, OnceOnTheWay
<1>6. leftover \o inbound = inbound
  BY <1>0, <1>1, ConcatEmptySeq
<1>7. Coming' = Coming /\ Waiting' = Waiting /\ WayOpen' = WayOpen
  BY <1>0, <1>2, <1>6 DEF Coming, Waiting, WayOpen
<1> QED BY <1>0, <1>4, <1>5, <1>7, RequestsMove DEF RequestStep

LEMMA RequestsLeave ==
  ASSUME IInv, WayOpen' = WayOpen,
         leftover' = <<>>, inbound' = inbound, Coming' = Coming, accepted' = accepted \o leftover
  PROVE  RequestStep
<1>1. /\ leftover \in Seq(Requests) /\ inbound \in Seq(Requests) /\ accepted \in Seq(Requests)
      /\ Coming \in Seq(Requests)
  BY RequestsTyped
<1> DEFINE b == inbound \o Coming
           t == Waiting \o Coming
<1>2. b \in Seq(Requests) /\ t = leftover \o b
  <2>1. b \in Seq(Requests)
    BY <1>1, ConcatProperties
  <2>2. (leftover \o inbound) \o Coming = leftover \o (inbound \o Coming)
    BY <1>1, ConcatAssociative
  <2> QED BY <2>1, <2>2 DEF Waiting
<1>3. Waiting' = inbound
  BY <1>1, ConcatEmptySeq DEF Waiting
<1>4. Waiting' \o Coming' = b
  BY <1>3
<1> HIDE DEF b, t
<1>5. \/ b = t /\ accepted \o leftover = accepted
      \/ \E n \in 1 .. Len(t) :
           accepted \o leftover = accepted \o SubSeq(t, 1, n) /\ b = SubSeq(t, n + 1, Len(t))
  <2>1. leftover \in Seq(Requests) /\ b \in Seq(Requests) /\ accepted \in Seq(Requests)
    BY <1>1, <1>2
  <2>2. Leaves(leftover, b, accepted)
    BY <2>1, FrontLeaves
  <2> QED BY <1>2, <2>2 DEF Leaves
<1>6. CASE b = t /\ accepted \o leftover = accepted
  BY <1>4, <1>6, RequestsMove DEF t, RequestStep
<1>7. ASSUME NEW n \in 1 .. Len(t), accepted \o leftover = accepted \o SubSeq(t, 1, n),
             b = SubSeq(t, n + 1, Len(t))
      PROVE  RequestStep
  <2>1. /\ n \in 1 .. Len(Waiting \o Coming)
        /\ accepted' = accepted \o SubSeq(Waiting \o Coming, 1, n)
        /\ Waiting' \o Coming' = SubSeq(Waiting \o Coming, n + 1, Len(Waiting \o Coming))
    BY <1>4, <1>7 DEF t
  <2>2. Requested!Deliver
    BY <2>1 DEF Requested!Deliver, Waiting, Coming, WayOpen
  <2> QED BY <2>2 DEF RequestStep, Requested!PipeNext
<1> QED BY <1>5, <1>6, <1>7

LEMMA RequestAccepted ==
  ASSUME PipesInv, ServiceAccepts
  PROVE  NothingHeld' /\ OnceOnTheWay' /\ RequestStep
<1>0. /\ service = "serving" /\ leftover # <<>> /\ leftover' = <<>>
      /\ accepted' = accepted \o leftover
      /\ UNCHANGED <<sent, input, stdin, chunk, inbound, service>>
  BY DEF ServiceAccepts, clientVars, inVars
<1>1. leftover \in Seq(Requests) /\ accepted \in Seq(Requests)
  BY RequestsTyped DEF PipesInv
<1>2. Range(accepted') = Range(accepted) \union Range(leftover) /\ Range(leftover') = {}
  BY <1>0, <1>1, RangeConcatenation, EmptyOnce
<1>3. NothingHeld'
  BY <1>0 DEF PipesInv, NothingHeld
<1>4. OnceOnTheWay'
  BY <1>0, <1>2 DEF PipesInv, OnceOnTheWay
<1>5. RequestStep
  BY <1>0, RequestsLeave DEF PipesInv, Coming, WayOpen
<1> QED BY <1>3, <1>4, <1>5

LEMMA RequestsDropped ==
  ASSUME PipesInv, NEW how \in {"failed", "ended"}, ServiceStops(how)
  PROVE  NothingHeld' /\ OnceOnTheWay' /\ RequestStep
<1>0. /\ service' = how /\ inbound' = <<>> /\ leftover' = <<>>
      /\ UNCHANGED <<sent, input, stdin, chunk, accepted>>
  BY DEF ServiceStops, clientVars, inVars
<1>1. NothingHeld'
  BY <1>0 DEF PipesInv, NothingHeld
<1>2. OnceOnTheWay'
  <2>1. Range(inbound') = {} /\ Range(leftover') = {} /\ IsInjective(inbound')
    BY <1>0, EmptyOnce
  <2> QED BY <1>0, <2>1 DEF PipesInv, OnceOnTheWay
<1>3. Waiting \o Coming \in Seq(Requests) /\ <<>> \in Seq(Requests)
  BY RequestsTyped DEF PipesInv
<1>4. Waiting' = <<>> \o <<>> /\ Coming' = <<>> /\ ~WayOpen'
  BY <1>0 DEF Waiting, Coming, WayOpen
<1>5. Waiting' \o Coming' = <<>>
  BY <1>3, <1>4, ConcatEmptySeq
<1>6. Len(Waiting \o Coming) \in Nat /\ SubSeq(Waiting \o Coming, 1, 0) = <<>>
  BY <1>3, LenProperties, SubSeqEmpty
<1>7. 0 \in 0 .. Len(Waiting \o Coming)
  BY <1>6
<1> QED BY <1>0, <1>1, <1>2, <1>4, <1>5, <1>6, <1>7, RequestsLost DEF RequestStep

\* Whatever happens, this direction takes a step of a pipe or none.
LEMMA RequestsFlow ==
  ASSUME PipesInv, [Next]_vars
  PROVE  NothingHeld' /\ OnceOnTheWay' /\ RequestStep
<1> USE DEF clientVars, inVars, serviceVars, outVars, stdoutVars, endVars, mainVars
<1> DEFINE Kept == UNCHANGED <<sent, input, stdin, chunk, inbound, service, leftover, accepted>>
<1>1. CASE ClientSends
  BY <1>1, RequestSent
<1>2. CASE ClientCloses \/ CancelKeyPress \/ UNCHANGED vars
  <2>1. Kept
    BY <1>2 DEF ClientCloses, CancelKeyPress, vars
  <2> QED BY <2>1, RequestsRest
<1>3. CASE StdinStep
  <2>1. CASE FeedLooksUp
    <3>1. /\ stdin = "feeding" /\ stdin' = "sending"
          /\ UNCHANGED <<sent, input, chunk, inbound, service, leftover, accepted>>
      BY <2>1 DEF FeedLooksUp
    <3>2. NothingHeld' /\ OnceOnTheWay'
      BY <3>1 DEF PipesInv, NothingHeld, OnceOnTheWay, StdinEnds
    <3>3. UNCHANGED Requested!pipeVars
      BY <3>1, RequestsMove DEF Waiting, Coming, WayOpen, StdinEnds
    <3> QED BY <3>2, <3>3 DEF RequestStep
  <2>2. CASE StdinEof \/ FeedRefused \/ FeedCutOff
    <3>1. PICK how \in StdinEnds : StdinStops(how)
      BY <2>2 DEF StdinEof, FeedRefused, FeedCutOff, StdinEnds
    <3> QED BY <3>1, RequestsCutOff
  <2> QED BY <1>3, <2>1, <2>2, RequestRead, RequestFed DEF StdinStep
<1>4. CASE ServiceStep
  BY <1>4, StreamRefilled, RequestAccepted DEF ServiceStep
<1>5. CASE ServiceFails \/ ServiceDropped
  BY <1>5, RequestsDropped DEF ServiceFails, ServiceDropped
<1>6. CASE CallStep
  <2>1. Kept
    BY <1>6 DEF CallStep, Answers, AnswerLost
  <2> QED BY <2>1, RequestsRest
<1>7. CASE StdoutStep \/ WaitTimesOut \/ WriteFails
  <2>1. Kept
    BY <1>7 DEF StdoutStep, WaitLooksUp, StdoutRefused, WaitChecks, WaitWoken, DrainTakes,
                DrainEmpty, Writes, Decides, WaitTimesOut, WriteFails, Goes, StdoutFails
  <2> QED BY <2>1, RequestsRest
<1>8. CASE MainStep \/ Expires
  <2>1. Kept
    BY <1>8 DEF MainStep, Expires, MainWakes, MainJoined, JoinExpires, StopFlags,
                StopRemoves, GraceMet, GraceExpires, MainGoes
  <2> QED BY <2>1, RequestsRest
<1> QED BY <1>1, <1>2, <1>3, <1>4, <1>5, <1>6, <1>7, <1>8 DEF Next

------------------------------------------------------------------------------
(* From the service to the client.                                         *)

Going == IF stdout \in StdoutEnds THEN <<>> ELSE buffer \o outbound
OutOpen == stdout \notin StdoutEnds

AnswerStep == [Answered!PipeNext]_(Answered!pipeVars)

LEMMA UnitsTyped ==
  ASSUME IInv
  PROVE  /\ buffer \in Seq(Units) /\ outbound \in Seq(Units) /\ written \in Seq(Units)
         /\ <<>> \in Seq(Units) /\ buffer \o outbound \in Seq(Units) /\ Going \in Seq(Units)
<1>1. /\ buffer \in Seq(Units) /\ outbound \in Seq(Units) /\ written \in Seq(Units)
      /\ <<>> \in Seq(Units)
  BY EmptySeq DEF IInv, TypeOK
<1>2. buffer \o outbound \in Seq(Units)
  BY <1>1, ConcatProperties
<1> QED BY <1>1, <1>2 DEF Going

LEMMA AnswersMove ==
  ASSUME written' = written, OutOpen' = OutOpen, Going' = Going
  PROVE  AnswerStep
BY DEF AnswerStep, Answered!pipeVars, Going, OutOpen

\* The stdout pump ends: what it holds and what is queued is lost.
LEMMA AnswersLost ==
  ASSUME IInv, written' = written, stdout' \in StdoutEnds
  PROVE  AnswerStep
<1>1. Going \in Seq(Units)
  BY UnitsTyped
<1>2. Going' = <<>> /\ ~OutOpen'
  BY DEF Going, OutOpen
<1>3. Len(Going) \in Nat /\ SubSeq(Going, 1, 0) = <<>>
  BY <1>1, LenProperties, SubSeqEmpty
<1>4. 0 \in 0 .. Len(Going) /\ Going' = SubSeq(Going, 1, 0)
  BY <1>2, <1>3
<1>5. Answered!Breaks
  BY <1>2, <1>4 DEF Answered!Breaks, Going, OutOpen
<1> QED BY <1>5 DEF AnswerStep, Answered!PipeNext

\* The stdout pump goes on and holds and takes nothing.
LEMMA AnswersRest ==
  ASSUME PipesInv, UNCHANGED <<accepted, running, outbound, buffer, written>>,
         stdout \in StdoutEnds <=> stdout' \in StdoutEnds
  PROVE  AnsweredOnce' /\ AnswerStep
<1>1. AnsweredOnce'
  BY DEF PipesInv, AnsweredOnce
<1>2. AnswerStep
  BY AnswersMove DEF Going, OutOpen
<1> QED BY <1>1, <1>2

LEMMA CallStarts ==
  ASSUME PipesInv, ServiceAccepts
  PROVE  AnsweredOnce' /\ AnswerStep
<1>0. /\ leftover # <<>> /\ accepted' = accepted \o leftover
      /\ running' = running \union {Head(leftover)}
      /\ UNCHANGED <<outbound, stdout, buffer, written>>
  BY DEF ServiceAccepts, outVars, stdoutVars
<1>1. leftover \in Seq(Requests) /\ accepted \in Seq(Requests)
  BY RequestsTyped DEF PipesInv
<1>2. Head(leftover) \in Range(leftover)
  BY <1>0, <1>1, FirstThenRest
<1>3. Range(accepted') = Range(accepted) \union Range(leftover)
  BY <1>0, <1>1, RangeConcatenation
<1>4. Head(leftover) \notin Range(accepted)
  BY <1>2 DEF PipesInv, OnceOnTheWay
<1>5. AnsweredOnce'
  BY <1>0, <1>2, <1>3, <1>4 DEF PipesInv, AnsweredOnce
<1>6. AnswerStep
  BY <1>0, AnswersMove DEF Going, OutOpen
<1> QED BY <1>5, <1>6

LEMMA CallEnds ==
  ASSUME PipesInv, NEW r \in running, AnswerLost(r)
  PROVE  AnsweredOnce' /\ AnswerStep
<1>0. running' = running \ {r} /\ UNCHANGED <<accepted, outbound, stdout, buffer, written>>
  BY DEF AnswerLost, outVars, stdoutVars
<1>1. AnsweredOnce'
  BY <1>0 DEF PipesInv, AnsweredOnce
<1>2. AnswerStep
  BY <1>0, AnswersMove DEF Going, OutOpen
<1> QED BY <1>1, <1>2

LEMMA AnswerEnters ==
  ASSUME PipesInv, NEW r \in running, Answers(r)
  PROVE  AnsweredOnce' /\ AnswerStep
<1> DEFINE f == Frame(r)
<1>0. /\ running' = running \ {r} /\ outbound' = outbound \o f
      /\ UNCHANGED <<accepted, stdout, buffer, written>>
  BY DEF Answers, Push, stdoutVars
<1>1. r \in Requests /\ r \in Range(accepted)
  BY DEF PipesInv, IInv, TypeOK, AnsweredOnce
<1>2. f \in Seq(Units)
  BY <1>1 DEF Frame, Units
<1>3. Range(f) = {<<r, 1>>, <<r, 2>>}
  BY DEF Range, Frame
<1>4. \A u \in Range(f) : u[1] = r
  BY <1>3
<1>5. f \in {Frame(q) : q \in Requests}
  BY <1>1
<1> HIDE DEF f
<1>6. /\ buffer \in Seq(Units) /\ outbound \in Seq(Units) /\ written \in Seq(Units)
      /\ buffer \o outbound \in Seq(Units)
  BY UnitsTyped DEF PipesInv
<1>7. Range(outbound') = Range(outbound) \union Range(f)
  BY <1>0, <1>2, <1>6, RangeConcatenation
<1>8. AnsweredOnce'
  BY <1>0, <1>1, <1>4, <1>7 DEF PipesInv, AnsweredOnce
<1>9. CASE stdout \in StdoutEnds
  <2>1. AnswerStep
    BY <1>0, <1>9, AnswersMove DEF Going, OutOpen
  <2> QED BY <1>8, <2>1
<1>10. CASE stdout \notin StdoutEnds
  <2>1. Going = buffer \o outbound /\ Going \in Seq(Units) /\ OutOpen /\ OutOpen'
    BY <1>0, <1>6, <1>10 DEF Going, OutOpen
  <2>2. Going' = Going \o f
    <3>1. buffer \o (outbound \o f) = (buffer \o outbound) \o f
      BY <1>2, <1>6, ConcatAssociative
    <3> QED BY <1>0, <1>10, <2>1, <3>1 DEF Going
  <2>3. Range(Going) = Range(buffer) \union Range(outbound)
    BY <1>6, <2>1, RangeConcatenation
  <2>4. Range(written \o Going) = Range(written) \union Range(Going)
    <3>1. written \in Seq(Units) /\ Going \in Seq(Units)
      BY <1>6, <2>1
    <3> QED BY <3>1, RangeConcatenation
  <2>5. Range(f) \cap Range(written \o Going) = {}
    BY <1>4, <2>3, <2>4 DEF PipesInv, AnsweredOnce
  <2>6. Answered!UnitsOf(f) \cap Answered!UnitsOf(written \o Going) = {}
    BY <2>5 DEF Answered!UnitsOf, Range
  <2>7. Answered!Put
    BY <1>0, <1>5, <2>1, <2>2, <2>6 DEF Answered!Put, Going, OutOpen
  <2> QED BY <1>8, <2>7 DEF AnswerStep, Answered!PipeNext
<1> QED BY <1>9, <1>10

LEMMA AnswersTaken ==
  ASSUME PipesInv, DrainTakes
  PROVE  AnsweredOnce' /\ AnswerStep
<1> DEFINE n == IF Len(outbound) < Drain THEN Len(outbound) ELSE Drain
<1>0. /\ stdout = "draining" /\ stdout' = "writing" /\ buffer = <<>>
      /\ buffer' = SubSeq(outbound, 1, n) /\ outbound' = SubSeq(outbound, n + 1, Len(outbound))
      /\ UNCHANGED <<accepted, running, written>>
  BY DEF DrainTakes, Goes, serviceVars, PipesInv, IInv, Tally
<1>1. outbound \in Seq(Units) /\ Len(outbound) \in Nat
  BY UnitsTyped, LenProperties DEF PipesInv
<1>2. n \in 0 .. Len(outbound)
  BY <1>1, PumpsAssumption
<1> HIDE DEF n
<1>3. buffer' \in Seq(Units) /\ outbound' \in Seq(Units)
  <2>1. IInv'
    BY StepPreserves DEF PipesInv, Next, StdoutStep
  <2> QED BY <2>1 DEF IInv, TypeOK
<1>4. outbound = buffer' \o outbound'
  <2>1. /\ 1 \in 1 .. Len(outbound) + 1 /\ n \in 1 - 1 .. Len(outbound)
        /\ Len(outbound) \in n .. Len(outbound)
    BY <1>1, <1>2
  <2>2. SubSeq(outbound, 1, n) \o SubSeq(outbound, n + 1, Len(outbound))
          = SubSeq(outbound, 1, Len(outbound))
    BY <1>1, <2>1, ConcatAdjacentSubSeq
  <2>3. SubSeq(outbound, 1, Len(outbound)) = outbound
    BY <1>1, SubSeqFull
  <2> QED BY <1>0, <2>2, <2>3
<1>5. Range(outbound) = Range(buffer') \union Range(outbound')
  <2>1. Range(buffer' \o outbound') = Range(buffer') \union Range(outbound')
    BY <1>3, RangeConcatenation
  <2> QED BY <1>4, <2>1
<1>6. AnsweredOnce'
  BY <1>0, <1>5 DEF PipesInv, AnsweredOnce
<1>7. buffer \o outbound = outbound
  BY <1>0, <1>1, ConcatEmptySeq
<1>8. AnswerStep
  BY <1>0, <1>4, <1>7, AnswersMove DEF Going, OutOpen, StdoutEnds
<1> QED BY <1>6, <1>8

LEMMA AnswersWritten ==
  ASSUME PipesInv, Writes
  PROVE  AnsweredOnce' /\ AnswerStep
<1>0. /\ stdout = "writing" /\ stdout' = "draining"
      /\ written' = written \o buffer /\ buffer' = <<>>
      /\ UNCHANGED <<accepted, running, outbound>>
  BY DEF Writes, serviceVars, outVars
<1>1. buffer \in Seq(Units) /\ outbound \in Seq(Units) /\ written \in Seq(Units)
  BY UnitsTyped DEF PipesInv
<1>2. Range(written') = Range(written) \union Range(buffer) /\ Range(buffer') = {}
  BY <1>0, <1>1, RangeConcatenation, EmptyOnce
<1>3. AnsweredOnce'
  BY <1>0, <1>2 DEF PipesInv, AnsweredOnce
<1>4. OutOpen' = OutOpen /\ Going = buffer \o outbound /\ Going' = outbound
  <2>1. <<>> \o outbound = outbound
    BY <1>1, ConcatEmptySeq
  <2> QED BY <1>0, <2>1 DEF Going, OutOpen, StdoutEnds
<1>5. \/ outbound = Going /\ written \o buffer = written
      \/ \E n \in 1 .. Len(Going) :
           /\ written \o buffer = written \o SubSeq(Going, 1, n)
           /\ outbound = SubSeq(Going, n + 1, Len(Going))
  <2>1. Leaves(buffer, outbound, written)
    BY <1>1, FrontLeaves
  <2> QED BY <1>4, <2>1 DEF Leaves
<1>6. CASE outbound = Going /\ written \o buffer = written
  BY <1>0, <1>3, <1>4, <1>6, AnswersMove
<1>7. ASSUME NEW n \in 1 .. Len(Going), written \o buffer = written \o SubSeq(Going, 1, n),
             outbound = SubSeq(Going, n + 1, Len(Going))
      PROVE  AnsweredOnce' /\ AnswerStep
  <2>1. /\ written' = written \o SubSeq(Going, 1, n)
        /\ Going' = SubSeq(Going, n + 1, Len(Going)) /\ OutOpen' = OutOpen
    BY <1>0, <1>4, <1>7
  <2>2. Answered!Deliver
    BY <2>1 DEF Answered!Deliver, Going, OutOpen
  <2> QED BY <1>3, <2>2 DEF AnswerStep, Answered!PipeNext
<1> QED BY <1>5, <1>6, <1>7

LEMMA PumpFailed ==
  ASSUME PipesInv, StdoutFails
  PROVE  AnsweredOnce' /\ AnswerStep
<1>0. /\ stdout' \in StdoutEnds /\ buffer' = <<>>
      /\ UNCHANGED <<accepted, running, written, outbound>>
  BY DEF StdoutFails, serviceVars, outVars, StdoutEnds
<1>1. AnsweredOnce'
  <2>1. Range(buffer') = {}
    BY <1>0, EmptyOnce
  <2> QED BY <1>0, <2>1 DEF PipesInv, AnsweredOnce
<1>2. AnswerStep
  BY <1>0, AnswersLost DEF PipesInv
<1> QED BY <1>1, <1>2

LEMMA PumpDrained ==
  ASSUME PipesInv, DrainEmpty
  PROVE  AnsweredOnce' /\ AnswerStep
<1>0. /\ stdout = "draining" /\ stdout' = IF last THEN "drained" ELSE "deciding"
      /\ UNCHANGED <<accepted, running, outbound, buffer, written>>
  BY DEF DrainEmpty, serviceVars, outVars
<1>1. CASE last
  <2>1. AnsweredOnce'
    BY <1>0 DEF PipesInv, AnsweredOnce
  <2>2. AnswerStep
    BY <1>0, <1>1, AnswersLost DEF PipesInv, StdoutEnds
  <2> QED BY <2>1, <2>2
<1>2. CASE ~last
  BY <1>0, <1>2, AnswersRest DEF StdoutEnds
<1> QED BY <1>1, <1>2

LEMMA AnswersFlow ==
  ASSUME PipesInv, [Next]_vars
  PROVE  AnsweredOnce' /\ AnswerStep
<1> USE DEF clientVars, inVars, serviceVars, outVars, stdoutVars, endVars, mainVars
<1> DEFINE Kept == UNCHANGED <<accepted, running, outbound, buffer, written>>
<1>1. CASE ClientSends \/ ClientCloses \/ CancelKeyPress \/ UNCHANGED vars
  <2>1. Kept /\ stdout' = stdout
    BY <1>1 DEF ClientSends, ClientCloses, CancelKeyPress, vars
  <2> QED BY <2>1, AnswersRest
<1>2. CASE StdinStep
  <2>1. Kept /\ stdout' = stdout
    BY <1>2 DEF StdinStep, StdinReads, StdinEof, FeedLooksUp, FeedRefused, FeedSends,
                FeedCutOff, StdinStops
  <2> QED BY <2>1, AnswersRest
<1>3. CASE StreamRefills \/ ServiceFails \/ ServiceDropped
  <2>1. Kept /\ stdout' = stdout
    BY <1>3 DEF StreamRefills, ServiceFails, ServiceDropped, ServiceStops
  <2> QED BY <2>1, AnswersRest
<1>4. CASE ServiceAccepts
  BY <1>4, CallStarts
<1>5. CASE CallStep
  BY <1>5, CallEnds, AnswerEnters DEF CallStep
<1>6. CASE StdoutStep \/ WaitTimesOut \/ WriteFails
  <2>1. CASE WaitLooksUp \/ WaitChecks \/ WaitWoken \/ Decides \/ WaitTimesOut
    <3>1. Kept /\ stdout \notin StdoutEnds /\ stdout' \notin StdoutEnds
      BY <2>1 DEF WaitLooksUp, WaitChecks, WaitWoken, Decides, WaitTimesOut, Goes, StdoutEnds
    <3> QED BY <3>1, AnswersRest
  <2>2. CASE StdoutRefused \/ WriteFails
    BY <2>2, PumpFailed DEF StdoutRefused, WriteFails
  <2> QED BY <1>6, <2>1, <2>2, AnswersTaken, AnswersWritten, PumpDrained DEF StdoutStep
<1>7. CASE MainStep \/ Expires
  <2>1. Kept /\ stdout' = stdout
    BY <1>7 DEF MainStep, Expires, MainWakes, MainJoined, JoinExpires, StopFlags,
                StopRemoves, GraceMet, GraceExpires, MainGoes
  <2> QED BY <2>1, AnswersRest
<1> QED BY <1>1, <1>2, <1>3, <1>4, <1>5, <1>6, <1>7 DEF Next, ServiceStep

------------------------------------------------------------------------------
LEMMA InitPipes == Init => PipesInv /\ Requested!PipeInit /\ Answered!PipeInit
<1> SUFFICES ASSUME Init PROVE PipesInv /\ Requested!PipeInit /\ Answered!PipeInit
  OBVIOUS
<1>1. Range(<<>>) = {} /\ IsInjective(<<>>)
  BY EmptyOnce
<1>2. PipesInv
  BY <1>1, InitIInv DEF Init, PipesInv, NothingHeld, OnceOnTheWay, AnsweredOnce
<1>3. <<>> \o <<>> = <<>>
  BY ConcatEmptySeq, EmptySeq
<1>4. Requested!PipeInit
  BY <1>3 DEF Init, Requested!PipeInit, StdinEnds
<1>5. Answered!PipeInit
  BY <1>3 DEF Init, Answered!PipeInit, StdoutEnds
<1> QED BY <1>2, <1>4, <1>5

LEMMA PipesStep == PipesInv /\ [Next]_vars => PipesInv'
BY StepPreserves, RequestsFlow, AnswersFlow DEF PipesInv

\* For every channel capacity and drain size, both directions of the MCP
\* stream are pipes: chunks and frames are neither repeated nor reordered nor
\* skipped, however Feed, Wait, Drain, Write and the end of the session fall.
THEOREM PipesImplemented == Spec => PipeContract
<1>1. PipesInv /\ [Next]_vars => [Requested!PipeNext]_(Requested!pipeVars)
  BY RequestsFlow DEF RequestStep
<1>2. PipesInv /\ [Next]_vars => [Answered!PipeNext]_(Answered!pipeVars)
  BY AnswersFlow DEF AnswerStep
<1> QED BY InitPipes, PipesStep, <1>1, <1>2, PTL
        DEF Spec, PipeContract, Requested!PipeSpec, Answered!PipeSpec

------------------------------------------------------------------------------
(* What the two ends see.  Way is everything that was sent and not lost,    *)
(* Through everything that was answered and not lost.                       *)

Way == accepted \o (Waiting \o Coming)
Through == written \o Going

\* The k-th request on the way is the k-th the client wrote, and while the way
\* is open nothing the client wrote is missing from it.
Numbered(s) == \A i \in 1 .. Len(s) : s[i] = i
InOrder == Numbered(Way) /\ (WayOpen => Len(Way) = sent)

\* A second half follows its first half at once, and a first half stands at the
\* start of a frame.
Framed(s) ==
  \A i \in 1 .. Len(s) :
    IF s[i][2] = 1 THEN i = 1 \/ s[i - 1][2] = 2
                   ELSE i > 1 /\ s[i - 1] = <<s[i][1], 1>>
Whole(s) == s = <<>> \/ s[Len(s)][2] = 2
WholeFrames == Framed(Through) /\ (OutOpen => Whole(Through))

LEMMA NumberedGrows ==
  ASSUME NEW s \in Seq(Requests), Numbered(s), NEW r \in Requests, r = Len(s) + 1
  PROVE  Numbered(s \o <<r>>) /\ Len(s \o <<r>>) = r
<1> DEFINE e == <<r>>
<1>1. e \in Seq(Requests) /\ Len(e) = 1 /\ e[1] = r /\ Len(s) \in Nat
  BY LenProperties
<1> HIDE DEF e
<1>2. /\ Len(s \o e) = Len(s) + 1
      /\ \A i \in 1 .. Len(s) + 1 : (s \o e)[i] = IF i <= Len(s) THEN s[i] ELSE e[i - Len(s)]
  <2>1. /\ Len(s \o e) = Len(s) + Len(e)
        /\ \A i \in 1 .. Len(s) + Len(e) :
             (s \o e)[i] = IF i <= Len(s) THEN s[i] ELSE e[i - Len(s)]
    BY <1>1, ConcatProperties
  <2> QED BY <1>1, <2>1
<1>3. \A i \in 1 .. Len(s) + 1 : (s \o e)[i] = i
  BY <1>1, <1>2 DEF Numbered
<1> QED BY <1>2, <1>3 DEF Numbered, e

LEMMA NumberedPrefix ==
  ASSUME NEW s \in Seq(Requests), Numbered(s), NEW k \in 0 .. Len(s)
  PROVE  Numbered(SubSeq(s, 1, k))
<1>1. Len(SubSeq(s, 1, k)) = k /\ \A i \in 1 .. k : SubSeq(s, 1, k)[i] = s[i]
  BY PrefixElements
<1> QED BY <1>1, LenProperties DEF Numbered

LEMMA FramedPrefix ==
  ASSUME NEW s \in Seq(Units), Framed(s), NEW k \in 0 .. Len(s)
  PROVE  Framed(SubSeq(s, 1, k))
<1> DEFINE t == SubSeq(s, 1, k)
<1>1. Len(t) = k /\ \A i \in 1 .. k : t[i] = s[i]
  BY PrefixElements
<1>2. Len(s) \in Nat
  BY LenProperties
<1> HIDE DEF t
<1>3. ASSUME NEW i \in 1 .. k
      PROVE  IF t[i][2] = 1 THEN i = 1 \/ t[i - 1][2] = 2
                            ELSE i > 1 /\ t[i - 1] = <<t[i][1], 1>>
  <2>1. t[i] = s[i] /\ (i > 1 => t[i - 1] = s[i - 1])
    BY <1>1, <1>2
  <2>2. IF s[i][2] = 1 THEN i = 1 \/ s[i - 1][2] = 2
                       ELSE i > 1 /\ s[i - 1] = <<s[i][1], 1>>
    BY <1>2 DEF Framed
  <2> QED BY <2>1, <2>2
<1> QED BY <1>1, <1>3 DEF Framed, t

LEMMA FramedGrows ==
  ASSUME NEW s \in Seq(Units), Framed(s), Whole(s), NEW r \in Requests
  PROVE  Framed(s \o Frame(r)) /\ Whole(s \o Frame(r))
<1> DEFINE f == Frame(r)
           n == Len(s)
<1>1. f \in Seq(Units) /\ Len(f) = 2 /\ f[1] = <<r, 1>> /\ f[2] = <<r, 2>>
  BY DEF Frame, Units
<1>2. n \in Nat /\ (s # <<>> => n > 0)
  BY LenProperties, EmptySeq
<1> HIDE DEF f
<1>3. /\ Len(s \o f) = n + 2
      /\ \A i \in 1 .. n + 2 : (s \o f)[i] = IF i <= n THEN s[i] ELSE f[i - n]
  <2>1. /\ Len(s \o f) = Len(s) + Len(f)
        /\ \A i \in 1 .. Len(s) + Len(f) :
             (s \o f)[i] = IF i <= Len(s) THEN s[i] ELSE f[i - Len(s)]
    BY <1>1, ConcatProperties
  <2> QED BY <1>1, <2>1
<1>4. /\ \A i \in 1 .. n : (s \o f)[i] = s[i]
      /\ (s \o f)[n + 1] = <<r, 1>> /\ (s \o f)[n + 2] = <<r, 2>>
  <2>1. (s \o f)[n + 1] = f[1]
    BY <1>2, <1>3
  <2>2. (s \o f)[n + 2] = f[2]
    BY <1>2, <1>3
  <2>3. \A i \in 1 .. n : (s \o f)[i] = s[i]
    BY <1>2, <1>3
  <2> QED BY <1>1, <2>1, <2>2, <2>3
<1>5. Len(s \o f) = n + 2
  BY <1>3
<1> DEFINE t == s \o f
<1>6. /\ Len(t) = n + 2 /\ t[n + 1] = <<r, 1>> /\ t[n + 2] = <<r, 2>>
      /\ \A i \in 1 .. n : t[i] = s[i]
  BY <1>4, <1>5
<1> HIDE DEF t
<1>7. Whole(t)
  <2>1. t[n + 2][2] = 2
    BY <1>6
  <2> QED BY <1>6, <2>1 DEF Whole
<1>8. ASSUME NEW i \in 1 .. n + 2
      PROVE  IF t[i][2] = 1 THEN i = 1 \/ t[i - 1][2] = 2
                            ELSE i > 1 /\ t[i - 1] = <<t[i][1], 1>>
  <2>1. CASE i <= n
    <3>1. t[i] = s[i] /\ (i > 1 => t[i - 1] = s[i - 1])
      BY <1>2, <1>6, <2>1
    <3>2. IF s[i][2] = 1 THEN i = 1 \/ s[i - 1][2] = 2
                         ELSE i > 1 /\ s[i - 1] = <<s[i][1], 1>>
      BY <1>2, <2>1 DEF Framed
    <3> QED BY <3>1, <3>2
  <2>2. CASE i = n + 1
    <3>1. t[i][2] = 1
      BY <1>6, <2>2
    <3>2. i = 1 \/ t[i - 1][2] = 2
      <4>1. CASE n = 0
        BY <2>2, <4>1
      <4>2. CASE n > 0
        <5>1. s # <<>>
          BY <4>2
        <5>2. t[n] = s[n] /\ i - 1 = n
          BY <1>2, <1>6, <2>2, <4>2
        <5> QED BY <5>1, <5>2 DEF Whole
      <4> QED BY <1>2, <4>1, <4>2
    <3> QED BY <3>1, <3>2
  <2>3. CASE i = n + 2
    <3>1. t[i][2] = 2 /\ t[i][1] = r /\ i > 1 /\ i - 1 = n + 1
      BY <1>2, <1>6, <2>3
    <3> QED BY <1>6, <3>1
  <2> QED BY <1>2, <2>1, <2>2, <2>3
<1>9. Framed(t)
  BY <1>6, <1>8 DEF Framed
<1> QED BY <1>7, <1>9 DEF t, f

LEMMA WayTyped ==
  PipesInv => /\ Way \in Seq(Requests) /\ \A r \in Range(Way) : r <= sent
              /\ accepted \in Seq(Requests) /\ Waiting \o Coming \in Seq(Requests)
<1> SUFFICES ASSUME PipesInv
             PROVE  /\ Way \in Seq(Requests) /\ \A r \in Range(Way) : r <= sent
                    /\ accepted \in Seq(Requests) /\ Waiting \o Coming \in Seq(Requests)
  OBVIOUS
<1> DEFINE w == Waiting \o Coming
<1>1. /\ leftover \in Seq(Requests) /\ inbound \in Seq(Requests) /\ chunk \in Seq(Requests)
      /\ input \in Seq(Requests) /\ accepted \in Seq(Requests)
      /\ Waiting \in Seq(Requests) /\ Coming \in Seq(Requests) /\ w \in Seq(Requests)
  BY RequestsTyped DEF PipesInv
<1>2. Range(Waiting) = Range(leftover) \union Range(inbound)
  BY <1>1, RangeConcatenation DEF Waiting
<1>3. Range(Coming) \subseteq Range(chunk) \union Range(input)
  <2>1. Range(chunk \o input) = Range(chunk) \union Range(input)
    BY <1>1, RangeConcatenation
  <2> QED BY <2>1, EmptyOnce DEF Coming
<1>4. Range(w) = Range(Waiting) \union Range(Coming)
  BY <1>1, RangeConcatenation
<1> HIDE DEF w
<1>5. Range(accepted \o w) = Range(accepted) \union Range(w)
  BY <1>1, RangeConcatenation
<1>6. accepted \o w \in Seq(Requests)
  BY <1>1, ConcatProperties
<1>7. \A r \in Range(accepted \o w) : r <= sent
  BY <1>2, <1>3, <1>4, <1>5 DEF PipesInv, OnceOnTheWay
<1> QED BY <1>1, <1>6, <1>7 DEF Way, w

\* Only the client adds to what was sent.
LEMMA SentGrows == [Next]_vars /\ ~ClientSends => sent' = sent
BY DEF Next, ClientCloses, CancelKeyPress, StdinStep, StdinReads, StdinEof, FeedLooksUp,
       FeedRefused, FeedSends, FeedCutOff, StdinStops, ServiceStep, StreamRefills,
       ServiceAccepts, ServiceFails, ServiceDropped, ServiceStops, CallStep, Answers,
       AnswerLost, StdoutStep, WaitLooksUp, StdoutRefused, WaitChecks, WaitWoken, DrainTakes,
       DrainEmpty, Writes, Decides, WaitTimesOut, WriteFails, StdoutFails, Goes, MainStep,
       Expires, MainWakes, MainJoined, JoinExpires, StopFlags, StopRemoves, GraceMet,
       GraceExpires, MainGoes, clientVars, vars

LEMMA InOrderStep ==
  ASSUME PipesInv, PipesInv', [Next]_vars, InOrder
  PROVE  InOrder'
<1> DEFINE t == Waiting \o Coming
<1>1. /\ accepted \in Seq(Requests) /\ t \in Seq(Requests) /\ Way \in Seq(Requests)
      /\ Way = accepted \o t /\ sent \in Nat /\ Len(Way) \in Nat
  <2>1. accepted \in Seq(Requests) /\ t \in Seq(Requests) /\ Way \in Seq(Requests)
    BY WayTyped
  <2>2. Way = accepted \o t
    BY DEF Way
  <2>3. sent \in Nat
    BY PumpsAssumption DEF PipesInv, IInv, TypeOK
  <2>4. Len(Way) \in Nat
    BY <2>1, LenProperties
  <2> QED BY <2>1, <2>2, <2>3, <2>4
<1>2. \A r \in Range(Way') : r <= sent'
  <2>1. (\A r \in Range(Way) : r <= sent)'
    BY WayTyped, PTL
  <2> QED BY <2>1
<1>3. CASE ClientSends /\ WayOpen
  <2> DEFINE e == <<sent + 1>>
  <2>1. /\ t' = t \o e /\ WayOpen' /\ sent + 1 \in Requests /\ accepted' = accepted
        /\ sent' = sent + 1 /\ Len(Way) = sent /\ Numbered(Way)
    BY <1>3, RequestJoins DEF ClientSends, serviceVars, InOrder
  <2>2. e \in Seq(Requests)
    BY <2>1
  <2> HIDE DEF e, t
  <2>3. accepted \o (t \o e) = (accepted \o t) \o e
    BY <1>1, <2>2, ConcatAssociative
  <2>4. Way' = Way \o e
    BY <1>1, <2>1, <2>3 DEF Way, t
  <2>5. Numbered(Way \o e) /\ Len(Way \o e) = sent + 1
    BY <1>1, <2>1, NumberedGrows DEF e
  <2> QED BY <2>1, <2>4, <2>5 DEF InOrder
<1>4. CASE ~(ClientSends /\ WayOpen)
  <2>1. WayOpen => sent' = sent
    BY <1>4, SentGrows
  <2>2. [Requested!PipeNext]_(Requested!pipeVars)
    BY RequestsFlow DEF RequestStep
  <2>3. CASE UNCHANGED Requested!pipeVars
    <3>1. t' = t /\ accepted' = accepted /\ WayOpen' = WayOpen
      BY <2>3 DEF Requested!pipeVars, Waiting, Coming, WayOpen
    <3> QED BY <2>1, <3>1 DEF InOrder, Way
  <2>4. CASE Requested!Put
    <3>1. PICK r \in Requests :
            /\ Requested!UnitsOf(<<r>>) \cap Requested!UnitsOf(accepted \o t) = {}
            /\ t' = t \o <<r>>
      BY <2>4 DEF Requested!Put, Waiting, Coming
    <3>2. WayOpen /\ accepted' = accepted
      BY <2>4 DEF Requested!Put, WayOpen
    <3>3. r \notin Range(Way)
      <4>1. Requested!UnitsOf(<<r>>) = {r}
        BY DEF Requested!UnitsOf
      <4>2. Requested!UnitsOf(accepted \o t) = Range(Way)
        BY DEF Requested!UnitsOf, Range, Way
      <4> QED BY <3>1, <4>1, <4>2
    <3>4. r \in Range(Way')
      <4> DEFINE e == <<r>>
      <4>1. e \in Seq(Requests) /\ Range(e) = {r}
        BY SingleOnce
      <4>2. t' = t \o e
        BY <3>1
      <4> HIDE DEF e, t
      <4>3. t \o e \in Seq(Requests)
        BY <1>1, <4>1, ConcatProperties
      <4>5. Range(t \o e) = Range(t) \union Range(e)
        BY <1>1, <4>1, RangeConcatenation
      <4> DEFINE w == t \o e
      <4>6. w \in Seq(Requests) /\ Range(w) = Range(t) \union Range(e)
        BY <4>3, <4>5
      <4> HIDE DEF w
      <4>7. Range(accepted \o w) = Range(accepted) \union Range(w)
        BY <1>1, <4>6, RangeConcatenation
      <4>4. Range(accepted \o (t \o e)) = Range(accepted) \union Range(t \o e)
        BY <4>7 DEF w
      <4> QED BY <4>5, <3>2, <4>1, <4>2, <4>3, <4>4 DEF Way, t
    <3>5. r \in 1 .. Len(Way) /\ Way[r] = r
      BY <1>1, <1>2, <2>1, <3>2, <3>4 DEF InOrder, Numbered, Requests
    <3>6. r \in Range(Way)
      <4>1. DOMAIN Way = 1 .. Len(Way)
        BY <1>1, LenProperties
      <4> QED BY <3>5, <4>1 DEF Range
    <3> QED BY <3>3, <3>6
  <2>5. CASE Requested!Deliver
    <3>1. PICK n \in 1 .. Len(t) : /\ accepted' = accepted \o SubSeq(t, 1, n)
                                   /\ t' = SubSeq(t, n + 1, Len(t))
      BY <2>5 DEF Requested!Deliver, Waiting, Coming
    <3>2. WayOpen' = WayOpen
      BY <2>5 DEF Requested!Deliver, WayOpen
    <3> HIDE DEF t
    <3>3. n \in 0 .. Len(t)
      BY <1>1, LenProperties
    <3>4. (accepted \o SubSeq(t, 1, n)) \o SubSeq(t, n + 1, Len(t)) = accepted \o t
      BY <1>1, <3>3, HandOver
    <3>5. Way' = Way
      BY <1>1, <3>1, <3>4 DEF Way, t
    <3> QED BY <2>1, <3>2, <3>5 DEF InOrder
  <2>6. CASE Requested!Breaks
    <3>1. PICK n \in 0 .. Len(t) : t' = SubSeq(t, 1, n)
      BY <2>6 DEF Requested!Breaks, Waiting, Coming
    <3>2. accepted' = accepted /\ ~WayOpen'
      BY <2>6 DEF Requested!Breaks, WayOpen
    <3> HIDE DEF t
    <3>3. /\ Len(accepted) + n \in 0 .. Len(accepted \o t)
          /\ accepted \o SubSeq(t, 1, n) = SubSeq(accepted \o t, 1, Len(accepted) + n)
      BY <1>1, CutBehind
    <3>4. Numbered(SubSeq(Way, 1, Len(accepted) + n))
      BY <1>1, <3>3, NumberedPrefix DEF InOrder
    <3>5. Way' = SubSeq(Way, 1, Len(accepted) + n)
      BY <1>1, <3>1, <3>2, <3>3 DEF Way, t
    <3> QED BY <3>2, <3>4, <3>5 DEF InOrder
  <2> QED BY <2>2, <2>3, <2>4, <2>5, <2>6 DEF Requested!PipeNext
<1> QED BY <1>3, <1>4

LEMMA InjectivePrefix ==
  ASSUME NEW S, NEW s \in Seq(S), IsInjective(s), NEW k \in 0 .. Len(s)
  PROVE  IsInjective(SubSeq(s, 1, k))
<1> DEFINE t == SubSeq(s, 1, k)
<1>1. t \in Seq(S) /\ Len(t) = k /\ \A i \in 1 .. k : t[i] = s[i]
  BY PrefixElements
<1>2. DOMAIN s = 1 .. Len(s) /\ Len(s) \in Nat
  BY LenProperties
<1>3. DOMAIN t = 1 .. k
  BY <1>1, LenProperties
<1> HIDE DEF t
<1>4. 1 .. k \subseteq 1 .. Len(s)
  BY <1>2
<1>5. IsInjective(t)
  BY <1>1, <1>2, <1>3, <1>4 DEF IsInjective
<1> QED BY <1>5 DEF t

LEMMA ThroughTyped ==
  ASSUME PipesInv
  PROVE  /\ written \in Seq(Units) /\ Going \in Seq(Units) /\ Through \in Seq(Units)
         /\ Through = written \o Going
<1>1. written \in Seq(Units) /\ Going \in Seq(Units)
  BY UnitsTyped DEF PipesInv
<1> QED BY <1>1, ConcatProperties DEF Through

OnceWhole == WholeFrames /\ IsInjective(Through)

LEMMA OnceWholeStep ==
  ASSUME PipesInv, [Next]_vars, OnceWhole
  PROVE  OnceWhole'
<1> DEFINE t == Going
<1>1. /\ written \in Seq(Units) /\ t \in Seq(Units) /\ Through \in Seq(Units)
      /\ Through = written \o t
  BY ThroughTyped
<1>2. [Answered!PipeNext]_(Answered!pipeVars)
  BY AnswersFlow DEF AnswerStep
<1>3. Through' = written' \o t'
  BY DEF Through
<1>4. CASE UNCHANGED Answered!pipeVars
  <2>1. t' = t /\ written' = written /\ OutOpen' = OutOpen
    BY <1>4 DEF Answered!pipeVars, Going, OutOpen
  <2>2. Through' = Through
    BY <1>1, <1>3, <2>1
  <2> QED BY <2>1, <2>2 DEF OnceWhole, WholeFrames
<1>5. CASE Answered!Put
  <2>1. PICK r \in Requests :
          /\ Answered!UnitsOf(Frame(r)) \cap Answered!UnitsOf(written \o t) = {}
          /\ t' = t \o Frame(r)
    BY <1>5 DEF Answered!Put, Going
  <2>2. OutOpen /\ OutOpen' /\ written' = written
    BY <1>5 DEF Answered!Put, OutOpen
  <2> DEFINE f == Frame(r)
  <2>3. f \in Seq(Units) /\ IsInjective(f)
    BY DEF Frame, Units, IsInjective
  <2>4. Range(f) \cap Range(Through) = {}
    BY <1>1, <2>1 DEF Answered!UnitsOf, Range
  <2>5. Framed(Through \o f) /\ Whole(Through \o f)
    BY <1>1, <2>2, FramedGrows DEF OnceWhole, WholeFrames
  <2> HIDE DEF f, t
  <2>6. written \o (t \o f) = (written \o t) \o f
    <3>1. written \in Seq(Units) /\ t \in Seq(Units) /\ f \in Seq(Units)
      BY <1>1, <2>3
    <3> QED BY ONLY <3>1, ConcatAssociative
  <2>7. Through' = Through \o f
    BY <1>1, <1>3, <2>1, <2>2, <2>6 DEF f
  <2>8. IsInjective(Through \o f)
    <3>1. IsInjective(Through)
      BY DEF OnceWhole
    <3> QED BY <1>1, <2>3, <2>4, <3>1, ConcatOnce
  <2> QED BY <2>5, <2>7, <2>8 DEF OnceWhole, WholeFrames
<1>6. CASE Answered!Deliver
  <2>1. PICK n \in 1 .. Len(t) : /\ written' = written \o SubSeq(t, 1, n)
                                 /\ t' = SubSeq(t, n + 1, Len(t))
    BY <1>6 DEF Answered!Deliver, Going
  <2>2. OutOpen' = OutOpen
    BY <1>6 DEF Answered!Deliver, OutOpen
  <2> HIDE DEF t
  <2>3. n \in 0 .. Len(t)
    BY <1>1, LenProperties
  <2>4. (written \o SubSeq(t, 1, n)) \o SubSeq(t, n + 1, Len(t)) = written \o t
    BY <1>1, <2>3, HandOver
  <2>5. Through' = Through
    BY <1>1, <1>3, <2>1, <2>4
  <2> QED BY <2>2, <2>5 DEF OnceWhole, WholeFrames
<1>7. CASE Answered!Breaks
  <2>1. PICK n \in 0 .. Len(t) : t' = SubSeq(t, 1, n)
    BY <1>7 DEF Answered!Breaks, Going
  <2>2. written' = written /\ ~OutOpen'
    BY <1>7 DEF Answered!Breaks, OutOpen
  <2> HIDE DEF t
  <2> DEFINE k == Len(written) + n
  <2>3. /\ k \in 0 .. Len(written \o t)
        /\ written \o SubSeq(t, 1, n) = SubSeq(written \o t, 1, k)
    BY <1>1, CutBehind
  <2>4. Through' = SubSeq(Through, 1, k) /\ k \in 0 .. Len(Through)
    BY <1>1, <1>3, <2>1, <2>2, <2>3
  <2> HIDE DEF k
  <2>5. Framed(SubSeq(Through, 1, k))
    BY <1>1, <2>4, FramedPrefix DEF OnceWhole, WholeFrames
  <2>6. IsInjective(SubSeq(Through, 1, k))
    BY <1>1, <2>4, InjectivePrefix DEF OnceWhole
  <2> QED BY <2>2, <2>4, <2>5, <2>6 DEF OnceWhole, WholeFrames
<1> QED BY <1>2, <1>4, <1>5, <1>6, <1>7 DEF Answered!PipeNext

\* The service takes the requests in the order the client wrote them, and
\* leaves none of them out: the k-th it accepts is the k-th that was sent.
ServedInOrder == accepted = [k \in 1 .. Len(accepted) |-> k] /\ Len(accepted) <= sent

\* The client receives whole answers: the second half of a frame right behind
\* the first, no frame twice, and each for a request that was sent, accepted and
\* is not running any more.
AnsweredWhole ==
  /\ Framed(written) /\ IsInjective(written)
  /\ \A u \in Range(written) : u[1] <= sent /\ u[1] \in Range(accepted) \ running

LEMMA InitEnds == Init => InOrder /\ OnceWhole
<1> SUFFICES ASSUME Init PROVE InOrder /\ OnceWhole
  OBVIOUS
<1>1. <<>> \o <<>> = <<>> /\ Len(<<>>) = 0
  BY EmptySeq, ConcatEmptySeq
<1>2. Way = <<>> /\ sent = 0
  BY <1>1 DEF Init, Way, Waiting, Coming, StdinEnds
<1>3. Through = <<>>
  BY <1>1 DEF Init, Through, Going, StdoutEnds
<1>4. IsInjective(<<>>)
  BY EmptyOnce
<1>5. InOrder
  BY <1>1, <1>2 DEF InOrder, Numbered
<1>6. OnceWhole
  BY <1>1, <1>3, <1>4 DEF OnceWhole, WholeFrames, Framed, Whole
<1> QED BY <1>5, <1>6

\* For every channel capacity, the way from the client's first byte to the
\* service, through the pump, Feed's channel and the stream's leftover, neither
\* loses, repeats nor reorders a request.
THEOREM RequestsInOrder == Spec => []ServedInOrder
<1>1. PipesInv /\ InOrder /\ [Next]_vars => InOrder'
  BY InOrderStep, PipesStep
<1>2. PipesInv /\ InOrder => ServedInOrder
  <2> SUFFICES ASSUME PipesInv, InOrder PROVE ServedInOrder
    OBVIOUS
  <2> DEFINE w == Waiting \o Coming
  <2>1. accepted \in Seq(Requests) /\ w \in Seq(Requests) /\ Way = accepted \o w
    BY WayTyped DEF Way
  <2>2. \A r \in Range(Way) : r <= sent
    BY WayTyped
  <2> HIDE DEF w
  <2>3. /\ Len(accepted) \in Nat /\ Len(w) \in Nat /\ Len(Way) = Len(accepted) + Len(w)
        /\ \A k \in 1 .. Len(accepted) : Way[k] = accepted[k]
    <3>1. Len(accepted) \in Nat /\ Len(w) \in Nat
      BY <2>1, LenProperties
    <3>2. /\ Len(accepted \o w) = Len(accepted) + Len(w)
          /\ \A i \in 1 .. Len(accepted) + Len(w) :
               (accepted \o w)[i] = IF i <= Len(accepted) THEN accepted[i] ELSE w[i - Len(accepted)]
      BY <2>1, ConcatProperties
    <3> QED BY <2>1, <3>1, <3>2
  <2>4. \A k \in 1 .. Len(accepted) : accepted[k] = k
    BY <2>3 DEF InOrder, Numbered
  <2>5. accepted = [k \in 1 .. Len(accepted) |-> accepted[k]]
    BY <2>1, LenProperties
  <2>6. Len(accepted) <= sent
    <3>1. CASE Len(accepted) = 0
      BY <3>1, PumpsAssumption DEF PipesInv, IInv, TypeOK
    <3>2. CASE Len(accepted) > 0
      <4>1. Len(accepted) \in 1 .. Len(Way) /\ Way[Len(accepted)] = Len(accepted)
        BY <2>3, <2>4, <3>2
      <4>2. DOMAIN Way = 1 .. Len(Way)
        <5>1. Way \in Seq(Requests)
          BY WayTyped
        <5> QED BY <5>1, LenProperties
      <4>3. Len(accepted) \in Range(Way)
        BY <4>1, <4>2 DEF Range
      <4> QED BY <2>2, <4>3
    <3> QED BY <2>3, <3>1, <3>2
  <2> QED BY <2>4, <2>5, <2>6 DEF ServedInOrder
<1> QED BY InitPipes, InitEnds, PipesStep, <1>1, <1>2, PTL DEF Spec

\* For every drain size, what the client reads is a sequence of whole answers,
\* but for the last when the session ends: the queue, the pieces a drain takes
\* and the writes mix no two answers and repeat none.
THEOREM AnswersWhole == Spec => []AnsweredWhole
<1>1. PipesInv /\ OnceWhole /\ [Next]_vars => OnceWhole'
  BY OnceWholeStep
<1>2. PipesInv /\ OnceWhole => AnsweredWhole
  <2> SUFFICES ASSUME PipesInv, OnceWhole PROVE AnsweredWhole
    OBVIOUS
  <2>1. /\ written \in Seq(Units) /\ Going \in Seq(Units) /\ Through \in Seq(Units)
        /\ Through = written \o Going
    BY ThroughTyped
  <2> DEFINE k == Len(written)
             t == Going
  <2> HIDE DEF t
  <2>2. k \in 0 .. Len(written \o t) /\ SubSeq(written \o t, 1, k) = written
    BY <2>1, SplitConcat DEF t
  <2>3. k \in 0 .. Len(Through) /\ SubSeq(Through, 1, k) = written
    BY <2>1, <2>2 DEF t
  <2> HIDE DEF k
  <2>4. Framed(written)
    BY <2>1, <2>3, FramedPrefix DEF OnceWhole, WholeFrames
  <2>5. IsInjective(written)
    BY <2>1, <2>3, InjectivePrefix DEF OnceWhole
  <2>6. \A u \in Range(written) : u[1] <= sent /\ u[1] \in Range(accepted) \ running
    BY DEF PipesInv, AnsweredOnce, OnceOnTheWay
  <2> QED BY <2>4, <2>5, <2>6 DEF AnsweredWhole
<1> QED BY InitPipes, InitEnds, PipesStep, <1>1, <1>2, PTL DEF Spec
==============================================================================
