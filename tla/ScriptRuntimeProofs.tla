------------------------- MODULE ScriptRuntimeProofs --------------------------
(***************************************************************************)
(* For every stream, every set of patterns and every compaction threshold: *)
(* the types of ScriptRuntime, and, with the literal matcher (Wide = {}),  *)
(* that its positions stay in range and that it implements RxStream.       *)
(***************************************************************************)
EXTENDS ScriptRuntime, SequenceLemmas, WellFoundedInduction, FiniteSetTheorems, TLAPS

------------------------------------------------------------------------------
(* Matching.                                                               *)

\* A nonempty set of natural numbers has a least element, and Min is it.
LEMMA MinIsLeast ==
  ASSUME NEW T \in SUBSET Nat, T # {}
  PROVE  Min(T) \in T /\ \A y \in T : Min(T) <= y
<1>1. PICK x \in T : \A y \in T : <<y, x>> \notin OpToRel(<, Nat)
  BY NatLessThanWellFounded, WFMin
<1>2. \A y \in T : x <= y
  <2> SUFFICES ASSUME NEW y \in T, ~(x <= y) PROVE FALSE
    OBVIOUS
  <2>1. y < x /\ <<y, x>> \in Nat \X Nat
    OBVIOUS
  <2>2. <<y, x>> \in OpToRel(<, Nat)
    BY <2>1 DEF OpToRel
  <2> QED BY <1>1, <2>2
<1> QED BY <1>1, <1>2 DEF Min

\* A pattern that occurs ends inside the region, and FirstEnd is where the first
\* occurrence to complete does.
LEMMA FirstEndIsLeast ==
  ASSUME NEW s \in Seq(Symbols), NEW ps \in SUBSET Patterns, Occurs(s, ps)
  PROVE  /\ FirstEnd(s, ps) \in 1 .. Len(s)
         /\ \E p \in ps : FirstEnd(s, ps) \in Ends(s, p)
         /\ \A p \in ps : \A e \in Ends(s, p) : FirstEnd(s, ps) <= e
<1> DEFINE T == UNION {Ends(s, p) : p \in ps}
           e == FirstEnd(s, ps)
<1>1. \A p \in ps : Len(p) \in Nat \ {0} /\ Ends(s, p) \subseteq Len(p) .. Len(s)
  <2> SUFFICES ASSUME NEW p \in ps
               PROVE  Len(p) \in Nat \ {0} /\ Ends(s, p) \subseteq Len(p) .. Len(s)
    OBVIOUS
  <2>1. p \in Seq(Symbols) /\ p # <<>>
    BY RuntimeAssumption
  <2> QED BY <2>1, EmptySeq DEF Ends
<1>2. Len(s) \in Nat
  OBVIOUS
<1>3. T \in SUBSET Nat /\ T \subseteq 1 .. Len(s)
  BY <1>1, <1>2
<1>4. T # {}
  BY DEF Occurs
<1>5. e \in T /\ \A y \in T : e <= y
  <2> HIDE DEF T
  <2>1. Min(T) \in T /\ \A y \in T : Min(T) <= y
    BY <1>3, <1>4, MinIsLeast
  <2> QED BY <2>1 DEF T, FirstEnd
<1> QED BY <1>3, <1>5

\* The matcher's offset is a number, and that end when no symbol is wide.
LEMMA MatchEndType ==
  ASSUME NEW s \in Seq(Symbols), NEW ps \in SUBSET Patterns, Occurs(s, ps)
  PROVE  /\ FirstEnd(s, ps) \in 1 .. Len(s)
         /\ MatchEnd(s, ps) \in Nat
         /\ Wide = {} => MatchEnd(s, ps) = FirstEnd(s, ps)
<1> DEFINE e == FirstEnd(s, ps)
           W == {i \in 1 .. e : s[i] \in Wide}
<1>1. e \in 1 .. Len(s) /\ Len(s) \in Nat
  BY FirstEndIsLeast
<1>2. Cardinality(W) \in Nat
  <2> HIDE DEF e
  <2>1. IsFiniteSet(1 .. e)
    BY <1>1, FS_Interval
  <2>2. IsFiniteSet(W)
    BY <2>1, FS_Subset
  <2> QED BY <2>2, FS_CardinalityType
<1>3. MatchEnd(s, ps) = e + Cardinality(W)
  BY DEF MatchEnd
<1>4. Wide = {} => Cardinality(W) = 0
  BY FS_EmptySet
<1>5. e + Cardinality(W) \in Nat /\ (Wide = {} => e + Cardinality(W) = e)
  <2> DEFINE c == Cardinality(W)
  <2>1. e \in Nat /\ c \in Nat /\ (Wide = {} => c = 0)
    BY <1>1, <1>2, <1>4
  <2> HIDE DEF e, c
  <2>2. e + c \in Nat /\ (Wide = {} => e + c = e)
    BY <2>1
  <2> QED BY <2>2 DEF c
<1>6. MatchEnd(s, ps) \in Nat /\ (Wide = {} => MatchEnd(s, ps) = e)
  <2> HIDE DEF e, W
  <2> QED BY <1>3, <1>5
<1> QED BY <1>1, <1>6

\* The occurrences in a prefix are those of the whole that end in the prefix.
LEMMA EndsOfPrefix ==
  ASSUME NEW s \in Seq(Symbols), NEW n \in 0 .. Len(s), NEW p \in Patterns
  PROVE  Ends(SubSeq(s, 1, n), p) = {e \in Ends(s, p) : e <= n}
<1> DEFINE t == SubSeq(s, 1, n)
<1>1. /\ Len(p) \in Nat \ {0} /\ Len(s) \in Nat
      /\ t \in Seq(Symbols) /\ Len(t) = n
  <2>1. p \in Seq(Symbols) /\ p # <<>>
    BY RuntimeAssumption
  <2>2. Len(p) \in Nat \ {0}
    BY <2>1, EmptySeq
  <2>3. t \in Seq(Symbols) /\ Len(t) = n
    BY PrefixElements
  <2> QED BY <2>2, <2>3, LenProperties
<1>2. ASSUME NEW e \in Len(p) .. n
      PROVE  SubSeq(t, e - Len(p) + 1, e) = SubSeq(s, e - Len(p) + 1, e)
  <2> DEFINE m == e - Len(p) + 1
  <2>1. /\ 1 \in 1 .. Len(s) /\ n \in 1 .. Len(s)
        /\ m \in 1 .. n - 1 + 1 /\ e \in 1 .. n - 1 + 1
        /\ 1 + m - 1 = m /\ 1 + e - 1 = e
    BY <1>1
  <2> HIDE DEF m
  <2>2. SubSeq(SubSeq(s, 1, n), m, e) = SubSeq(s, 1 + m - 1, 1 + e - 1)
    BY <2>1, SubSeqOfSubSeq
  <2> QED BY <2>1, <2>2 DEF m
<1>3. Len(p) .. n = {e \in Len(p) .. Len(s) : e <= n}
  BY <1>1
<1> HIDE DEF t
<1>4. Ends(t, p) = {e \in Len(p) .. n : SubSeq(t, e - Len(p) + 1, e) = p}
  BY <1>1 DEF Ends
<1>5. Ends(t, p) = {e \in Len(p) .. n : SubSeq(s, e - Len(p) + 1, e) = p}
  BY <1>2, <1>4
<1> QED BY <1>3, <1>5 DEF Ends, t

------------------------------------------------------------------------------
(* Types.                                                                  *)

LEMMA InitType == Init => TypeOK
<1> SUFFICES ASSUME Init PROVE TypeOK
  OBVIOUS
<1>1. <<>> \in Seq(Symbols)
  BY EmptySeq
<1>2. 0 \in 0 .. MaxTicks /\ 0 \in 0 .. MaxChunks
  BY RuntimeAssumption
<1> QED BY <1>1, <1>2 DEF Init, TypeOK, Ops, Outcomes, Matchers

\* ConsumeThrough keeps the types of the buffer.
LEMMA ConsumeType ==
  ASSUME TypeOK, NEW end \in Nat, ConsumeThrough(end)
  PROVE  pending' \in Seq(Symbols) /\ scanPos' \in Nat
<1>1. end + 1 \in Int /\ Len(pending) \in Int /\ \A i \in end + 1 .. Len(pending) : pending[i] \in Symbols
  BY ElementOfSeq DEF TypeOK
<1>2. SubSeq(pending, end + 1, Len(pending)) \in Seq(Symbols)
  BY <1>1, SubSeqProperties
<1> QED BY <1>2 DEF TypeOK, ConsumeThrough

\* Region is a sequence whether or not the scan position is in range.
LEMMA RegionType == TypeOK => Region \in Seq(Symbols)
<1> SUFFICES ASSUME TypeOK PROVE Region \in Seq(Symbols)
  OBVIOUS
<1>1. scanPos + 1 \in Int /\ Len(pending) \in Int /\ \A i \in scanPos + 1 .. Len(pending) : pending[i] \in Symbols
  BY ElementOfSeq DEF TypeOK
<1> QED BY <1>1, SubSeqProperties DEF Region

\* The variables keep their types, whatever the matcher.
LEMMA TypeStep == TypeOK /\ [Next]_vars => TypeOK'
<1> SUFFICES ASSUME TypeOK, [Next]_vars PROVE TypeOK'
  OBVIOUS
<1> USE RuntimeAssumption DEF TypeOK, streamVars, flagVars, signalVars, eventVars, callVars, replyVars
<1>1. CASE EventStep
  <2>1. ASSUME NEW x \in Symbols, OnData(x) PROVE TypeOK'
    <3>1. inbox' \in Seq(Symbols)
      BY <2>1, AppendProperties DEF OnData
    <3> QED BY <2>1, <3>1 DEF OnData
  <2>2. CASE OnDataReleases BY <2>2 DEF OnDataReleases
  <2>3. CASE OnLinkError BY <2>3 DEF OnLinkError
  <2>4. CASE OnLinkErrorReleases BY <2>4 DEF OnLinkErrorReleases
  <2>5. CASE RequestCancel BY <2>5 DEF RequestCancel
  <2>6. CASE RequestCancelReleases BY <2>6 DEF RequestCancelReleases
  <2> QED BY <1>1, <2>1, <2>2, <2>3, <2>4, <2>5, <2>6 DEF EventStep
<1>2. CASE Tick BY <1>2 DEF Tick
<1>3. CASE ScriptTimeout BY <1>3 DEF ScriptTimeout
<1>4. CASE Send
  BY <1>4, EmptySeq DEF Send, Answered, Outcomes
<1>5. CASE Refused
  BY <1>5, EmptySeq DEF Refused, Answered, Outcomes
<1>6. ASSUME NEW t \in 0 .. MaxTicks, Begin(t) PROVE TypeOK'
  <2>1. ASSUME NEW o \in Ops, NEW ps \in SUBSET Patterns, NEW place \in {"drain", "ingest"},
               Begins(o, ps, t, place)
        PROVE  TypeOK'
    BY <2>1, EmptySeq DEF Begins, Outcomes
  <2> QED BY <1>6, <2>1 DEF Begin, Ops, Matchers
<1>7. CASE PumpStep
  <2>1. CASE DrainTakes
    <3>1. pending' \in Seq(Symbols) /\ inbox' \in Seq(Symbols)
      BY <2>1, AppendProperties, HeadTailProperties DEF DrainTakes
    <3> QED BY <2>1, <3>1 DEF DrainTakes
  <2>2. CASE ReadIngested BY <2>2 DEF ReadIngested, Goes
  <2>3. CASE PumpTests BY <2>3 DEF PumpTests, Goes
  <2>4. CASE PumpChecks BY <2>4 DEF PumpChecks, Goes
  <2>5. CASE PumpWakes BY <2>5 DEF PumpWakes, Goes
  <2>6. ASSUME NEW o \in Outcomes, NEW t \in Seq(Symbols), Returns(o, t),
               pending' \in Seq(Symbols), scanPos' \in Nat
        PROVE  TypeOK'
    BY <2>6 DEF Returns
  <2>7. CASE SleepReturns BY <2>6, <2>7, EmptySeq DEF SleepReturns, Outcomes
  <2>8. CASE WaitReturns
    <3>1. SubSeq(pending, before + 1, Len(pending)) \in Seq(Symbols)
      <4>1. /\ before + 1 \in Int /\ Len(pending) \in Int
            /\ \A i \in before + 1 .. Len(pending) : pending[i] \in Symbols
        BY ElementOfSeq
      <4> QED BY <4>1, SubSeqProperties
    <3> QED BY <2>6, <2>8, <3>1 DEF WaitReturns, Outcomes
  <2>9. CASE ReadReturns
    BY <2>6, <2>9, RegionType, ConsumeType DEF ReadReturns, Outcomes
  <2>10. CASE FlushReturns
    BY <2>6, <2>10, ConsumeType, EmptySeq DEF FlushReturns, Outcomes
  <2>11. CASE Matched
    <3> DEFINE end == MatchEnd(Region, pats)
    <3>1. end \in Nat /\ end <= Len(Region) /\ Region \in Seq(Symbols)
      BY <2>11, RegionType, MatchEndType DEF Matched
    <3>2. SubSeq(Region, 1, end) \in Seq(Symbols)
      BY <3>1, StretchType
    <3>3. scanPos + end \in Nat
      BY <3>1
    <3>4. pending' \in Seq(Symbols) /\ scanPos' \in Nat
      BY <2>11, <3>3, ConsumeType DEF Matched
    <3>5. PICK o \in {"appeared", "ok"} : Returns(o, SubSeq(Region, 1, end))
      BY <2>11 DEF Matched
    <3> QED BY <2>6, <3>2, <3>4, <3>5 DEF Outcomes
  <2>12. CASE MatchFaults
    <3>1. MatchEnd(Region, pats) \in Nat
      BY <2>12, RegionType, MatchEndType DEF MatchFaults
    <3>2. scanPos' \in Nat /\ pending' \in Seq(Symbols)
      BY <2>12, <3>1 DEF MatchFaults
    <3> QED BY <2>6, <2>12, <3>2, EmptySeq DEF MatchFaults, Outcomes
  <2>13. CASE RegionFaults BY <2>6, <2>13, EmptySeq DEF RegionFaults, Outcomes
  <2>14. CASE NotMatched
    BY <2>6, <2>14, EmptySeq DEF NotMatched, Missed, TimesOut, Outcomes
  <2> QED BY <1>7, <2>1, <2>2, <2>3, <2>4, <2>5, <2>7, <2>8, <2>9, <2>10, <2>11, <2>12, <2>13, <2>14
          DEF PumpStep, Returning
<1>8. CASE UNCHANGED vars
  BY <1>8 DEF vars
<1> QED BY <1>1, <1>2, <1>3, <1>4, <1>5, <1>6, <1>7, <1>8 DEF Next

\* Every variable keeps its type in every behaviour.
THEOREM TypeCorrect == Spec => []TypeOK
<1> QED BY InitType, TypeStep, PTL DEF Spec

------------------------------------------------------------------------------
(* Positions, with the literal matcher.                                    *)

IInv == TypeOK /\ PositionsInRange

LEMMA InitIInv == Init => IInv
<1> SUFFICES ASSUME Init PROVE IInv
  OBVIOUS
<1>1. PositionsInRange
  BY EmptySeq DEF Init, PositionsInRange
<1> QED BY <1>1, InitType DEF IInv

\* Consuming through a position of the buffer leaves _scanPos in it.
LEMMA ConsumeInRange ==
  ASSUME TypeOK, NEW end \in 0 .. Len(pending), ConsumeThrough(end)
  PROVE  scanPos' <= Len(pending')
<1>1. end \in Nat /\ Len(pending) \in Nat
  BY DEF TypeOK
<1>2. CASE end >= Threshold
  <2>1. pending' \in Seq(Symbols) /\ scanPos' = 0
    BY <1>1, <1>2, ConsumeType DEF ConsumeThrough
  <2> QED BY <2>1
<1>3. CASE ~(end >= Threshold)
  BY <1>1, <1>3 DEF ConsumeThrough
<1> QED BY <1>2, <1>3

\* The region's length is what lies between _scanPos and the end.
LEMMA RegionLength ==
  IInv => /\ Region \in Seq(Symbols) /\ scanPos \in 0 .. Len(pending)
          /\ Len(Region) = Len(pending) - scanPos
<1> SUFFICES ASSUME IInv PROVE /\ Region \in Seq(Symbols) /\ scanPos \in 0 .. Len(pending)
                               /\ Len(Region) = Len(pending) - scanPos
  OBVIOUS
<1>1. pending \in Seq(Symbols) /\ scanPos \in 0 .. Len(pending) /\ Len(pending) \in scanPos .. Len(pending)
  BY DEF IInv, TypeOK, PositionsInRange
<1> QED BY <1>1, StretchType DEF Region

\* With the literal matcher no position is left dangling.
LEMMA RangeStep == Wide = {} => (IInv /\ [Next]_vars => PositionsInRange')
<1> SUFFICES ASSUME Wide = {}, IInv, [Next]_vars PROVE PositionsInRange'
  OBVIOUS
<1>0. /\ pending \in Seq(Symbols) /\ scanPos \in 0 .. Len(pending) /\ Len(pending) \in Nat
      /\ pc # "idle" => scanPos <= before /\ before <= Len(pending)
      /\ before \in Nat /\ scanPos \in Nat
  BY DEF IInv, TypeOK, PositionsInRange
<1> USE DEF PositionsInRange, streamVars, flagVars, signalVars, eventVars, callVars, replyVars
<1>1. CASE UNCHANGED <<pending, scanPos, pc, before>>
  BY <1>0, <1>1
<1>2. CASE EventStep
  BY <1>1, <1>2 DEF EventStep, OnData, OnDataReleases, OnLinkError, OnLinkErrorReleases,
                    RequestCancel, RequestCancelReleases
<1>3. CASE Tick \/ ScriptTimeout \/ Send \/ Refused
  BY <1>1, <1>3 DEF Tick, ScriptTimeout, Send, Refused, Answered
<1>4. ASSUME NEW t \in 0 .. MaxTicks, Begin(t) PROVE PositionsInRange'
  <2>1. /\ pending' = pending /\ scanPos' = scanPos /\ before' = Len(pending)
    BY <1>4 DEF Begin, Begins
  <2> QED BY <1>0, <2>1
<1>5. CASE DrainTakes
  <2>1. inbox \in Seq(Symbols) /\ Head(inbox) \in Symbols
    BY <1>5, HeadTailProperties DEF IInv, TypeOK, DrainTakes
  <2>2. Len(pending') = Len(pending) + 1
    BY <1>0, <1>5, <2>1, AppendProperties DEF DrainTakes
  <2> QED BY <1>0, <1>5, <2>2 DEF DrainTakes
<1>6. CASE ReadIngested BY <1>0, <1>6 DEF ReadIngested, Goes
<1>7. CASE PumpTests \/ PumpChecks \/ PumpWakes
  BY <1>0, <1>7 DEF PumpTests, PumpChecks, PumpWakes, Goes
<1>8. CASE SleepReturns \/ WaitReturns \/ NotMatched \/ RegionFaults
  BY <1>0, <1>8 DEF SleepReturns, WaitReturns, NotMatched, Missed, RegionFaults, Returns
<1>9. CASE ReadReturns \/ FlushReturns
  <2>1. ConsumeThrough(Len(pending)) /\ pc' = "idle"
    BY <1>9 DEF ReadReturns, FlushReturns, Returns
  <2>2. Len(pending) \in 0 .. Len(pending) /\ TypeOK
    BY <1>0 DEF IInv
  <2>3. scanPos' <= Len(pending')
    BY <2>1, <2>2, ConsumeInRange
  <2> QED BY <2>1, <2>3
<1>10. ASSUME pc = "finish", op \in Matchers, Occurs(Region, pats)
       PROVE  MatchEnd(Region, pats) \in 1 .. Len(Region)
  <2>1. Region \in Seq(Symbols) /\ pats \in SUBSET Patterns
    BY RegionLength DEF IInv, TypeOK
  <2> QED BY <1>10, <2>1, MatchEndType
<1>11. CASE Matched
  <2>1. scanPos + MatchEnd(Region, pats) \in 0 .. Len(pending)
    BY <1>0, <1>10, <1>11, RegionLength DEF Matched
  <2>2. scanPos' <= Len(pending') /\ pc' = "idle"
    BY <1>11, <2>1, ConsumeInRange DEF Matched, Returns, IInv
  <2> QED BY <2>2
<1>12. CASE MatchFaults
  BY <1>10, <1>12, RegionLength DEF MatchFaults
<1>13. CASE UNCHANGED vars
  BY <1>1, <1>13 DEF vars
<1> QED BY <1>2, <1>3, <1>4, <1>5, <1>6, <1>7, <1>8, <1>9, <1>11, <1>12, <1>13
        DEF Next, PumpStep, Returning

LEMMA NextIInv == Wide = {} => (IInv /\ [Next]_vars => IInv')
<1> QED BY TypeStep, RangeStep DEF IInv

\* With the literal matcher, no operation ever slices outside the buffer.
THEOREM PositionsStay == ASSUME Wide = {} PROVE Spec => []PositionsInRange
<1>1. IInv /\ [Next]_vars => IInv'
  BY NextIInv
<1>2. IInv => PositionsInRange
  BY DEF IInv
<1> QED BY InitIInv, <1>1, <1>2, PTL DEF Spec

------------------------------------------------------------------------------
(* The buffer implements the stream, with the literal matcher.             *)

\* The kind of the operation in progress, as the refinement maps it.
Kind ==
  IF pc = "idle" THEN "none"
  ELSE IF op \in {"wait", "sleep"} THEN "tap"
  ELSE IF op = "flush" THEN "drop" ELSE "take"

\* Consuming n units of the region takes the first n units of Unread.
LEMMA ConsumeMaps ==
  ASSUME IInv, NEW n \in 0 .. Len(Region), ConsumeThrough(scanPos + n), inbox' = inbox
  PROVE  /\ n \in 0 .. Len(Unread)
         /\ SubSeq(Region, 1, n) = SubSeq(Unread, 1, n)
         /\ Unread' = SubSeq(Unread, n + 1, Len(Unread))
<1>1. /\ pending \in Seq(Symbols) /\ inbox \in Seq(Symbols)
      /\ scanPos \in 0 .. Len(pending) /\ n \in 0 .. Len(pending) - scanPos
      /\ Len(pending) \in Nat
  BY RegionLength DEF IInv, TypeOK
<1>2. /\ n \in 0 .. Len(Unread)
      /\ SubSeq(Region, 1, n) = SubSeq(Unread, 1, n)
      /\ SubSeq(pending, scanPos + n + 1, Len(pending)) \o inbox
           = SubSeq(Unread, n + 1, Len(Unread))
  BY <1>1, ConsumeTakes DEF Region, Unread
<1>3. Region' = SubSeq(pending, scanPos + n + 1, Len(pending))
  <2> DEFINE end == scanPos + n
             rest == SubSeq(pending, end + 1, Len(pending))
  <2>1. end \in 0 .. Len(pending) /\ Len(pending) \in end .. Len(pending)
    BY <1>1
  <2>2. rest \in Seq(Symbols)
    BY <1>1, <2>1, StretchType
  <2>3. Region' = SubSeq(pending', scanPos' + 1, Len(pending'))
    BY DEF Region
  <2>4. CASE end >= Threshold
    <3>1. pending' = rest /\ scanPos' + 1 = 1
      <4>1. ConsumeThrough(end)
        OBVIOUS
      <4> HIDE DEF end
      <4>2. scanPos' = 0 /\ pending' = SubSeq(pending, end + 1, Len(pending))
        BY <2>4, <4>1 DEF ConsumeThrough
      <4> QED BY <4>2
    <3> HIDE DEF rest
    <3>2. SubSeq(rest, 1, Len(rest)) = rest
      BY <2>2, SubSeqFull
    <3> QED BY <2>3, <3>1, <3>2 DEF rest
  <2>5. CASE ~(end >= Threshold)
    BY <2>3, <2>5 DEF ConsumeThrough
  <2> QED BY <2>4, <2>5
<1> QED BY <1>2, <1>3 DEF Unread

\* Where the buffer and the call stay, a step maps to a stutter.
LEMMA StutterMaps ==
  ASSUME UNCHANGED <<Unread, Kind, text>>
  PROVE  UNCHANGED Stream!rxVars
<1> QED BY DEF Stream!rxVars, Kind

\* A step that ends a call without a result, and one that is refused.
LEMMA DeclineMaps ==
  ASSUME pc' = "idle", text' = <<>>, Unread' = Unread
  PROVE  Stream!RxNext
<1> QED BY DEF Stream!RxNext, Stream!Decline

\* Every step of the runtime maps to a step of the stream or a stutter.
LEMMA StepMaps == Wide = {} => (IInv /\ [Next]_vars => [Stream!RxNext]_(Stream!rxVars))
<1> SUFFICES ASSUME Wide = {}, IInv, [Next]_vars PROVE [Stream!RxNext]_(Stream!rxVars)
  OBVIOUS
<1> USE DEF streamVars, flagVars, signalVars, eventVars, callVars, replyVars
<1>0. /\ pending \in Seq(Symbols) /\ inbox \in Seq(Symbols) /\ Region \in Seq(Symbols)
      /\ scanPos \in 0 .. Len(pending) /\ Len(pending) \in Nat
      /\ Len(Region) = Len(pending) - scanPos
  BY RegionLength DEF IInv, TypeOK
<1>1. CASE UNCHANGED <<pending, scanPos, inbox, pc, op, text>>
  <2>1. UNCHANGED <<Unread, Kind, text>>
    BY <1>1 DEF Unread, Region, Kind
  <2> QED BY <2>1, StutterMaps
<1>2. CASE EventStep
  <2>1. ASSUME NEW x \in Symbols, OnData(x) PROVE Stream!RxNext
    <3>1. Unread' = Append(Unread, x)
      <4>1. Region' = Region /\ inbox' = Append(inbox, x)
        BY <2>1 DEF OnData, Region
      <4> QED BY <1>0, <4>1, AppendUnread DEF Unread
    <3>2. Kind' = Kind /\ text' = text
      BY <2>1 DEF OnData, Kind
    <3> QED BY <3>1, <3>2 DEF Stream!RxNext, Stream!Receive, Kind
  <2> QED BY <1>1, <1>2, <2>1 DEF EventStep, OnDataReleases, OnLinkError, OnLinkErrorReleases,
             RequestCancel, RequestCancelReleases
<1>3. CASE Tick \/ ScriptTimeout
  BY <1>1, <1>3 DEF Tick, ScriptTimeout
<1>4. CASE Send \/ Refused
  <2>1. pc' = "idle" /\ text' = <<>> /\ UNCHANGED <<pending, scanPos, inbox>>
    BY <1>4 DEF Send, Refused, Answered
  <2>2. Unread' = Unread
    BY <2>1 DEF Unread, Region
  <2> QED BY <2>1, <2>2, DeclineMaps
<1>5. ASSUME NEW t \in 0 .. MaxTicks, Begin(t) PROVE Stream!RxNext
  <2>1. /\ pc = "idle" /\ pc' # "idle" /\ text' = <<>>
        /\ UNCHANGED <<pending, scanPos, inbox>>
    BY <1>5 DEF Begin, Begins
  <2>2. Unread' = Unread
    BY <2>1 DEF Unread, Region
  <2> QED BY <2>1, <2>2 DEF Stream!RxNext, Stream!Ask
<1>6. CASE DrainTakes
  <2>1. /\ scanPos' = scanPos /\ inbox # <<>>
        /\ pending' = Append(pending, Head(inbox)) /\ inbox' = Tail(inbox)
    BY <1>6 DEF DrainTakes
  <2>2. Unread' = Unread
    BY <1>0, <2>1, DrainKeeps DEF Unread, Region
  <2>3. UNCHANGED <<Kind, text>>
    BY <1>6 DEF DrainTakes, Kind
  <2> QED BY <2>2, <2>3, StutterMaps
<1>7. CASE ReadIngested \/ PumpTests \/ PumpChecks \/ PumpWakes
  <2>1. /\ UNCHANGED <<pending, scanPos, inbox, op, text>>
        /\ pc # "idle" /\ pc' # "idle"
    BY <1>7 DEF ReadIngested, PumpTests, PumpChecks, PumpWakes, Goes
  <2>2. UNCHANGED <<Unread, Kind, text>>
    BY <2>1 DEF Unread, Region, Kind
  <2> QED BY <2>2, StutterMaps
<1>8. CASE SleepReturns \/ NotMatched
  <2>1. pc' = "idle" /\ text' = <<>> /\ UNCHANGED <<pending, scanPos, inbox>>
    BY <1>8 DEF SleepReturns, NotMatched, Missed, Returns
  <2>2. Unread' = Unread
    BY <2>1 DEF Unread, Region
  <2> QED BY <2>1, <2>2, DeclineMaps
<1>9. CASE WaitReturns
  <2>1. /\ pc = "finish" /\ op = "wait" /\ pc' = "idle"
        /\ text' = SubSeq(pending, before + 1, Len(pending))
        /\ UNCHANGED <<pending, scanPos, inbox>>
    BY <1>9 DEF WaitReturns, Returns
  <2>2. Unread' = Unread
    BY <2>1 DEF Unread, Region
  <2>3. before \in scanPos .. Len(pending)
    BY <2>1 DEF IInv, TypeOK, PositionsInRange
  <2>4. \E m, n \in 0 .. Len(Unread) :
          SubSeq(pending, before + 1, Len(pending)) = SubSeq(Unread, m + 1, n)
    <3>1. /\ pending \in Seq(Symbols) /\ inbox \in Seq(Symbols)
          /\ scanPos \in 0 .. Len(pending) /\ before \in scanPos .. Len(pending)
      BY <1>0, <2>3
    <3> QED BY ONLY <3>1, TapReads, Zenon DEF Unread, Region
  <2> QED BY <2>1, <2>2, <2>4 DEF Stream!RxNext, Stream!Tap
<1>10. ASSUME NEW n \in 0 .. Len(Region), ConsumeThrough(scanPos + n), inbox' = inbox,
              pc # "idle", op \notin {"wait", "sleep", "flush"}, pc' = "idle",
              text' = SubSeq(Region, 1, n)
       PROVE  Stream!RxNext
  <2>1. /\ n \in 0 .. Len(Unread)
        /\ text' = SubSeq(Unread, 1, n)
        /\ Unread' = SubSeq(Unread, n + 1, Len(Unread))
    BY <1>10, ConsumeMaps
  <2> QED BY <1>10, <2>1 DEF Stream!RxNext, Stream!Take
<1>11. CASE ReadReturns
  <2>1. /\ ConsumeThrough(Len(pending)) /\ inbox' = inbox /\ text' = Region
        /\ pc = "finish" /\ op = "read" /\ pc' = "idle"
    BY <1>11 DEF ReadReturns, Returns
  <2>2. Len(Region) \in 0 .. Len(Region) /\ scanPos + Len(Region) = Len(pending)
    BY <1>0
  <2>3. SubSeq(Region, 1, Len(Region)) = Region
    BY <1>0, SubSeqFull
  <2> QED BY <1>10, <2>1, <2>2, <2>3
<1>12. CASE FlushReturns
  <2>1. /\ ConsumeThrough(Len(pending)) /\ inbox' = inbox /\ text' = <<>>
        /\ pc = "ingest" /\ op = "flush" /\ pc' = "idle"
    BY <1>12 DEF FlushReturns, Returns
  <2>2. Len(Region) \in 0 .. Len(Region) /\ scanPos + Len(Region) = Len(pending)
    BY <1>0
  <2>3. /\ Len(Region) \in 0 .. Len(Unread)
        /\ Unread' = SubSeq(Unread, Len(Region) + 1, Len(Unread))
    BY <2>1, <2>2, ConsumeMaps
  <2> QED BY <2>1, <2>3 DEF Stream!RxNext, Stream!Drop
<1>13. CASE Matched
  <2>1. /\ pc = "finish" /\ op \in Matchers /\ Occurs(Region, pats)
        /\ ConsumeThrough(scanPos + MatchEnd(Region, pats)) /\ inbox' = inbox
        /\ pc' = "idle" /\ text' = SubSeq(Region, 1, MatchEnd(Region, pats))
    BY <1>13 DEF Matched, Returns
  <2>2. pats \in SUBSET Patterns
    BY DEF IInv, TypeOK
  <2>3. MatchEnd(Region, pats) \in 0 .. Len(Region)
    BY <1>0, <2>1, <2>2, MatchEndType
  <2> QED BY <1>10, <2>1, <2>3 DEF Matchers
<1>14. CASE MatchFaults
  \* The literal matcher's end is in the region.
  <2>1. Occurs(Region, pats) /\ MatchEnd(Region, pats) > Len(Region)
    BY <1>14 DEF MatchFaults
  <2>2. pats \in SUBSET Patterns
    BY DEF IInv, TypeOK
  <2> QED BY <1>0, <2>1, <2>2, MatchEndType
<1>15. CASE RegionFaults
  BY <1>0, <1>15 DEF RegionFaults
<1>16. CASE UNCHANGED vars
  BY <1>1, <1>16 DEF vars
<1> QED BY <1>2, <1>3, <1>4, <1>5, <1>6, <1>7, <1>8, <1>9, <1>11, <1>12, <1>13, <1>14, <1>15, <1>16
        DEF Next, PumpStep, Returning

LEMMA InitMaps == Init => Stream!RxInit
<1> SUFFICES ASSUME Init PROVE Stream!RxInit
  OBVIOUS
<1>1. Region = <<>> /\ inbox = <<>>
  BY SubSeqEmpty, EmptySeq DEF Init, Region
<1>2. <<>> \o <<>> = <<>>
  BY EmptySeq, ConcatEmptySeq
<1> QED BY <1>1, <1>2 DEF Init, Unread, Stream!RxInit

\* With the literal matcher, drained and compacted as the script goes along,
\* the received stream is read in order, each unit once: a taking call returns
\* the prefix it removes, wait removes nothing and only flush discards.
THEOREM StreamImplemented == ASSUME Wide = {} PROVE Spec => StreamContract
<1>1. IInv /\ [Next]_vars => IInv'
  BY NextIInv
<1>2. IInv /\ [Next]_vars => [Stream!RxNext]_(Stream!rxVars)
  BY StepMaps
<1> QED BY InitIInv, InitMaps, <1>1, <1>2, PTL DEF Spec, StreamContract, Stream!RxSpec

------------------------------------------------------------------------------
(* What an operation reports, whatever the matcher.                        *)

\* While an operation runs it has reported nothing, and when it gives up on
\* its pattern it has been cancelled, or the link has failed, or time is up.
CallInv ==
  /\ TypeOK
  /\ pc = "idle" <=> op = "none"
  /\ pc # "idle" => outcome = "none"
  /\ asked <= received
  /\ pc = "finish" /\ op \in Matchers /\ ~Occurs(Region, pats) =>
       cancelRequested \/ linkError \/ timeLeft = 0

LEMMA InitCall == Init => CallInv
<1> QED BY InitType DEF Init, CallInv

\* The steps that leave the wait's verdict alone.
LEMMA CallKept ==
  ASSUME CallInv, TypeOK', UNCHANGED <<pending, scanPos, op, pats, pc, asked>>,
         received' \in {received, received + 1}, pc # "idle" => outcome' = outcome,
         cancelRequested => cancelRequested', linkError => linkError',
         timeLeft = 0 => timeLeft' = 0
  PROVE  CallInv'
<1>1. UNCHANGED <<Region, Matchers>> /\ Occurs(Region, pats)' = Occurs(Region, pats)
  BY DEF Region, Occurs, Ends, Matchers
<1>2. asked \in Nat /\ received \in Nat
  BY DEF CallInv, TypeOK
<1>3. asked' <= received'
  BY <1>2 DEF CallInv
<1> QED BY <1>1, <1>3 DEF CallInv

LEMMA CallReturned ==
  ASSUME CallInv, TypeOK', NEW o, NEW t, Returns(o, t)
  PROVE  CallInv'
<1>1. received' = received /\ received \in Nat
  BY DEF Returns, eventVars, CallInv, TypeOK
<1> QED BY <1>1 DEF Returns, CallInv

LEMMA CallStep == CallInv /\ [Next]_vars => CallInv'
<1> SUFFICES ASSUME CallInv, [Next]_vars PROVE CallInv'
  OBVIOUS
<1>0. TypeOK'
  BY TypeStep DEF CallInv
<1>a. timeLeft \in Nat /\ received \in Nat /\ asked \in Nat
  BY RuntimeAssumption DEF CallInv, TypeOK
<1> USE DEF streamVars, flagVars, signalVars, eventVars, callVars, replyVars
<1>1. CASE EventStep
  BY <1>0, <1>1, CallKept
     DEF EventStep, OnData, OnDataReleases, OnLinkError, OnLinkErrorReleases,
         RequestCancel, RequestCancelReleases
<1>2. CASE Tick
  BY <1>0, <1>2, CallKept DEF Tick
<1>3. CASE ScriptTimeout
  BY <1>0, <1>3, CallKept DEF ScriptTimeout
<1>4. CASE Send \/ Refused
  BY <1>0, <1>4, CallKept DEF Send, Refused, Answered
<1>5. ASSUME NEW t \in 0 .. MaxTicks, Begin(t) PROVE CallInv'
  <2>1. /\ op' \in Ops /\ pc' \in {"drain", "ingest"} /\ outcome' = "none"
        /\ asked' = received /\ received' = received
    BY <1>5 DEF Begin, Begins, Ops, Matchers
  <2> QED BY <1>0, <1>a, <2>1 DEF CallInv, Ops, Matchers
<1>6. ASSUME UNCHANGED <<op, outcome, asked, received>>, pc # "idle",
             pc' \in {"ingest", "drain", "check", "wait"}
      PROVE  CallInv'
  BY <1>0, <1>6 DEF CallInv
<1>7. CASE DrainTakes
  BY <1>6, <1>7 DEF DrainTakes
<1>8. CASE PumpWakes
  BY <1>6, <1>8 DEF PumpWakes, Goes
<1>9. CASE ReadIngested
  <2>1. pc # "idle" /\ op' = "read" /\ pc' \in {"finish", "drain"}
        /\ UNCHANGED <<op, outcome, asked, received>>
    BY <1>9 DEF ReadIngested, Goes
  <2> QED BY <1>0, <2>1 DEF CallInv, Matchers
<1>10. CASE PumpTests
  <2>1. /\ pc = "drain" /\ pc' = (IF Done THEN "finish" ELSE "check")
        /\ UNCHANGED <<pending, scanPos, op, pats, outcome, asked, received>>
    BY <1>10 DEF PumpTests, Goes
  <2>2. Occurs(Region, pats)' = Occurs(Region, pats)
    BY <2>1 DEF Region, Occurs, Ends
  <2>3. Done /\ op \in Matchers => Occurs(Region, pats)
    BY DEF Done, Matchers
  <2>4. CASE Done
    <3> HIDE DEF Done
    <3> QED BY <1>0, <2>1, <2>2, <2>3, <2>4 DEF CallInv
  <2>5. CASE ~Done
    <3> HIDE DEF Done
    <3> QED BY <1>6, <2>1, <2>5
  <2> QED BY <2>4, <2>5
<1>11. CASE PumpChecks
  <2>1. CASE cancelRequested \/ linkError \/ timeLeft = 0
    <3>1. /\ pc = "check" /\ pc' = "finish"
          /\ UNCHANGED <<op, outcome, asked, received, cancelRequested, linkError, timeLeft>>
      BY <1>11, <2>1 DEF PumpChecks, Goes
    <3> QED BY <1>0, <2>1, <3>1 DEF CallInv
  <2>2. CASE ~(cancelRequested \/ linkError \/ timeLeft = 0)
    BY <1>6, <1>11, <2>2 DEF PumpChecks, Goes
  <2> QED BY <2>1, <2>2
<1>12. CASE Returning
  BY <1>0, <1>12, CallReturned
     DEF Returning, SleepReturns, WaitReturns, ReadReturns, FlushReturns, Matched, MatchFaults,
         RegionFaults, NotMatched, Missed
<1>13. CASE UNCHANGED vars
  BY <1>0, <1>13, CallKept DEF vars
<1> QED BY <1>1, <1>2, <1>3, <1>4, <1>5, <1>7, <1>8, <1>9, <1>10, <1>11, <1>12, <1>13
        DEF Next, PumpStep

\* Only the tails of the operations report while one is running.
LEMMA ReportsAtTheEnd ==
  ASSUME CallInv, [Next]_vars, op # "none", outcome' # outcome
  PROVE  Returning
<1>1. pc # "idle"
  BY DEF CallInv
<1> USE DEF streamVars, flagVars, signalVars, eventVars, callVars, replyVars
<1> QED BY <1>1 DEF Next, EventStep, OnData, OnDataReleases, OnLinkError, OnLinkErrorReleases,
          RequestCancel, RequestCancelReleases, Tick, ScriptTimeout, Send, Refused, Answered,
          Begin, Begins, PumpStep, DrainTakes, ReadIngested, PumpTests, PumpChecks, PumpWakes,
          Goes, vars

\* An early wake is never reported as absence, nor is a hit, for every
\* timeout, every set of patterns and either matcher.
THEOREM AbsenceIsReal == Spec => AbsentIsReal
<1>1. ASSUME CallInv, [Next]_vars, op = "expect_absent", pc' = "idle", outcome' = "ok"
      PROVE  timeLeft = 0 /\ ~Occurs(Region, pats)
  <2>1. pc # "idle" /\ outcome = "none"
    BY <1>1 DEF CallInv
  <2>2. Returning
    BY <1>1, <2>1, ReportsAtTheEnd
  <2>3. NotMatched
    BY <1>1, <2>2 DEF Returning, SleepReturns, WaitReturns, ReadReturns, FlushReturns, Matched,
                      MatchFaults, RegionFaults, Returns
  <2>4. pc = "finish" /\ op \in Matchers /\ ~Occurs(Region, pats) /\ ~linkError /\ ~cancelRequested
    BY <1>1, <2>3 DEF NotMatched, Missed, Returns
  <2> QED BY <1>1, <2>4 DEF CallInv
<1>2. CallInv /\ [Next]_vars =>
        [op = "expect_absent" /\ pc' = "idle" /\ outcome' = "ok" =>
           timeLeft = 0 /\ ~Occurs(Region, pats)]_vars
  BY <1>1
<1> QED BY InitCall, CallStep, <1>2, PTL DEF Spec, AbsentIsReal

\* A wait that was cancelled or lost its link is never reported as a timeout.
THEOREM TimeoutsArePure == Spec => TimeoutIsPure
<1>1. ASSUME CallInv, [Next]_vars, pc # "idle", outcome' = "timeout"
      PROVE  timeLeft = 0 /\ ~linkError /\ ~cancelRequested
  <2>1. outcome = "none" /\ op # "none"
    BY <1>1 DEF CallInv
  <2>2. Returning
    BY <1>1, <2>1, ReportsAtTheEnd
  <2>3. NotMatched
    BY <1>1, <2>2 DEF Returning, SleepReturns, WaitReturns, ReadReturns, FlushReturns, Matched,
                      MatchFaults, RegionFaults, Returns
  <2>4. pc = "finish" /\ op \in Matchers /\ ~Occurs(Region, pats) /\ ~linkError /\ ~cancelRequested
    BY <1>1, <2>3 DEF NotMatched, Missed, Returns
  <2>5. cancelRequested \/ linkError \/ timeLeft = 0
    BY <1>1, <2>4 DEF CallInv
  <2> QED BY <2>4, <2>5
<1>2. CallInv /\ [Next]_vars =>
        [pc # "idle" /\ outcome' = "timeout" =>
           timeLeft = 0 /\ ~linkError /\ ~cancelRequested]_vars
  BY <1>1
<1> QED BY InitCall, CallStep, <1>2, PTL DEF Spec, TimeoutIsPure

\* What was received before a flush is gone after it, drained or not.
THEOREM FlushTakesAll == Spec => FlushIsComplete
<1>1. ASSUME CallInv, [Next]_vars, op = "flush", pc' = "idle", outcome' = "ok"
      PROVE  Len(Unread') <= received - asked
  <2>1. pc # "idle" /\ outcome = "none"
    BY <1>1 DEF CallInv
  <2>2. Returning
    BY <1>1, <2>1, ReportsAtTheEnd
  <2>3. FlushReturns
    BY <1>1, <2>2 DEF Returning, SleepReturns, WaitReturns, ReadReturns, Matched, MatchFaults,
                      RegionFaults, NotMatched, Missed, Returns, Matchers
  <2>4. /\ inbox' = <<>> /\ ConsumeThrough(Len(pending))
        /\ pending \in Seq(Symbols) /\ Len(pending) \in Nat
    <3>1. inbox' = <<>> /\ ConsumeThrough(Len(pending))
      BY <2>3 DEF FlushReturns, Returns, flagVars, signalVars, eventVars
    <3>2. pending \in Seq(Symbols)
      BY <1>1 DEF CallInv, TypeOK
    <3> QED BY <3>1, <3>2
  <2>5. Region' = <<>>
    <3>1. SubSeq(pending, Len(pending) + 1, Len(pending)) = <<>>
      BY <2>4, SubSeqEmpty
    <3>2. SubSeq(<<>>, 1, 0) = <<>> /\ Len(<<>>) = 0 /\ 0 + 1 = 1
      BY SubSeqEmpty
    <3>3. Region' = SubSeq(pending', scanPos' + 1, Len(pending'))
      BY DEF Region
    <3> QED BY <2>4, <3>1, <3>2, <3>3 DEF ConsumeThrough
  <2>6. Unread' = <<>>
    <3>1. <<>> \o <<>> = <<>>
      BY EmptySeq, ConcatEmptySeq
    <3> QED BY <2>4, <2>5, <3>1 DEF Unread
  <2>7. asked <= received /\ received \in Nat /\ asked \in Nat
    BY <1>1, RuntimeAssumption DEF CallInv, TypeOK
  <2>8. Len(Unread') = 0
    BY <2>6, EmptySeq
  <2> QED BY <2>7, <2>8
<1>2. CallInv /\ [Next]_vars =>
        [op = "flush" /\ pc' = "idle" /\ outcome' = "ok" =>
           Len(Unread') <= received - asked]_vars
  BY <1>1
<1> QED BY InitCall, CallStep, <1>2, PTL DEF Spec, FlushIsComplete

------------------------------------------------------------------------------
(* What Expect takes, with the literal matcher.                            *)

\* With the literal matcher no operation ends by slicing outside the buffer.
THEOREM NothingFaults == ASSUME Wide = {} PROVE Spec => [](outcome # "fault")
<1>1. ASSUME IInv, [Next]_vars, outcome # "fault" PROVE outcome' # "fault"
  <2> USE DEF streamVars, flagVars, signalVars, eventVars, callVars, replyVars
  <2>1. ~RegionFaults
    BY <1>1 DEF RegionFaults, IInv, TypeOK, PositionsInRange
  <2>2. ~MatchFaults
    <3> SUFFICES ASSUME MatchFaults PROVE FALSE
      OBVIOUS
    <3>1. Occurs(Region, pats) /\ MatchEnd(Region, pats) > Len(Region)
      BY DEF MatchFaults
    <3>2. Region \in Seq(Symbols) /\ pats \in SUBSET Patterns /\ Len(Region) \in Nat
      BY <1>1, RegionLength DEF IInv, TypeOK
    <3> QED BY <3>1, <3>2, MatchEndType
  <2> QED BY <1>1, <2>1, <2>2
          DEF Next, EventStep, OnData, OnDataReleases, OnLinkError, OnLinkErrorReleases,
              RequestCancel, RequestCancelReleases, Tick, ScriptTimeout, Send, Refused, Answered,
              Begin, Begins, PumpStep, DrainTakes, ReadIngested, PumpTests, PumpChecks, PumpWakes,
              Goes, Returning, SleepReturns, WaitReturns, ReadReturns, FlushReturns, Matched,
              NotMatched, Missed, TimesOut, Returns, vars
<1>2. IInv /\ [Next]_vars => IInv'
  BY NextIInv
<1>3. Init => outcome # "fault"
  BY DEF Init
<1>4. IInv /\ outcome # "fault" /\ [Next]_vars => (outcome # "fault")'
  BY <1>1
<1> QED BY InitIInv, <1>2, <1>3, <1>4, PTL DEF Spec

\* The step that ends expect or expect_any with a result is the hit.
LEMMA HitTakes ==
  ASSUME IInv, CallInv, [Next]_vars, Wide = {},
         op \in {"expect", "expect_any"}, pc' = "idle", outcome' = "ok"
  PROVE  LET n == FirstEnd(Region, pats) IN
           /\ Occurs(Region, pats) /\ pats \in SUBSET Patterns
           /\ n \in 1 .. Len(Region) /\ n \in 0 .. Len(Region)
           /\ text' = SubSeq(Region, 1, n)
           /\ ConsumeThrough(scanPos + n) /\ inbox' = inbox
<1>1. pc # "idle" /\ outcome = "none"
  BY DEF CallInv
<1>2. Returning
  BY <1>1, ReportsAtTheEnd
<1>3. Matched
  BY <1>2 DEF Returning, SleepReturns, WaitReturns, ReadReturns, FlushReturns, MatchFaults,
              RegionFaults, NotMatched, Missed, TimesOut, Returns
<1>4. Region \in Seq(Symbols) /\ pats \in SUBSET Patterns /\ Occurs(Region, pats)
  BY <1>3, RegionLength DEF Matched, IInv, TypeOK
<1>5. FirstEnd(Region, pats) \in 1 .. Len(Region) /\ MatchEnd(Region, pats) = FirstEnd(Region, pats)
  BY <1>4, MatchEndType
<1>6. /\ text' = SubSeq(Region, 1, MatchEnd(Region, pats))
      /\ ConsumeThrough(scanPos + MatchEnd(Region, pats)) /\ inbox' = inbox
  BY <1>3 DEF Matched, Returns
<1>7. FirstEnd(Region, pats) \in 0 .. Len(Region)
  BY <1>5
<1> QED BY <1>4, <1>5, <1>6, <1>7

\* With the literal matcher Expect does what its comment says: what it returns
\* and takes ends with an occurrence of its pattern.
THEOREM LiteralMatchIsTaken == ASSUME Wide = {} PROVE Spec => ConsumesThroughMatchEnd
<1>1. ASSUME IInv, CallInv, [Next]_vars, op = "expect", pc' = "idle", outcome' = "ok"
      PROVE  \E p \in pats : Len(text') \in Ends(text', p)
  <2> DEFINE n == FirstEnd(Region, pats)
  <2>1. /\ Occurs(Region, pats) /\ pats \in SUBSET Patterns
        /\ n \in 1 .. Len(Region) /\ n \in 0 .. Len(Region) /\ text' = SubSeq(Region, 1, n)
    BY <1>1, HitTakes
  <2>2. Region \in Seq(Symbols)
    BY <1>1, RegionLength
  <2>3. PICK p \in pats : n \in Ends(Region, p)
    BY <2>1, <2>2, FirstEndIsLeast
  <2> HIDE DEF n
  <2>4. p \in Patterns
    BY <2>1
  <2>5. Ends(text', p) = {e \in Ends(Region, p) : e <= n}
    BY <2>1, <2>2, <2>4, EndsOfPrefix
  <2>6. Len(text') = n
    BY <2>1, <2>2, PrefixElements
  <2>7. n \in Ends(text', p)
    BY <2>1, <2>3, <2>5
  <2> QED BY <2>6, <2>7
<1>2. IInv /\ [Next]_vars => IInv'
  BY NextIInv
<1>3. IInv /\ CallInv /\ [Next]_vars =>
        [op = "expect" /\ pc' = "idle" /\ outcome' = "ok" =>
           \E p \in pats : Len(text') \in Ends(text', p)]_vars
  BY <1>1
<1> QED BY InitIInv, InitCall, CallStep, <1>2, <1>3, PTL DEF Spec, ConsumesThroughMatchEnd

\* The first n units that are unread end with the hit: a pattern occurs in
\* them, and none occurs in fewer.
FirstHit(n) ==
  /\ Occurs(SubSeq(Unread, 1, n), pats)
  /\ \A m \in 0 .. n - 1 : ~Occurs(SubSeq(Unread, 1, m), pats)

\* expect and expect_any take the unread output up to the end of the earliest
\* hit among their patterns, neither a unit more nor a later hit, wherever the
\* output was cut into chunks and whatever is still in the inbox.
FirstHitTaken ==
  [][pc' = "idle" /\ outcome' = "ok" /\ op \in {"expect", "expect_any"} =>
       \E n \in 0 .. Len(Unread) :
         /\ FirstHit(n)
         /\ text' = SubSeq(Unread, 1, n)
         /\ Unread' = SubSeq(Unread, n + 1, Len(Unread))]_vars

\* With the literal matcher, for every set of patterns, every cut of the output
\* into chunks and every compaction threshold.
THEOREM EarliestHitTaken == ASSUME Wide = {} PROVE Spec => FirstHitTaken
<1>1. ASSUME IInv, CallInv, [Next]_vars,
             op \in {"expect", "expect_any"}, pc' = "idle", outcome' = "ok"
      PROVE  \E n \in 0 .. Len(Unread) :
               /\ FirstHit(n)
               /\ text' = SubSeq(Unread, 1, n)
               /\ Unread' = SubSeq(Unread, n + 1, Len(Unread))
  <2> DEFINE n == FirstEnd(Region, pats)
  <2>1. /\ Occurs(Region, pats) /\ pats \in SUBSET Patterns
        /\ n \in 1 .. Len(Region) /\ n \in 0 .. Len(Region) /\ text' = SubSeq(Region, 1, n)
        /\ ConsumeThrough(scanPos + n) /\ inbox' = inbox
    BY <1>1, HitTakes
  <2>2. Region \in Seq(Symbols) /\ inbox \in Seq(Symbols) /\ Len(Region) \in Nat
    BY <1>1, RegionLength DEF IInv, TypeOK
  <2>3. /\ \E p \in pats : n \in Ends(Region, p)
        /\ \A p \in pats : \A e \in Ends(Region, p) : n <= e
    BY <2>1, <2>2, FirstEndIsLeast
  <2> HIDE DEF n
  <2>4. /\ n \in 0 .. Len(Unread)
        /\ SubSeq(Region, 1, n) = SubSeq(Unread, 1, n)
        /\ Unread' = SubSeq(Unread, n + 1, Len(Unread))
    BY <1>1, <2>1, ConsumeMaps
  <2>5. \A m \in 0 .. n : \A p \in pats :
          Ends(SubSeq(Region, 1, m), p) = {e \in Ends(Region, p) : e <= m}
    <3> SUFFICES ASSUME NEW m \in 0 .. n, NEW p \in pats
                 PROVE  Ends(SubSeq(Region, 1, m), p) = {e \in Ends(Region, p) : e <= m}
      OBVIOUS
    <3>1. m \in 0 .. Len(Region) /\ p \in Patterns
      BY <2>1, <2>2
    <3> QED BY <2>2, <3>1, EndsOfPrefix
  <2>6. Occurs(SubSeq(Region, 1, n), pats)
    <3>1. PICK p \in pats : n \in Ends(Region, p)
      BY <2>3
    <3>2. Ends(SubSeq(Region, 1, n), p) = {e \in Ends(Region, p) : e <= n}
      BY <2>1, <2>5
    <3>3. n \in Ends(SubSeq(Region, 1, n), p)
      BY <2>1, <3>1, <3>2
    <3> QED BY <3>3 DEF Occurs
  <2>7. ASSUME NEW m \in 0 .. n - 1 PROVE ~Occurs(SubSeq(Unread, 1, m), pats)
    <3>1. m \in 0 .. n /\ m \in 0 .. Len(Region) /\ m < n
      BY <2>1, <2>2
    <3>2. SubSeq(Unread, 1, m) = SubSeq(Region, 1, m)
      BY <2>2, <3>1, PrefixOfConcat DEF Unread
    <3>3. ASSUME NEW p \in pats PROVE Ends(SubSeq(Region, 1, m), p) = {}
      <4>1. Ends(SubSeq(Region, 1, m), p) = {e \in Ends(Region, p) : e <= m}
        BY <2>5, <3>1
      <4>2. \A e \in Ends(Region, p) : e \in Int /\ n <= e
        BY <2>3 DEF Ends
      <4>3. \A e \in Ends(Region, p) : ~(e <= m)
        BY <2>1, <3>1, <4>2
      <4> QED BY <4>1, <4>3
    <3> QED BY <3>2, <3>3 DEF Occurs
  <2> QED BY <2>1, <2>4, <2>6, <2>7 DEF FirstHit
<1>2. IInv /\ [Next]_vars => IInv'
  BY NextIInv
<1>3. IInv /\ CallInv /\ [Next]_vars =>
        [pc' = "idle" /\ outcome' = "ok" /\ op \in {"expect", "expect_any"} =>
           \E n \in 0 .. Len(Unread) :
             /\ FirstHit(n)
             /\ text' = SubSeq(Unread, 1, n)
             /\ Unread' = SubSeq(Unread, n + 1, Len(Unread))]_vars
  BY <1>1
<1> QED BY InitIInv, InitCall, CallStep, <1>2, <1>3, PTL DEF Spec, FirstHitTaken

------------------------------------------------------------------------------
(* Wakeups and progress, whatever the matcher: what WaiterWakes and         *)
(* CallEnds add to these is fairness.                                       *)

\* Whatever a waiting script has to hear of has its signal, or the thread that
\* brought it is about to release it: setting the flag first and releasing the
\* semaphore second loses no wakeup.
SignalsFollow ==
  /\ inbox # <<>> => dataSignal \/ eventThread = "enqueued"
  /\ cancelRequested => cancelSignal \/ canceller = "flagged"
  /\ linkError => cancelSignal \/ eventThread = "errored"

\* The three writers of the inbox and the flags, against the pump that takes
\* signals without looking.
THEOREM NoSignalMissed == Spec => []SignalsFollow
<1>1. Init => SignalsFollow
  BY DEF Init, SignalsFollow
<1>2. ASSUME TypeOK, SignalsFollow, [Next]_vars PROVE SignalsFollow'
  <2> USE DEF streamVars, flagVars, signalVars, eventVars, callVars, replyVars, SignalsFollow
  <2>1. CASE EventStep
    BY <1>2, <2>1 DEF EventStep, OnData, OnDataReleases, OnLinkError, OnLinkErrorReleases,
                      RequestCancel, RequestCancelReleases
  <2>2. CASE /\ inbox' # <<>> => inbox # <<>>
             /\ UNCHANGED <<cancelRequested, linkError, dataSignal, cancelSignal, eventThread,
                            canceller>>
    BY <1>2, <2>2
  <2>3. CASE Tick \/ ScriptTimeout \/ Send \/ Refused
    BY <2>2, <2>3 DEF Tick, ScriptTimeout, Send, Refused, Answered
  <2>4. ASSUME NEW t \in 0 .. MaxTicks, Begin(t) PROVE SignalsFollow'
    BY <2>2, <2>4 DEF Begin, Begins
  <2>5. CASE DrainTakes
    BY <2>2, <2>5 DEF DrainTakes
  <2>6. CASE ReadIngested \/ PumpTests \/ PumpChecks \/ PumpWakes
    BY <2>2, <2>6 DEF ReadIngested, PumpTests, PumpChecks, PumpWakes, Goes
  <2>7. CASE Returning
    BY <2>2, <2>7 DEF Returning, SleepReturns, WaitReturns, ReadReturns, FlushReturns, Matched,
                      MatchFaults, RegionFaults, NotMatched, Missed, Returns
  <2>8. CASE UNCHANGED vars
    BY <2>2, <2>8 DEF vars
  <2> QED BY <1>2, <2>1, <2>3, <2>4, <2>5, <2>6, <2>7, <2>8 DEF Next, PumpStep
<1>3. TypeOK /\ SignalsFollow /\ [Next]_vars => SignalsFollow'
  BY <1>2
<1> QED BY <1>1, <1>3, TypeCorrect, PTL DEF Spec

\* How far the script thread is from the end of its operation, once nothing
\* makes it wait again.
Stage ==
  IF pc = "ingest" THEN 5 ELSE IF pc = "wait" THEN 4 ELSE IF pc = "drain" THEN 3
  ELSE IF pc = "check" THEN 2 ELSE IF pc = "finish" THEN 1 ELSE 0

\* The operation has no reason left to wait.
MustEnd == timeLeft = 0 \/ cancelRequested \/ linkError

\* Once its time is up, or it is cancelled, or the link has failed, every step
\* of the script thread drains a chunk or brings the operation nearer to its
\* end; the others take it back only by a chunk that is received, and that
\* reason stays.  So the operation ends after a number of steps that what is in
\* the inbox and what may still come bound.
NearerTheEnd ==
  [][pc # "idle" /\ MustEnd =>
       /\ PumpStep => \/ Len(inbox') < Len(inbox)
                      \/ Len(inbox') = Len(inbox) /\ Stage' < Stage
       /\ ~PumpStep => Stage' = Stage /\ (Len(inbox') = Len(inbox) \/ received' > received)
       /\ pc' # "idle" => MustEnd']_vars

\* Every operation, at every place of the pump and of the two other threads.
THEOREM OperationsAdvance == Spec => NearerTheEnd
<1>1. ASSUME TypeOK, Next, pc # "idle", MustEnd
      PROVE  /\ PumpStep => \/ Len(inbox') < Len(inbox)
                            \/ Len(inbox') = Len(inbox) /\ Stage' < Stage
             /\ ~PumpStep => Stage' = Stage /\ (Len(inbox') = Len(inbox) \/ received' > received)
             /\ pc' # "idle" => MustEnd'
  <2> USE DEF streamVars, flagVars, signalVars, eventVars, callVars, replyVars
  <2>1. CASE EventStep /\ ~PumpStep
    <3>1. received \in Nat
      BY <1>1 DEF TypeOK
    <3>2. pc' = pc /\ (inbox' = inbox \/ received' > received)
      BY <2>1, <3>1 DEF EventStep, OnData, OnDataReleases, OnLinkError, OnLinkErrorReleases,
                        RequestCancel, RequestCancelReleases
    <3>3. MustEnd'
      BY <1>1, <2>1 DEF EventStep, OnData, OnDataReleases, OnLinkError, OnLinkErrorReleases,
                        RequestCancel, RequestCancelReleases, MustEnd
    <3> QED BY <2>1, <3>2, <3>3 DEF Stage
  <2>2. CASE (Tick \/ ScriptTimeout) /\ ~PumpStep
    <3>1. pc' = pc /\ inbox' = inbox /\ MustEnd'
      BY <1>1, <2>2 DEF Tick, ScriptTimeout, MustEnd, TypeOK
    <3> QED BY <2>2, <3>1 DEF Stage
  <2>3. ~Send /\ ~Refused /\ \A t \in 0 .. MaxTicks : ~Begin(t)
    BY <1>1 DEF Send, Refused, Answered, Begin, Begins
  <2>4. CASE DrainTakes
    <3>1. inbox \in Seq(Symbols) /\ inbox # <<>> /\ inbox' = Tail(inbox)
      BY <1>1, <2>4 DEF TypeOK, DrainTakes
    <3>2. Len(inbox') = Len(inbox) - 1 /\ Len(inbox) \in Nat
      BY <3>1, HeadTailProperties, LenProperties
    <3>3. MustEnd'
      BY <1>1, <2>4 DEF DrainTakes, MustEnd
    <3> QED BY <2>4, <3>2, <3>3 DEF PumpStep
  <2>5. ASSUME PumpStep, inbox' = inbox, Stage' < Stage, pc' # "idle" => MustEnd'
        PROVE  /\ PumpStep => \/ Len(inbox') < Len(inbox)
                              \/ Len(inbox') = Len(inbox) /\ Stage' < Stage
               /\ ~PumpStep => Stage' = Stage /\ (Len(inbox') = Len(inbox) \/ received' > received)
               /\ pc' # "idle" => MustEnd'
    BY <2>5
  <2>6. CASE ReadIngested
    BY <1>1, <2>5, <2>6 DEF PumpStep, ReadIngested, Goes, Stage, MustEnd
  <2>7. CASE PumpTests
    <3>1. pc = "drain" /\ pc' \in {"finish", "check"} /\ inbox' = inbox
      BY <2>7 DEF PumpTests, Goes
    <3>2. MustEnd'
      BY <1>1, <2>7 DEF PumpTests, Goes, MustEnd
    <3> QED BY <2>5, <2>7, <3>1, <3>2 DEF PumpStep, Stage
  <2>8. CASE PumpChecks
    BY <1>1, <2>5, <2>8 DEF PumpStep, PumpChecks, Goes, Stage, MustEnd
  <2>9. CASE PumpWakes
    BY <1>1, <2>5, <2>9 DEF PumpStep, PumpWakes, Goes, Stage, MustEnd
  <2>10. CASE Returning
    <3>1. pc' = "idle" /\ inbox' = inbox
      BY <2>10 DEF Returning, SleepReturns, WaitReturns, ReadReturns, FlushReturns, Matched,
                   MatchFaults, RegionFaults, NotMatched, Missed, Returns
    <3>2. pc \in {"ingest", "drain", "finish"}
      BY <2>10 DEF Returning, SleepReturns, WaitReturns, ReadReturns, FlushReturns, Matched,
                   MatchFaults, RegionFaults, NotMatched, Missed
    <3> QED BY <2>5, <2>10, <3>1, <3>2 DEF PumpStep, Stage
  <2>11. PumpStep =>
           DrainTakes \/ ReadIngested \/ PumpTests \/ PumpChecks \/ PumpWakes \/ Returning
    BY DEF PumpStep
  <2> QED BY <1>1, <2>1, <2>2, <2>3, <2>4, <2>6, <2>7, <2>8, <2>9, <2>10, <2>11 DEF Next
<1>2. TypeOK /\ [Next]_vars =>
        [pc # "idle" /\ MustEnd =>
           /\ PumpStep => \/ Len(inbox') < Len(inbox)
                          \/ Len(inbox') = Len(inbox) /\ Stage' < Stage
           /\ ~PumpStep => Stage' = Stage /\ (Len(inbox') = Len(inbox) \/ received' > received)
           /\ pc' # "idle" => MustEnd']_vars
  BY <1>1
<1> QED BY TypeCorrect, <1>2, PTL DEF Spec, NearerTheEnd
==============================================================================
