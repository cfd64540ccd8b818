--------------------------- MODULE McpPumpsProofs ---------------------------
(***************************************************************************)
(* For every number of requests, channel capacity and drain size: the      *)
(* types of McpPumps, the bound on the inbound channel among them, and     *)
(* that a pump which ends normally has written what it owed.               *)
(***************************************************************************)
EXTENDS McpPumps, SequenceTheorems, TLAPS

\* What the stdout pump has taken it has written or still holds, and nothing
\* that was pushed gets lost before it fails.
Tally ==
  /\ Len(chunk) <= 1
  /\ stdout # "writing" => buffer = <<>>
  /\ last => done
  /\ done /\ stdout # "failed" => owed <= Pushed

IInv == TypeOK /\ Tally /\ FinalDrainComplete

LEMMA Lengths ==
  TypeOK => /\ Len(written) \in Nat /\ Len(buffer) \in Nat /\ Len(outbound) \in Nat
            /\ Len(chunk) \in Nat /\ Len(inbound) \in Nat /\ Pushed \in Nat /\ owed \in Nat
<1> SUFFICES ASSUME TypeOK
             PROVE  /\ Len(written) \in Nat /\ Len(buffer) \in Nat /\ Len(outbound) \in Nat
                    /\ Len(chunk) \in Nat /\ Len(inbound) \in Nat /\ Pushed \in Nat /\ owed \in Nat
  OBVIOUS
<1>1. /\ written \in Seq(Units) /\ buffer \in Seq(Units) /\ outbound \in Seq(Units)
      /\ chunk \in Seq(Requests) /\ inbound \in Seq(Requests) /\ owed \in Nat
  BY DEF TypeOK
<1>2. /\ Len(written) \in Nat /\ Len(buffer) \in Nat /\ Len(outbound) \in Nat
      /\ Len(chunk) \in Nat /\ Len(inbound) \in Nat
  BY <1>1
<1> QED BY <1>1, <1>2 DEF Pushed

LEMMA InitIInv == Init => IInv
<1> SUFFICES ASSUME Init PROVE IInv
  OBVIOUS
<1>1. <<>> \in Seq(Requests) /\ <<>> \in Seq(Units) /\ Len(<<>>) = 0
  BY EmptySeq
<1>2. TypeOK
  <2>1. /\ 0 \in 0 .. MaxRequests /\ 0 <= Channel /\ 0 <= 1 /\ 0 \in Nat
        /\ {} \subseteq Requests
    BY PumpsAssumption
  <2>2. /\ closed \in BOOLEAN /\ notified \in BOOLEAN /\ last \in BOOLEAN /\ done \in BOOLEAN
    BY DEF Init
  <2>3. /\ inbound \in Seq(Requests) /\ Len(inbound) <= Channel
        /\ leftover \in Seq(Requests) /\ Len(leftover) <= 1
    BY <1>1, <2>1 DEF Init
  <2> QED BY <1>1, <2>1, <2>2, <2>3 DEF Init, TypeOK
<1>3. Tally /\ FinalDrainComplete
  BY <1>1 DEF Init, Tally, FinalDrainComplete
<1> QED BY <1>2, <1>3 DEF IInv

\* A step that only sets done.
LEMMA SetsDone ==
  ASSUME IInv, TypeOK', Len(chunk') <= 1, UNCHANGED <<last, buffer, written, outbound, stdout>>,
         DoneSet \/ UNCHANGED <<done, owed>>
  PROVE  IInv'
<1>1. Pushed' = Pushed /\ Pushed \in Nat /\ owed \in Nat
  BY Lengths DEF Pushed, IInv
<1>2. CASE DoneSet
  BY <1>1, <1>2 DEF IInv, Tally, FinalDrainComplete, DoneSet
<1>3. CASE UNCHANGED <<done, owed>>
  BY <1>1, <1>3 DEF IInv, Tally, FinalDrainComplete
<1> QED BY <1>2, <1>3

\* A step of the stdout pump that moves nothing.
LEMMA PumpGoes ==
  ASSUME IInv, NEW place, Goes(place), UNCHANGED <<buffer, outbound>>,
         stdout # "writing", stdout \notin StdoutEnds, place \notin {"writing", "drained"},
         place \in {"calling", "checking", "asleep", "draining", "deciding"},
         notified' \in BOOLEAN, last' \in BOOLEAN, last' => done
  PROVE  IInv'
<1> USE DEF Goes, clientVars, inVars, serviceVars, endVars, mainVars
<1>1. TypeOK'
  BY DEF IInv, TypeOK, StdoutEnds
<1>2. Pushed' = Pushed
  BY DEF Pushed
<1> QED BY <1>1, <1>2 DEF IInv, Tally, FinalDrainComplete, StdoutEnds

LEMMA StdoutFailed ==
  ASSUME IInv, StdoutFails
  PROVE  IInv'
<1> USE DEF clientVars, inVars, serviceVars, outVars, endVars, mainVars
<1>1. <<>> \in Seq(Units)
  BY EmptySeq
<1>2. Pushed \in Nat
  BY Lengths DEF IInv
<1>3. TypeOK'
  BY <1>1, <1>2 DEF IInv, TypeOK, StdoutFails, DoneSet, StdoutEnds
<1> QED BY <1>3 DEF IInv, Tally, FinalDrainComplete, StdoutFails, DoneSet

LEMMA StdinPreserves ==
  ASSUME IInv, StdinStep
  PROVE  IInv'
<1> USE DEF clientVars, serviceVars, outVars, stdoutVars, endVars, mainVars, inVars
<1>0. /\ TypeOK /\ <<>> \in Seq(Requests) /\ Len(<<>>) = 0 /\ Pushed \in Nat
      /\ Len(chunk) \in Nat /\ Len(chunk) <= 1
  BY Lengths, EmptySeq DEF IInv, Tally
<1>1. CASE StdinReads
  <2>1. /\ chunk' = <<Head(input)>> /\ input' = Tail(input)
        /\ Head(input) \in Requests /\ Tail(input) \in Seq(Requests)
    BY <1>0, <1>1, HeadTailProperties DEF StdinReads, TypeOK
  <2>2. chunk' \in Seq(Requests) /\ Len(chunk') = 1
    BY <2>1
  <2>3. TypeOK'
    BY <1>1, <2>1, <2>2 DEF StdinReads, IInv, TypeOK
  <2> QED BY <1>1, <2>2, <2>3, SetsDone DEF StdinReads
<1>2. ASSUME NEW how \in StdinEnds, StdinStops(how) PROVE IInv'
  <2>1. TypeOK'
    BY <1>0, <1>2 DEF StdinStops, TypeOK, DoneSet, StdinEnds
  <2> QED BY <1>0, <1>2, <2>1, SetsDone DEF StdinStops
<1>3. CASE FeedLooksUp
  <2>1. TypeOK'
    BY <1>0, <1>3 DEF FeedLooksUp, TypeOK
  <2> QED BY <1>0, <1>3, <2>1, SetsDone DEF FeedLooksUp
<1>4. CASE FeedSends
  <2>1. /\ inbound' = inbound \o chunk /\ inbound \in Seq(Requests) /\ chunk \in Seq(Requests)
        /\ Len(inbound) < Channel /\ Len(inbound) \in Nat /\ Channel \in Nat
    BY <1>0, <1>4, PumpsAssumption DEF FeedSends, TypeOK
  <2>2. inbound' \in Seq(Requests) /\ Len(inbound') = Len(inbound) + Len(chunk)
    BY <2>1, ConcatProperties
  <2>3. Len(inbound') <= Channel
    BY <1>0, <2>1, <2>2
  <2>4. TypeOK'
    BY <1>0, <1>4, <2>2, <2>3 DEF FeedSends, TypeOK
  <2> QED BY <1>0, <1>4, <2>4, SetsDone DEF FeedSends
<1> QED BY <1>1, <1>2, <1>3, <1>4 DEF StdinStep, StdinEof, FeedRefused, FeedCutOff, StdinEnds

LEMMA ServicePreserves ==
  ASSUME IInv, ServiceStep \/ ServiceFails \/ ServiceDropped \/ CallStep
  PROVE  IInv'
<1> USE DEF clientVars, outVars, stdoutVars, endVars, mainVars, inVars, serviceVars
<1>0. /\ TypeOK /\ <<>> \in Seq(Requests) /\ Len(<<>>) = 0 /\ Pushed \in Nat
      /\ Len(chunk) \in Nat /\ Len(chunk) <= 1
  BY Lengths, EmptySeq DEF IInv, Tally
<1>1. CASE StreamRefills
  <2>1. /\ leftover' = <<Head(inbound)>> /\ inbound' = Tail(inbound)
        /\ Head(inbound) \in Requests /\ Tail(inbound) \in Seq(Requests)
        /\ Len(Tail(inbound)) = Len(inbound) - 1
    BY <1>0, <1>1, HeadTailProperties DEF StreamRefills, TypeOK
  <2>2. leftover' \in Seq(Requests) /\ Len(leftover') = 1
    BY <2>1
  <2>3. Len(inbound') <= Channel
    BY <1>0, <2>1, PumpsAssumption, Lengths DEF TypeOK
  <2>4. TypeOK'
    BY <1>1, <2>1, <2>2, <2>3 DEF StreamRefills, IInv, TypeOK
  <2> QED BY <1>0, <1>1, <2>4, SetsDone DEF StreamRefills
<1>2. CASE ServiceAccepts
  <2>1. accepted \o leftover \in Seq(Requests) /\ Head(leftover) \in Requests
    BY <1>0, <1>2, HeadTailProperties, ConcatProperties DEF ServiceAccepts, TypeOK
  <2>2. TypeOK'
    BY <1>0, <1>2, <2>1 DEF ServiceAccepts, TypeOK
  <2> QED BY <1>0, <1>2, <2>2, SetsDone DEF ServiceAccepts
<1>3. ASSUME NEW how \in {"failed", "ended"}, ServiceStops(how) PROVE IInv'
  <2>1. /\ inbound' = <<>> /\ leftover' = <<>> /\ service' = how
        /\ UNCHANGED <<clientVars, inVars, accepted, running, outVars, stdoutVars, endVars, mainVars>>
    BY <1>3 DEF ServiceStops
  <2>2. 0 <= Channel /\ 0 <= 1
    BY PumpsAssumption
  <2>3. /\ inbound' \in Seq(Requests) /\ Len(inbound') <= Channel
        /\ leftover' \in Seq(Requests) /\ Len(leftover') <= 1
    BY <1>0, <2>1, <2>2
  <2>4. TypeOK'
    BY <1>0, <2>1, <2>3 DEF TypeOK
  <2> QED BY <1>0, <2>1, <2>4, SetsDone
<1>4. ASSUME NEW r \in running, AnswerLost(r) PROVE IInv'
  <2>1. TypeOK'
    BY <1>0, <1>4 DEF AnswerLost, TypeOK
  <2> QED BY <1>0, <1>4, <2>1, SetsDone DEF AnswerLost
<1>5. ASSUME NEW r \in running, Answers(r) PROVE IInv'
  <2>1. r \in Requests /\ outbound \in Seq(Units)
    BY <1>0 DEF TypeOK
  <2>2. Frame(r) \in Seq(Units) /\ Len(Frame(r)) = 2
    BY <2>1 DEF Frame, Units
  <2>3. /\ outbound' = outbound \o Frame(r)
        /\ notified' = (notified \/ stdout = "asleep")
    BY <1>5 DEF Answers, Push
  <2>4. outbound' \in Seq(Units) /\ Len(outbound') = Len(outbound) + 2
    <3> DEFINE f == Frame(r)
    <3>1. f \in Seq(Units) /\ Len(f) = 2 /\ outbound' = outbound \o f
      BY <2>2, <2>3
    <3> HIDE DEF f
    <3>2. outbound \o f \in Seq(Units) /\ Len(outbound \o f) = Len(outbound) + Len(f)
      BY <2>1, <3>1, ConcatProperties
    <3> QED BY <3>1, <3>2
  <2>5. TypeOK'
    <3>1. notified' \in BOOLEAN /\ running' \subseteq Requests
      BY <1>0, <1>5, <2>3 DEF Answers, TypeOK
    <3> QED BY <1>0, <1>5, <2>4, <3>1 DEF Answers, TypeOK
  <2>6. Pushed <= Pushed' /\ Pushed' \in Nat /\ owed \in Nat
    BY <1>0, <1>5, <2>4, Lengths DEF Answers, Pushed
  <2> QED BY <1>0, <1>5, <2>5, <2>6 DEF Answers, IInv, Tally, FinalDrainComplete
<1> QED BY <1>1, <1>2, <1>3, <1>4, <1>5
        DEF ServiceStep, ServiceFails, ServiceDropped, CallStep

LEMMA StdoutPreserves ==
  ASSUME IInv, StdoutStep \/ WaitTimesOut \/ WriteFails
  PROVE  IInv'
<1> USE DEF clientVars, outVars, stdoutVars, endVars, mainVars, inVars, serviceVars
<1>0. /\ TypeOK /\ <<>> \in Seq(Units) /\ Len(<<>>) = 0 /\ Pushed \in Nat /\ owed \in Nat
      /\ Len(written) \in Nat /\ Len(buffer) \in Nat /\ Len(outbound) \in Nat
      /\ last \in BOOLEAN /\ notified \in BOOLEAN /\ (last => done)
  BY Lengths, EmptySeq DEF IInv, Tally, TypeOK
<1>1. CASE WaitLooksUp
  BY <1>0, <1>1, PumpGoes DEF WaitLooksUp, StdoutEnds
<1>2. CASE StdoutRefused \/ WriteFails
  BY <1>2, StdoutFailed DEF StdoutRefused, WriteFails
<1>3. CASE WaitChecks
  BY <1>0, <1>3, PumpGoes DEF WaitChecks, StdoutEnds
<1>4. CASE WaitWoken
  BY <1>0, <1>4, PumpGoes DEF WaitWoken, StdoutEnds
<1>5. CASE WaitTimesOut
  BY <1>0, <1>5, PumpGoes DEF WaitTimesOut, StdoutEnds
<1>6. CASE DrainTakes
  <2> DEFINE n == IF Len(outbound) < Drain THEN Len(outbound) ELSE Drain
  <2>1. outbound \in Seq(Units) /\ n \in 0 .. Len(outbound)
    BY <1>0, PumpsAssumption DEF TypeOK
  <2>2. buffer' = SubSeq(outbound, 1, n) /\ outbound' = SubSeq(outbound, n + 1, Len(outbound))
    BY <1>6 DEF DrainTakes
  <2>3. /\ stdout = "draining" /\ stdout' = "writing"
        /\ UNCHANGED <<clientVars, inVars, serviceVars, written, endVars, mainVars, notified, last>>
    BY <1>6 DEF DrainTakes, Goes
  <2> HIDE DEF n
  <2>4. /\ buffer' \in Seq(Units) /\ outbound' \in Seq(Units)
        /\ Len(buffer') = n /\ Len(outbound') = Len(outbound) - n
    <3>1. \A i \in 1 .. Len(outbound) : outbound[i] \in Units
      BY <2>1, ElementOfSeq
    <3>2. 1 \in Int /\ n \in Int /\ n + 1 \in Int /\ Len(outbound) \in Int
      BY <1>0, <2>1
    <3>3. \A i \in 1 .. n : outbound[i] \in Units
      BY <1>0, <2>1, <3>1
    <3>4. \A i \in n + 1 .. Len(outbound) : outbound[i] \in Units
      BY <1>0, <2>1, <3>1
    <3>5. /\ SubSeq(outbound, 1, n) \in Seq(Units)
          /\ Len(SubSeq(outbound, 1, n)) = n
      BY <2>1, <3>2, <3>3, SubSeqProperties
    <3>6. /\ SubSeq(outbound, n + 1, Len(outbound)) \in Seq(Units)
          /\ Len(SubSeq(outbound, n + 1, Len(outbound))) = Len(outbound) - n
      BY <1>0, <2>1, <3>2, <3>4, SubSeqProperties
    <3> QED BY <2>2, <3>5, <3>6
  <2>5. buffer = <<>>
    BY <2>3 DEF IInv, Tally
  <2>6. Pushed' = Pushed
    BY <1>0, <2>1, <2>3, <2>4, <2>5 DEF Pushed
  <2>7. TypeOK'
    BY <1>0, <2>3, <2>4 DEF TypeOK, StdoutEnds
  <2> QED BY <1>0, <2>3, <2>6, <2>7 DEF IInv, Tally, FinalDrainComplete
<1>7. CASE DrainEmpty
  <2>1. /\ stdout = "draining" /\ outbound = <<>> /\ buffer = <<>>
        /\ UNCHANGED <<clientVars, inVars, serviceVars, outVars, last, buffer, written, mainVars>>
    BY <1>7 DEF DrainEmpty, IInv, Tally
  <2>2. Pushed = Len(written) /\ Pushed' = Pushed
    BY <1>0, <2>1 DEF Pushed
  <2>3. CASE last
    <3>1. done /\ owed <= Pushed
      BY <1>0, <2>1, <2>3 DEF IInv, Tally
    <3>2. stdout' = "drained" /\ done' /\ owed' = owed /\ done' \in BOOLEAN
      BY <1>7, <2>3, <3>1 DEF DrainEmpty, DoneSet
    <3>3. TypeOK'
      BY <1>0, <2>1, <3>2 DEF TypeOK, StdoutEnds
    <3> QED BY <1>0, <2>1, <2>2, <3>1, <3>2, <3>3 DEF IInv, Tally, FinalDrainComplete
  <2>4. CASE ~last
    <3>1. stdout' = "deciding" /\ UNCHANGED endVars
      BY <1>7, <2>4 DEF DrainEmpty
    <3>2. TypeOK'
      BY <1>0, <2>1, <3>1 DEF TypeOK
    <3> QED BY <1>0, <2>1, <2>2, <3>1, <3>2 DEF IInv, Tally, FinalDrainComplete
  <2> QED BY <2>3, <2>4
<1>8. CASE Writes
  <2>1. /\ stdout = "writing" /\ stdout' = "draining"
        /\ written' = written \o buffer /\ buffer' = <<>>
        /\ UNCHANGED <<clientVars, inVars, serviceVars, outVars, last, endVars, mainVars>>
    BY <1>8 DEF Writes
  <2>2. written' \in Seq(Units) /\ Len(written') = Len(written) + Len(buffer)
    BY <1>0, <2>1, ConcatProperties DEF TypeOK
  <2>3. Pushed' = Pushed
    BY <1>0, <2>1, <2>2 DEF Pushed
  <2>4. TypeOK'
    BY <1>0, <2>1, <2>2 DEF TypeOK
  <2> QED BY <1>0, <2>1, <2>3, <2>4 DEF IInv, Tally, FinalDrainComplete
<1>9. CASE Decides
  <2>1. CASE done
    BY <1>0, <1>9, <2>1, PumpGoes DEF Decides, StdoutEnds
  <2>2. CASE ~done
    BY <1>0, <1>9, <2>2, PumpGoes DEF Decides, StdoutEnds
  <2> QED BY <2>1, <2>2
<1> QED BY <1>1, <1>2, <1>3, <1>4, <1>5, <1>6, <1>7, <1>8, <1>9 DEF StdoutStep

LEMMA OthersPreserve ==
  ASSUME IInv, ClientSends \/ ClientCloses \/ CancelKeyPress \/ MainStep \/ Expires
  PROVE  IInv'
<1> USE DEF clientVars, outVars, stdoutVars, endVars, mainVars, inVars, serviceVars
<1>0. TypeOK /\ Len(chunk) <= 1 /\ Pushed \in Nat
  BY Lengths DEF IInv, Tally
<1>1. CASE ClientSends
  <2>1. sent' \in Requests /\ sent' \in 0 .. MaxRequests
    BY <1>0, <1>1, PumpsAssumption DEF ClientSends, TypeOK, Requests
  <2>2. input' \in Seq(Requests)
    BY <1>0, <1>1, <2>1, AppendProperties DEF ClientSends, TypeOK
  <2>3. TypeOK'
    BY <1>0, <1>1, <2>1, <2>2 DEF ClientSends, TypeOK
  <2> QED BY <1>0, <1>1, <2>3, SetsDone DEF ClientSends
<1>2. CASE ClientCloses
  <2>1. TypeOK'
    BY <1>0, <1>2 DEF ClientCloses, TypeOK
  <2> QED BY <1>0, <1>2, <2>1, SetsDone DEF ClientCloses
<1>3. CASE CancelKeyPress
  <2>1. TypeOK'
    BY <1>0, <1>3 DEF CancelKeyPress, DoneSet, TypeOK
  <2> QED BY <1>0, <1>3, <2>1, SetsDone DEF CancelKeyPress
<1>4. CASE MainStep \/ Expires
  <2>1. /\ session' \in {"running", "stopping", "removed"}
        /\ main' \in {"waiting", "joining", "stopping", "grace", "exited"}
        /\ UNCHANGED <<clientVars, inVars, serviceVars, outVars, stdoutVars, endVars>>
    BY <1>0, <1>4 DEF MainStep, Expires, MainWakes, MainJoined, JoinExpires, StopFlags,
                      StopRemoves, GraceMet, GraceExpires, MainGoes, TypeOK
  <2>2. TypeOK'
    BY <1>0, <2>1 DEF TypeOK
  <2> QED BY <1>0, <2>1, <2>2, SetsDone
<1> QED BY <1>1, <1>2, <1>3, <1>4

LEMMA StepPreserves == IInv /\ [Next]_vars => IInv'
<1>1. ASSUME IInv, Next PROVE IInv'
  BY <1>1, StdinPreserves, ServicePreserves, StdoutPreserves, OthersPreserve DEF Next
<1>2. ASSUME IInv, UNCHANGED vars PROVE IInv'
  <2>1. TypeOK' /\ Len(chunk') <= 1
    BY <1>2 DEF vars, IInv, TypeOK, Tally
  <2> QED BY <1>2, <2>1, SetsDone DEF vars
<1> QED BY <1>1, <1>2

\* However the threads, the service and the client interleave, the invariant
\* holds.
THEOREM Invariance == Spec => []IInv
BY InitIInv, StepPreserves, PTL DEF Spec

\* The pumps' state is well typed; the inbound channel never exceeds its
\* capacity, so a client that floods the server is slowed down, not buffered.
THEOREM TypeCorrect == Spec => []TypeOK
<1>1. IInv => TypeOK BY DEF IInv
<1> QED BY Invariance, <1>1, PTL

\* A stdout pump that ends normally has written every unit that was pushed
\* before done was set.
THEOREM DrainsWhatItOwes == Spec => []FinalDrainComplete
<1>1. IInv => FinalDrainComplete BY DEF IInv
<1> QED BY Invariance, <1>1, PTL

------------------------------------------------------------------------------
(* No wakeup is lost, and the main thread never stands still or goes back:  *)
(* what OutputLeaves and SessionEnds add to these is fairness.              *)

\* A notification waits only for a sleeping pump, and a pump never sleeps over
\* a queue with something in it without one.
WakeupPending ==
  /\ notified => stdout = "asleep"
  /\ stdout = "asleep" /\ outbound # <<>> => notified

\* The main thread leaves its wait because done is set, and the session leaves
\* the registry between Stop's flag and the runtime's grace.
MainOrder ==
  /\ main # "waiting" => done
  /\ session = "removed" <=> main \in {"grace", "exited"}
  /\ session = "stopping" => main = "stopping"

LEMMA WakeupStep == TypeOK /\ WakeupPending /\ [Next]_vars => WakeupPending'
<1> SUFFICES ASSUME TypeOK, WakeupPending, [Next]_vars PROVE WakeupPending'
  OBVIOUS
<1> USE DEF clientVars, outVars, stdoutVars, endVars, mainVars, inVars, serviceVars
<1>1. CASE UNCHANGED <<stdout, outbound, notified>>
  BY <1>1 DEF WakeupPending
<1>2. ASSUME NEW r \in running, Answers(r) PROVE WakeupPending'
  BY <1>2 DEF Answers, Push, WakeupPending
<1>3. CASE StdoutFails /\ stdout \in {"calling", "draining", "writing"}
  BY <1>3 DEF StdoutFails, WakeupPending
<1>4. CASE WaitLooksUp
  BY <1>4 DEF WaitLooksUp, Goes, WakeupPending
<1>5. CASE WaitChecks
  BY <1>5 DEF WaitChecks, Goes, WakeupPending
<1>6. CASE WaitWoken \/ WaitTimesOut
  BY <1>6 DEF WaitWoken, WaitTimesOut, Goes, WakeupPending
<1>7. CASE DrainTakes \/ DrainEmpty
  BY <1>7 DEF DrainTakes, DrainEmpty, Goes, WakeupPending
<1>8. CASE Writes \/ Decides
  BY <1>8 DEF Writes, Decides, Goes, WakeupPending
<1>9. CASE ClientSends \/ ClientCloses \/ CancelKeyPress \/ UNCHANGED vars
  BY <1>1, <1>9 DEF ClientSends, ClientCloses, CancelKeyPress, vars
<1>10. CASE StdinStep
  BY <1>1, <1>10 DEF StdinStep, StdinReads, StdinEof, FeedLooksUp, FeedRefused, FeedSends,
                     FeedCutOff, StdinStops
<1>11. CASE ServiceStep \/ ServiceFails \/ ServiceDropped
  BY <1>1, <1>11 DEF ServiceStep, StreamRefills, ServiceAccepts, ServiceFails,
                     ServiceDropped, ServiceStops
<1>12. ASSUME NEW r \in running, AnswerLost(r) PROVE WakeupPending'
  BY <1>1, <1>12 DEF AnswerLost
<1>13. CASE MainStep \/ Expires
  BY <1>1, <1>13 DEF MainStep, Expires, MainWakes, MainJoined, JoinExpires, StopFlags,
                     StopRemoves, GraceMet, GraceExpires, MainGoes
<1> QED BY <1>2, <1>3, <1>4, <1>5, <1>6, <1>7, <1>8, <1>9, <1>10, <1>11, <1>12, <1>13
        DEF Next, CallStep, StdoutStep, StdoutRefused, WriteFails

LEMMA MainOrderStep == MainOrder /\ [Next]_vars => MainOrder'
<1> SUFFICES ASSUME MainOrder, [Next]_vars PROVE MainOrder'
  OBVIOUS
<1> USE DEF clientVars, outVars, stdoutVars, endVars, mainVars, inVars, serviceVars
<1>1. CASE UNCHANGED mainVars /\ (done => done')
  BY <1>1 DEF MainOrder
<1>2. CASE MainStep \/ Expires
  BY <1>2 DEF MainStep, Expires, MainWakes, MainJoined, JoinExpires, StopFlags,
              StopRemoves, GraceMet, GraceExpires, MainGoes, MainOrder
<1>3. CASE ClientSends \/ ClientCloses \/ CancelKeyPress \/ UNCHANGED vars
  BY <1>1, <1>3 DEF ClientSends, ClientCloses, CancelKeyPress, DoneSet, vars
<1>4. CASE StdinStep
  BY <1>1, <1>4 DEF StdinStep, StdinReads, StdinEof, FeedLooksUp, FeedRefused, FeedSends,
                    FeedCutOff, StdinStops, DoneSet
<1>5. CASE ServiceStep \/ ServiceFails \/ ServiceDropped \/ CallStep
  BY <1>1, <1>5 DEF ServiceStep, StreamRefills, ServiceAccepts, ServiceFails,
                    ServiceDropped, ServiceStops, CallStep, Answers, AnswerLost
<1>6. CASE StdoutStep \/ WaitTimesOut \/ WriteFails
  BY <1>1, <1>6 DEF StdoutStep, WaitLooksUp, StdoutRefused, WaitChecks, WaitWoken, DrainTakes,
                    DrainEmpty, Writes, Decides, WaitTimesOut, WriteFails, StdoutFails, Goes,
                    DoneSet
<1> QED BY <1>2, <1>3, <1>4, <1>5, <1>6 DEF Next

\* Outbound never loses a wakeup: at every moment in which the pump sleeps and
\* something is queued, a notification is on its way to it, and one that was
\* sent is never left behind for a pump that does not sleep.
THEOREM NoLostWakeup == Spec => []WakeupPending
<1>1. Init => WakeupPending
  BY DEF Init, WakeupPending
<1> QED BY <1>1, WakeupStep, TypeCorrect, PTL DEF Spec

\* How far the main thread has to go.
Remaining ==
  CASE main = "waiting" -> 5
    [] main = "joining" -> 4
    [] main = "stopping" -> IF session = "running" THEN 3 ELSE 2
    [] main = "grace" -> 1
    [] main = "exited" -> 0

\* Once done is set the main thread always has a step of its own to take, or a
\* time-out to wait for, that depends on no other thread.
MainCanMove ==
  done /\ main # "exited" =>
    \/ main = "waiting" \/ main = "joining" \/ main = "grace"
    \/ main = "stopping" /\ session \in {"running", "stopping"}

\* The shutdown needs no thread but the main one: Run's order of wait, join,
\* stop and grace leaves no state it cannot go on from.
THEOREM ShutdownNeverStuck == Spec => [](MainOrder /\ MainCanMove)
<1>1. Init => MainOrder
  BY DEF Init, MainOrder
<1>2. TypeOK /\ MainOrder => MainCanMove
  BY DEF TypeOK, MainOrder, MainCanMove
<1> QED BY <1>1, <1>2, MainOrderStep, TypeCorrect, PTL DEF Spec

\* Every step of the main thread, and every time-out it waits for, brings it
\* nearer to its end, and no step of any other thread takes it back: after done
\* at most five steps of it remain.
THEOREM ShutdownAdvances ==
  Spec => [][/\ Remaining' \in 0 .. Remaining
             /\ MainStep \/ Expires => Remaining' < Remaining]_vars
<1>1. TypeOK /\ [Next]_vars => [/\ Remaining' \in 0 .. Remaining
                                /\ MainStep \/ Expires => Remaining' < Remaining]_vars
  <2> SUFFICES ASSUME TypeOK, Next
               PROVE  /\ Remaining' \in 0 .. Remaining
                      /\ MainStep \/ Expires => Remaining' < Remaining
    OBVIOUS
  <2> USE DEF clientVars, outVars, stdoutVars, endVars, mainVars, inVars, serviceVars
  <2>1. Remaining \in 0 .. 5
    BY DEF Remaining, TypeOK
  <2>2. CASE MainStep \/ Expires
    <3>1. Remaining' < Remaining /\ Remaining' \in Nat
      BY <2>2 DEF MainStep, Expires, MainWakes, MainJoined, JoinExpires, StopFlags,
                  StopRemoves, GraceMet, GraceExpires, MainGoes, Remaining
    <3> QED BY <2>1, <3>1
  <2>3. CASE UNCHANGED mainVars /\ ~(MainStep \/ Expires)
    <3>1. Remaining' = Remaining
      BY <2>3 DEF Remaining
    <3> QED BY <2>1, <2>3, <3>1
  <2>4. MainStep \/ Expires \/ UNCHANGED mainVars
    BY DEF Next, ClientSends, ClientCloses, CancelKeyPress, StdinStep, StdinReads, StdinEof,
           FeedLooksUp, FeedRefused, FeedSends, FeedCutOff, StdinStops, ServiceStep,
           StreamRefills, ServiceAccepts, ServiceFails, ServiceDropped, ServiceStops, CallStep,
           Answers, AnswerLost, StdoutStep, WaitLooksUp, StdoutRefused, WaitChecks, WaitWoken,
           DrainTakes, DrainEmpty, Writes, Decides, WaitTimesOut, WriteFails, StdoutFails, Goes
  <2> QED BY <2>2, <2>3, <2>4
<1> QED BY <1>1, TypeCorrect, PTL DEF Spec
==============================================================================
