------------------------------ MODULE McpPumps ------------------------------
(***************************************************************************)
(* The byte pumps of the MCP server: the two pump threads and the main     *)
(* thread of McpServerSession (C#), the native session with its registry,  *)
(* inbound channel and outbound queue (rttsh-mcp, Rust), and the rmcp      *)
(* service between the two.                                                *)
(*                                                                         *)
(* A chunk of input carries one request; an answer is a frame of two       *)
(* units, pushed whole, which a drain may cut anywhere.  What a request    *)
(* does is McpHost's subject: here a call runs, for ever if it likes, and  *)
(* is answered.  The service is rmcp's: it reads when it likes, runs calls *)
(* side by side, and may end by itself on a protocol error or a panic.     *)
(***************************************************************************)
EXTENDS Naturals, Sequences, FiniteSets

CONSTANTS
  MaxRequests,  \* bound: requests the client sends
  Channel,      \* capacity of the inbound channel (64)
  Drain         \* units one drain copies at most (ChunkBytes)

ASSUME PumpsAssumption ==
  /\ MaxRequests \in Nat
  /\ Channel \in Nat \ {0}
  /\ Drain \in Nat \ {0}

VARIABLES
  sent,      \* requests the client has written
  closed,    \* the client has closed its end of stdin
  input,     \* written and not yet read
  stdin,     \* the stdin pump
  chunk,     \* its buffer: what it read and has not handed on
  inbound,   \* the channel behind inbound_tx
  service,   \* the task that serves, and with it the channel's receiver
  leftover,  \* InboundStream.leftover
  accepted,  \* history: the requests in the order the service took them
  running,   \* tool calls on the blocking threads
  outbound,  \* Outbound.queue
  notified,  \* Outbound.signal has woken the waiter
  stdout,    \* the stdout pump
  last,      \* it is in its final DrainToEmpty
  buffer,    \* its buffer
  written,   \* what the client has received
  done,      \* done is set
  owed,      \* history: units pushed by the time done was set
  session,   \* the native session: running, _stopped is set, gone from the registry
  main       \* the main thread in McpServerSession.Run

clientVars  == <<sent, closed>>
inVars      == <<input, stdin, chunk>>
serviceVars == <<inbound, service, leftover, accepted, running>>
outVars     == <<outbound, notified>>
stdoutVars  == <<stdout, last, buffer, written>>
endVars     == <<done, owed>>
mainVars    == <<session, main>>
vars == <<sent, closed, input, stdin, chunk, inbound, service, leftover, accepted, running,
          outbound, notified, stdout, last, buffer, written, done, owed, session, main>>

Requests == 1 .. MaxRequests
Units == Requests \X {1, 2}
Frame(r) == <<<<r, 1>>, <<r, 2>>>>

StdinEnds  == {"closed", "failed"}
StdoutEnds == {"drained", "failed"}

TypeOK ==
  /\ sent \in 0 .. MaxRequests /\ closed \in BOOLEAN
  /\ input \in Seq(Requests) /\ chunk \in Seq(Requests)
  /\ stdin \in {"reading", "feeding", "sending"} \union StdinEnds
  /\ inbound \in Seq(Requests) /\ Len(inbound) <= Channel
  /\ leftover \in Seq(Requests) /\ Len(leftover) <= 1
  /\ accepted \in Seq(Requests) /\ running \subseteq Requests
  /\ service \in {"serving", "failed", "ended"}
  /\ outbound \in Seq(Units) /\ notified \in BOOLEAN
  /\ stdout \in {"calling", "checking", "asleep", "draining", "writing", "deciding"} \union StdoutEnds
  /\ last \in BOOLEAN /\ buffer \in Seq(Units) /\ written \in Seq(Units)
  /\ done \in BOOLEAN /\ owed \in Nat
  /\ session \in {"running", "stopping", "removed"}
  /\ main \in {"waiting", "joining", "stopping", "grace", "exited"}

Init ==
  /\ sent = 0 /\ closed = FALSE
  /\ input = <<>> /\ stdin = "reading" /\ chunk = <<>>
  /\ inbound = <<>> /\ service = "serving" /\ leftover = <<>>
  /\ accepted = <<>> /\ running = {}
  /\ outbound = <<>> /\ notified = FALSE
  /\ stdout = "calling" /\ last = FALSE /\ buffer = <<>> /\ written = <<>>
  /\ done = FALSE /\ owed = 0
  /\ session = "running" /\ main = "waiting"

------------------------------------------------------------------------------
(* The client and the console.                                             *)

\* The process ends with the main thread: the pumps are background threads.
Alive == main # "exited"

\* done.Set, by whoever comes first.
Pushed == Len(written) + Len(buffer) + Len(outbound)
DoneSet ==
  /\ done' = TRUE
  /\ owed' = IF done THEN owed ELSE Pushed

ClientSends ==
  /\ Alive
  /\ ~closed /\ sent < MaxRequests
  /\ sent' = sent + 1
  /\ input' = Append(input, sent')
  /\ UNCHANGED <<closed, stdin, chunk, serviceVars, outVars, stdoutVars, endVars, mainVars>>

ClientCloses ==
  /\ Alive
  /\ ~closed
  /\ closed' = TRUE
  /\ UNCHANGED <<sent, inVars, serviceVars, outVars, stdoutVars, endVars, mainVars>>

CancelKeyPress ==
  /\ Alive
  /\ ~done
  /\ DoneSet
  /\ UNCHANGED <<clientVars, inVars, serviceVars, outVars, stdoutVars, mainVars>>

------------------------------------------------------------------------------
(* The stdin pump.                                                         *)

StdinReads ==
  /\ Alive
  /\ stdin = "reading" /\ input # <<>>
  /\ chunk' = <<Head(input)>>
  /\ input' = Tail(input)
  /\ stdin' = "feeding"
  /\ UNCHANGED <<clientVars, serviceVars, outVars, stdoutVars, endVars, mainVars>>

\* End of input, or an exception out of Feed: the finally block.
StdinStops(how) ==
  /\ Alive
  /\ stdin' = how
  /\ chunk' = <<>>
  /\ DoneSet
  /\ UNCHANGED <<clientVars, input, serviceVars, outVars, stdoutVars, mainVars>>

StdinEof ==
  /\ stdin = "reading" /\ input = <<>> /\ closed
  /\ StdinStops("closed")

\* Feed passes EnsureRunning and finds the session: it now has its own sender.
FeedLooksUp ==
  /\ Alive
  /\ stdin = "feeding"
  /\ session # "removed"
  /\ stdin' = "sending"
  /\ UNCHANGED <<clientVars, input, chunk, serviceVars, outVars, stdoutVars, endVars, mainVars>>

FeedRefused ==
  /\ stdin = "feeding"
  /\ session # "running"
  /\ StdinStops("failed")

\* Slip: the channel has no capacity to wait for.
FeedSendsUnbounded ==
  /\ Alive
  /\ stdin = "sending" /\ service = "serving"
  /\ inbound' = inbound \o chunk
  /\ chunk' = <<>>
  /\ stdin' = "reading"
  /\ UNCHANGED <<clientVars, input, service, leftover, accepted, running, outVars,
                 stdoutVars, endVars, mainVars>>

\* blocking_send: waits for room, and ends when the receiver is dropped.
FeedSends ==
  /\ Alive
  /\ stdin = "sending"
  /\ service = "serving" /\ Len(inbound) < Channel
  /\ inbound' = inbound \o chunk
  /\ chunk' = <<>>
  /\ stdin' = "reading"
  /\ UNCHANGED <<clientVars, input, service, leftover, accepted, running, outVars,
                 stdoutVars, endVars, mainVars>>

FeedCutOff ==
  /\ stdin = "sending"
  /\ service # "serving"
  /\ StdinStops("failed")

StdinStep ==
  StdinReads \/ StdinEof \/ FeedLooksUp \/ FeedRefused \/ FeedSends \/ FeedCutOff

------------------------------------------------------------------------------
(* The service and its calls.                                              *)

\* InboundStream takes the next chunk.
StreamRefills ==
  /\ Alive
  /\ service = "serving"
  /\ leftover = <<>> /\ inbound # <<>>
  /\ leftover' = <<Head(inbound)>>
  /\ inbound' = Tail(inbound)
  /\ UNCHANGED <<clientVars, inVars, service, accepted, running, outVars, stdoutVars,
                 endVars, mainVars>>

ServiceAccepts ==
  /\ Alive
  /\ service = "serving"
  /\ leftover # <<>>
  /\ accepted' = accepted \o leftover
  /\ running' = running \union {Head(leftover)}
  /\ leftover' = <<>>
  /\ UNCHANGED <<clientVars, inVars, inbound, service, outVars, stdoutVars, endVars, mainVars>>

\* The stdout pump holds the queue's mutex only while it checks.
QueueFree == stdout # "checking"

\* Slip: nobody is notified.
PushNotifiesNobody(f) ==
  /\ QueueFree
  /\ outbound' = outbound \o f
  /\ UNCHANGED notified

Push(f) ==
  /\ QueueFree
  /\ outbound' = outbound \o f
  /\ notified' = (notified \/ stdout = "asleep")

\* A call returns, and the service writes its answer.
Answers(r) ==
  /\ Alive
  /\ r \in running
  /\ service = "serving"
  /\ running' = running \ {r}
  /\ Push(Frame(r))
  /\ UNCHANGED <<clientVars, inVars, inbound, service, leftover, accepted, stdoutVars,
                 endVars, mainVars>>

\* A call returns to a service that is gone.
AnswerLost(r) ==
  /\ Alive
  /\ r \in running
  /\ service # "serving"
  /\ running' = running \ {r}
  /\ UNCHANGED <<clientVars, inVars, inbound, service, leftover, accepted, outVars,
                 stdoutVars, endVars, mainVars>>

\* The receiver goes with the service, and what is in the channel with it.
ServiceStops(how) ==
  /\ Alive
  /\ service = "serving"
  /\ service' = how
  /\ inbound' = <<>> /\ leftover' = <<>>
  /\ UNCHANGED <<clientVars, inVars, accepted, running, outVars, stdoutVars, endVars, mainVars>>

ServiceFails == session = "running" /\ ServiceStops("failed")

\* stop has dropped the sender and shuts the runtime down: the service sees the
\* end of its input, if no Feed still has a sender, or is dropped at an await.
ServiceDropped == session = "removed" /\ ServiceStops("ended")

CallStep == \E r \in running : Answers(r) \/ AnswerLost(r)
ServiceStep == StreamRefills \/ ServiceAccepts

------------------------------------------------------------------------------
(* The stdout pump.                                                        *)

Goes(place) ==
  /\ Alive
  /\ stdout' = place
  /\ UNCHANGED <<clientVars, inVars, serviceVars, written, endVars, mainVars>>

\* An exception out of Wait, Drain or Write: the finally block.
StdoutFails ==
  /\ Alive
  /\ stdout' = "failed"
  /\ buffer' = <<>>
  /\ DoneSet
  /\ UNCHANGED <<clientVars, inVars, serviceVars, outVars, last, written, mainVars>>

\* Wait passes EnsureRunning, finds the session and takes the queue's mutex.
WaitLooksUp ==
  /\ stdout = "calling"
  /\ session # "removed"
  /\ Goes("checking")
  /\ UNCHANGED <<outVars, last, buffer>>

\* Wait or Drain after the session was stopped.
StdoutRefused ==
  /\ stdout \in {"calling", "draining"}
  /\ session # "running"
  /\ StdoutFails

\* wait_timeout gives the mutex up and sleeps in one step.
WaitChecks ==
  /\ stdout = "checking"
  /\ Goes(IF outbound = <<>> THEN "asleep" ELSE "draining")
  /\ UNCHANGED <<outVars, last, buffer>>

WaitWoken ==
  /\ stdout = "asleep" /\ notified
  /\ notified' = FALSE
  /\ Goes("checking")
  /\ UNCHANGED <<outbound, last, buffer>>

\* The 100 ms are over: the queue is looked at once more.
WaitTimesOut ==
  /\ stdout = "asleep"
  /\ notified' = FALSE
  /\ Goes(IF outbound = <<>> THEN "deciding" ELSE "draining")
  /\ UNCHANGED <<outbound, last, buffer>>

\* Slip: what did not fit into the buffer is dropped from the queue as well.
DrainTakesForgets ==
  /\ stdout = "draining" /\ session # "removed" /\ outbound # <<>>
  /\ buffer' = SubSeq(outbound, 1, IF Len(outbound) < Drain THEN Len(outbound) ELSE Drain)
  /\ outbound' = <<>>
  /\ Goes("writing")
  /\ UNCHANGED <<notified, last>>

\* DrainToEmpty: copy what fits and write it, until there is nothing left.
DrainTakes ==
  /\ stdout = "draining"
  /\ session # "removed"
  /\ outbound # <<>>
  /\ LET n == IF Len(outbound) < Drain THEN Len(outbound) ELSE Drain IN
       /\ buffer' = SubSeq(outbound, 1, n)
       /\ outbound' = SubSeq(outbound, n + 1, Len(outbound))
  /\ Goes("writing")
  /\ UNCHANGED <<notified, last>>

DrainEmpty ==
  /\ Alive
  /\ stdout = "draining"
  /\ session # "removed"
  /\ outbound = <<>>
  /\ stdout' = IF last THEN "drained" ELSE "deciding"
  /\ IF last THEN DoneSet ELSE UNCHANGED endVars
  /\ UNCHANGED <<clientVars, inVars, serviceVars, outVars, last, buffer, written, mainVars>>

\* output.Write returns when the client has room for it.
Writes ==
  /\ Alive
  /\ stdout = "writing"
  /\ written' = written \o buffer
  /\ buffer' = <<>>
  /\ stdout' = "draining"
  /\ UNCHANGED <<clientVars, inVars, serviceVars, outVars, last, endVars, mainVars>>

\* The client has closed its end.
WriteFails ==
  /\ stdout = "writing"
  /\ StdoutFails

\* Slip: done ends the pump without a final drain.
DecidesAtOnce ==
  /\ stdout = "deciding"
  /\ IF done THEN Goes("drained") /\ last' = TRUE ELSE Goes("calling") /\ UNCHANGED last
  /\ UNCHANGED <<outVars, buffer>>

Decides ==
  /\ stdout = "deciding"
  /\ IF done THEN Goes("draining") /\ last' = TRUE ELSE Goes("calling") /\ UNCHANGED last
  /\ UNCHANGED <<outVars, buffer>>

StdoutStep ==
  WaitLooksUp \/ StdoutRefused \/ WaitChecks \/ WaitWoken \/ DrainTakes \/ DrainEmpty
    \/ Writes \/ Decides

------------------------------------------------------------------------------
(* The main thread.                                                        *)

MainGoes(from, to) ==
  /\ main = from
  /\ main' = to
  /\ UNCHANGED <<clientVars, inVars, serviceVars, outVars, stdoutVars, endVars>>

MainWakes == done /\ MainGoes("waiting", "joining") /\ UNCHANGED session

\* Join(1 s): the stdout pump has ended, or has not.
MainJoined == stdout \in StdoutEnds /\ MainGoes("joining", "stopping") /\ UNCHANGED session
JoinExpires == MainGoes("joining", "stopping") /\ UNCHANGED session

\* McpNativeSession.Stop sets its flag, then the native stop takes the session
\* out of the registry and drops the sender.
StopFlags ==
  /\ main = "stopping" /\ session = "running"
  /\ session' = "stopping"
  /\ UNCHANGED <<clientVars, inVars, serviceVars, outVars, stdoutVars, endVars, main>>

\* Slip: Feed keeps the registry locked while it waits for room.
StopRemovesAfterFeed ==
  /\ session = "stopping"
  /\ stdin # "sending"
  /\ session' = "removed"
  /\ MainGoes("stopping", "grace")

StopRemoves ==
  /\ session = "stopping"
  /\ session' = "removed"
  /\ MainGoes("stopping", "grace")

\* shutdown_timeout: everything in the runtime has ended, or two seconds have.
GraceMet ==
  /\ service # "serving" /\ running = {}
  /\ MainGoes("grace", "exited") /\ UNCHANGED session
GraceExpires == MainGoes("grace", "exited") /\ UNCHANGED session

MainStep == MainWakes \/ MainJoined \/ StopFlags \/ StopRemoves \/ GraceMet

Expires == JoinExpires \/ GraceExpires

------------------------------------------------------------------------------
Next ==
  \/ ClientSends \/ ClientCloses \/ CancelKeyPress
  \/ StdinStep \/ ServiceStep \/ ServiceFails \/ ServiceDropped \/ CallStep
  \/ StdoutStep \/ WaitTimesOut \/ WriteFails
  \/ MainStep \/ Expires

Spec == Init /\ [][Next]_vars

(***************************************************************************)
(* Fairness.  The three threads keep running, and the client keeps reading *)
(* what is written to it.  Nothing is assumed of the service, the calls    *)
(* and the clock except where a property says so.                          *)
(***************************************************************************)
FairSpec == Spec /\ WF_vars(StdinStep) /\ WF_vars(StdoutStep) /\ WF_vars(MainStep)

TimePasses == WF_vars(Expires) /\ WF_vars(WaitTimesOut)

------------------------------------------------------------------------------
(* Safety.                                                                 *)

\* Requests reach the service in the order the client wrote them, each once.
Requested == INSTANCE BytePipe WITH
  Frames    <- {<<r>> : r \in Requests},
  transit   <- leftover \o inbound \o (IF stdin \in StdinEnds \/ service # "serving" THEN <<>> ELSE chunk \o input),
  delivered <- accepted,
  open      <- stdin \notin StdinEnds /\ service = "serving"

\* Answers reach the client frame by frame, in the order they were pushed.
Answered == INSTANCE BytePipe WITH
  Frames    <- {Frame(r) : r \in Requests},
  transit   <- IF stdout \in StdoutEnds THEN <<>> ELSE buffer \o outbound,
  delivered <- written,
  open      <- stdout \notin StdoutEnds

\* Each direction is a pipe: however reads, sends, drains and the end of the
\* session fall, no chunk and no unit is duplicated, overtaken or skipped.
PipeContract == Requested!PipeSpec /\ Answered!PipeSpec

\* A stdout pump that ends normally has written every answer that was pushed
\* before the session was asked to end, whoever asked and wherever the pump was.
FinalDrainComplete == stdout = "drained" => done /\ Len(written) >= owed

------------------------------------------------------------------------------
(* Liveness.                                                               *)

\* Once asked to, the process ends, even if the service has stopped reading
\* while a Feed waits for room, a call never returns, or the client is slow.
SessionEnds == TimePasses => (done ~> main = "exited")

\* An answer is not slept through: it leaves the queue without help from the
\* 100 ms, unless the pump itself ends.
OutputLeaves == outbound # <<>> ~> outbound = <<>> \/ stdout \in StdoutEnds \/ main = "exited"

------------------------------------------------------------------------------
(* What a comment says that the code does not do.                          *)

\* "end the spawned task silently (the client sees EOF and can reconnect)".
ServiceEndSeen == TimePasses => (service = "failed" ~> main = "exited")
==============================================================================
