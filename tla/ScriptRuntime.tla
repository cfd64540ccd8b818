---------------------------- MODULE ScriptRuntime -----------------------------
(***************************************************************************)
(* ScriptRuntime (src/RttSh/Scripting/ScriptRuntime.cs): the state behind  *)
(* the rtt.* operations of a Lua script and behind the MCP tools.  Three   *)
(* threads meet in it:                                                     *)
(*   - the event thread (the transport's poll thread) calls OnData and     *)
(*     OnLinkError;                                                        *)
(*   - a canceller (Ctrl+C) calls RequestCancel;                           *)
(*   - the script thread runs one operation at a time, most of which pump: *)
(*     drain the inbox, test, look at the flags and the clock, wait.       *)
(* Nothing is locked, so the steps of the pump are separate actions.       *)
(*                                                                         *)
(* A chunk is one symbol: DataReceived hands over a run of bytes, and a    *)
(* run is delivered here as that many chunks.  A pattern is a literal run  *)
(* of symbols.  Which operation wants which wait, and for how long, is     *)
(* chosen freely.  MemRead, MemWrite and the run-control calls pass        *)
(* through to the transport and keep no state here.                        *)
(***************************************************************************)
EXTENDS Integers, Sequences, FiniteSets, FiniteSetsExt

CONSTANTS
  Symbols,     \* units of received output
  Wide,        \* symbols that take two bytes in UTF-8 ({} with the literal matcher)
  Patterns,    \* bound: the patterns the script looks for
  Threshold,   \* CompactionThreshold
  MaxChunks,   \* bound: chunks received
  MaxTicks     \* bound: pump slices in the longest timeout

ASSUME RuntimeAssumption ==
  /\ Wide \subseteq Symbols
  /\ Patterns \subseteq Seq(Symbols) \ {<<>>}
  /\ Threshold \in Nat \ {0}
  /\ MaxChunks \in Nat
  /\ MaxTicks \in Nat

VARIABLES
  inbox,            \* _inbox
  pending,          \* _pending
  scanPos,          \* _scanPos
  cancelRequested,  \* _cancelRequested
  linkError,        \* _linkError is set
  dataSignal,       \* _dataSignal has been released: its handle is signalled
  cancelSignal,     \* _cancelSignal has been released
  eventThread,      \* between events, or between the two statements of one
  canceller,        \* the same for RequestCancel
  late,             \* the --script-timeout has passed
  pc,               \* where the script thread is
  op,               \* the operation it runs
  pats,             \* the patterns of that operation
  before,           \* its local: _pending.Length when the wait began
  timeLeft,         \* slices until its timeout
  wakeAt,           \* timeLeft at which the current slice is over
  outcome,          \* how the last operation ended
  text,             \* what it returned
  received,         \* history: chunks received
  asked             \* history: chunks received when the operation began

streamVars == <<inbox, pending, scanPos>>
flagVars   == <<cancelRequested, linkError, late>>
signalVars == <<dataSignal, cancelSignal>>
eventVars  == <<eventThread, canceller, received>>
callVars   == <<op, pats, asked>>
replyVars  == <<outcome, text>>
vars == <<inbox, pending, scanPos, cancelRequested, linkError, late, dataSignal,
          cancelSignal, eventThread, canceller, received, pc, op, pats, asked,
          before, timeLeft, wakeAt, outcome, text>>

Matchers == {"expect", "expect_any", "expect_absent"}
Ops == Matchers \union {"wait", "read", "sleep", "flush"}

Outcomes == {"none", "ok", "timeout", "appeared", "cancelled", "link", "late", "failed", "fault"}

TypeOK ==
  /\ inbox \in Seq(Symbols) /\ pending \in Seq(Symbols) /\ scanPos \in Nat
  /\ cancelRequested \in BOOLEAN /\ linkError \in BOOLEAN /\ late \in BOOLEAN
  /\ dataSignal \in BOOLEAN /\ cancelSignal \in BOOLEAN
  /\ eventThread \in {"idle", "enqueued", "errored", "gone"}
  /\ canceller \in {"idle", "flagged", "done"}
  /\ received \in 0 .. MaxChunks /\ asked \in 0 .. MaxChunks
  /\ pc \in {"idle", "ingest", "drain", "check", "wait", "finish"}
  /\ op \in Ops \union {"none"}
  /\ pats \subseteq Patterns
  /\ before \in Nat
  /\ timeLeft \in 0 .. MaxTicks
  /\ wakeAt \in 0 .. MaxTicks
  /\ outcome \in Outcomes
  /\ text \in Seq(Symbols)

Init ==
  /\ inbox = <<>> /\ pending = <<>> /\ scanPos = 0
  /\ cancelRequested = FALSE /\ linkError = FALSE /\ late = FALSE
  /\ dataSignal = FALSE /\ cancelSignal = FALSE
  /\ eventThread = "idle" /\ canceller = "idle"
  /\ received = 0 /\ asked = 0
  /\ pc = "idle" /\ op = "none" /\ pats = {}
  /\ before = 0 /\ timeLeft = 0 /\ wakeAt = 0
  /\ outcome = "none" /\ text = <<>>

------------------------------------------------------------------------------
(* Matching.                                                               *)

Region == SubSeq(pending, scanPos + 1, Len(pending))

\* What has been received and not yet consumed, drained or not.
Unread == Region \o inbox

\* Where an occurrence of p in s ends.
Ends(s, p) == {e \in Len(p) .. Len(s) : SubSeq(s, e - Len(p) + 1, e) = p}

Occurs(s, ps) == \E p \in ps : Ends(s, p) # {}

\* Where the occurrence that completes first ends.
FirstEnd(s, ps) == Min(UNION {Ends(s, p) : p \in ps})

\* The end as PatternMatcher returns it: counted in the UTF-8 bytes of s.
MatchEnd(s, ps) ==
  LET e == FirstEnd(s, ps) IN e + Cardinality({i \in 1 .. e : s[i] \in Wide})

------------------------------------------------------------------------------
(* The event thread and the canceller.  Each event is two statements: the  *)
(* shared state, then the semaphore.                                       *)

OnData(x) ==
  /\ eventThread = "idle"
  /\ received < MaxChunks
  /\ inbox' = Append(inbox, x)
  /\ received' = received + 1
  /\ eventThread' = "enqueued"
  /\ UNCHANGED <<pending, scanPos, flagVars, signalVars, canceller, pc, callVars,
                 before, timeLeft, wakeAt, replyVars>>

OnDataReleases ==
  /\ eventThread = "enqueued"
  /\ dataSignal' = TRUE
  /\ eventThread' = "idle"
  /\ UNCHANGED <<streamVars, flagVars, cancelSignal, canceller, received, pc, callVars,
                 before, timeLeft, wakeAt, replyVars>>

\* The transport raises Error once, after its last DataReceived.
OnLinkError ==
  /\ eventThread = "idle"
  /\ linkError' = TRUE
  /\ eventThread' = "errored"
  /\ UNCHANGED <<streamVars, cancelRequested, late, signalVars, canceller, received, pc,
                 callVars, before, timeLeft, wakeAt, replyVars>>

OnLinkErrorReleases ==
  /\ eventThread = "errored"
  /\ cancelSignal' = TRUE
  /\ eventThread' = "gone"
  /\ UNCHANGED <<streamVars, flagVars, dataSignal, canceller, received, pc, callVars,
                 before, timeLeft, wakeAt, replyVars>>

RequestCancel ==
  /\ canceller = "idle"
  /\ cancelRequested' = TRUE
  /\ canceller' = "flagged"
  /\ UNCHANGED <<streamVars, linkError, late, signalVars, eventThread, received, pc,
                 callVars, before, timeLeft, wakeAt, replyVars>>

\* Slip: the semaphore is not released.
RequestCancelReleasesNothing ==
  /\ canceller = "flagged"
  /\ canceller' = "done"
  /\ UNCHANGED <<streamVars, flagVars, signalVars, eventThread, received, pc, callVars,
                 before, timeLeft, wakeAt, replyVars>>

RequestCancelReleases ==
  /\ canceller = "flagged"
  /\ cancelSignal' = TRUE
  /\ canceller' = "done"
  /\ UNCHANGED <<streamVars, flagVars, dataSignal, eventThread, received, pc, callVars,
                 before, timeLeft, wakeAt, replyVars>>

------------------------------------------------------------------------------
(* The clock.                                                              *)

Tick ==
  /\ pc # "idle" /\ timeLeft > 0
  /\ timeLeft' = timeLeft - 1
  /\ UNCHANGED <<streamVars, flagVars, signalVars, eventVars, pc, callVars, before,
                 wakeAt, replyVars>>

ScriptTimeout ==
  /\ ~late
  /\ late' = TRUE
  /\ UNCHANGED <<streamVars, cancelRequested, linkError, signalVars, eventVars, pc,
                 callVars, before, timeLeft, wakeAt, replyVars>>

------------------------------------------------------------------------------
(* The script thread.                                                      *)

\* An operation that ends where it began, without touching the buffer.
Answered(o) ==
  /\ pc = "idle"
  /\ outcome' = o
  /\ text' = <<>>
  /\ UNCHANGED <<streamVars, flagVars, signalVars, eventVars, pc, callVars, before,
                 timeLeft, wakeAt>>

\* ThrowLinkError and CheckWatchdog at the head of every operation.
Refused ==
  /\ linkError \/ late
  /\ Answered(IF linkError THEN "link" ELSE "late")

\* Send and SendHex: the transport's Write returns or throws.
Send ==
  /\ ~linkError /\ ~late
  /\ \E o \in {"ok", "failed"} : Answered(o)

\* The operation passes its head and goes to place with a timeout of t slices.
Begins(o, ps, t, place) ==
  /\ pc = "idle"
  /\ ~linkError /\ ~late
  /\ op' = o
  /\ pats' = ps
  /\ asked' = received
  /\ before' = Len(pending)
  /\ timeLeft' = t
  /\ wakeAt' = 0
  /\ pc' = place
  /\ outcome' = "none"
  /\ text' = <<>>
  /\ UNCHANGED <<streamVars, flagVars, signalVars, eventVars>>

Begin(t) ==
  \/ Begins("wait", {}, t, "drain")
  \/ Begins("sleep", {}, t, "drain")
  \/ Begins("read", {}, t, "ingest")
  \/ \E p \in Patterns, o \in {"expect", "expect_absent"} : Begins(o, {p}, t, "drain")
  \/ \E p, q \in Patterns : Begins("expect_any", {p, q}, t, "drain")
  \/ t = 0 /\ Begins("flush", {}, t, "ingest")

Goes(place) ==
  /\ pc' = place
  /\ UNCHANGED <<streamVars, flagVars, signalVars, eventVars, callVars, timeLeft, replyVars>>

\* DrainInbox takes one chunk.
DrainTakes ==
  /\ pc \in {"ingest", "drain"}
  /\ inbox # <<>>
  /\ pending' = Append(pending, Head(inbox))
  /\ inbox' = Tail(inbox)
  /\ UNCHANGED <<scanPos, flagVars, signalVars, eventVars, pc, callVars, before,
                 timeLeft, wakeAt, replyVars>>

\* ReadAvailable has ingested: something is pending, or it will pump for it.
ReadIngested ==
  /\ pc = "ingest" /\ op = "read"
  /\ inbox = <<>>
  /\ before' = Len(pending)
  /\ Goes(IF scanPos < Len(pending) THEN "finish" ELSE "drain")
  /\ UNCHANGED wakeAt

Done ==
  CASE op \in {"wait", "read"} -> Len(pending) > before
    [] op \in Matchers         -> Occurs(Region, pats)
    [] OTHER                   -> FALSE

\* The inbox is empty: the pump evaluates done().
PumpTests ==
  /\ pc = "drain"
  /\ inbox = <<>>
  /\ ~(op \in Matchers /\ scanPos > Len(pending))
  /\ Goes(IF Done THEN "finish" ELSE "check")
  /\ UNCHANGED <<before, wakeAt>>

\* Slip: the timeout is taken as inclusive.
PumpChecksInclusive ==
  /\ pc = "check"
  /\ IF cancelRequested \/ linkError
     THEN Goes("finish") /\ UNCHANGED wakeAt
     ELSE Goes("wait") /\ wakeAt' = timeLeft - 1
  /\ UNCHANGED before

\* Cancelled, link failed or time is up: the pump gives up; else one slice.
PumpChecks ==
  /\ pc = "check"
  /\ IF cancelRequested \/ linkError \/ timeLeft = 0
     THEN Goes("finish") /\ UNCHANGED wakeAt
     ELSE Goes("wait") /\ wakeAt' = timeLeft - 1
  /\ UNCHANGED before

\* WaitAny returns: a handle is signalled or the slice is over.  Nobody waits
\* on the semaphores themselves, so a signalled handle stays signalled.
PumpWakes ==
  /\ pc = "wait"
  /\ dataSignal \/ cancelSignal \/ timeLeft <= wakeAt
  /\ Goes("drain")
  /\ UNCHANGED <<before, wakeAt>>

------------------------------------------------------------------------------
(* The tails of the operations, after the pump.  The locals end with them. *)

Returns(o, t) ==
  /\ pc' = "idle"
  /\ outcome' = o
  /\ text' = t
  /\ op' = "none" /\ pats' = {} /\ asked' = 0
  /\ before' = 0 /\ timeLeft' = 0 /\ wakeAt' = 0
  /\ UNCHANGED <<inbox, flagVars, signalVars, eventVars>>

\* Slips: compaction leaves _scanPos alone; it removes one unit too few.
ConsumeThroughUnreset(end) ==
  /\ scanPos' = end
  /\ pending' = IF end >= Threshold THEN SubSeq(pending, end + 1, Len(pending)) ELSE pending
ConsumeThroughShort(end) ==
  /\ scanPos' = IF end >= Threshold THEN 0 ELSE end
  /\ pending' = IF end >= Threshold THEN SubSeq(pending, end, Len(pending)) ELSE pending

ConsumeThrough(end) ==
  /\ scanPos' = IF end >= Threshold THEN 0 ELSE end
  /\ pending' = IF end >= Threshold THEN SubSeq(pending, end + 1, Len(pending)) ELSE pending

SleepReturns ==
  /\ pc = "finish" /\ op = "sleep"
  /\ Returns(IF late THEN "late" ELSE "ok", <<>>)
  /\ UNCHANGED <<pending, scanPos>>

WaitReturns ==
  /\ pc = "finish" /\ op = "wait"
  /\ Returns("ok", SubSeq(pending, before + 1, Len(pending)))
  /\ UNCHANGED <<pending, scanPos>>

ReadReturns ==
  /\ pc = "finish" /\ op = "read"
  /\ scanPos <= Len(pending)
  /\ Returns("ok", Region)
  /\ ConsumeThrough(Len(pending))

\* Slip: Flush does not drain first.
FlushReturnsUndrained ==
  /\ pc = "ingest" /\ op = "flush"
  /\ Returns("ok", <<>>)
  /\ ConsumeThrough(Len(pending))

FlushReturns ==
  /\ pc = "ingest" /\ op = "flush"
  /\ inbox = <<>>
  /\ Returns("ok", <<>>)
  /\ ConsumeThrough(Len(pending))

\* A hit: everything through the match end is consumed and returned (or, for
\* ExpectAbsent, thrown as evidence).
Matched ==
  /\ pc = "finish" /\ op \in Matchers
  /\ Occurs(Region, pats)
  /\ LET end == MatchEnd(Region, pats) IN
       /\ end <= Len(Region)
       /\ Returns(IF op = "expect_absent" THEN "appeared" ELSE "ok", SubSeq(Region, 1, end))
       /\ ConsumeThrough(scanPos + end)

\* The matcher's end lies past the region: slicing the region throws, in
\* ExpectAny after _scanPos has moved.
MatchFaults ==
  /\ pc = "finish" /\ op \in Matchers
  /\ Occurs(Region, pats)
  /\ LET end == MatchEnd(Region, pats) IN
       /\ end > Len(Region)
       /\ scanPos' = IF op = "expect_any" THEN scanPos + end ELSE scanPos
  /\ Returns("fault", <<>>)
  /\ UNCHANGED pending

\* Region() throws: _scanPos lies past the end of _pending.
RegionFaults ==
  /\ scanPos > Len(pending)
  /\ \/ pc = "drain" /\ inbox = <<>> /\ op \in Matchers
     \/ pc = "finish" /\ op = "read"
  /\ Returns("fault", <<>>)
  /\ UNCHANGED <<pending, scanPos>>

\* No hit, whatever ended the pump: the link first, then cancellation, and only
\* then the timeout, which is what ExpectAbsent waits for.
Missed(o) ==
  /\ pc = "finish" /\ op \in Matchers
  /\ ~Occurs(Region, pats)
  /\ Returns(o, <<>>)
  /\ UNCHANGED <<pending, scanPos>>

TimesOut == IF op = "expect_absent" THEN "ok" ELSE "timeout"

\* Slips: the reasons for an early wake are not looked at; cancellation is not.
NotMatchedPlain    == Missed(TimesOut)
NotMatchedLinkOnly == Missed(IF linkError THEN "link" ELSE TimesOut)

NotMatched ==
  Missed(IF linkError THEN "link" ELSE IF cancelRequested THEN "cancelled" ELSE TimesOut)

Returning ==
  \/ SleepReturns \/ WaitReturns \/ ReadReturns \/ FlushReturns
  \/ Matched \/ MatchFaults \/ RegionFaults \/ NotMatched

PumpStep ==
  \/ DrainTakes \/ ReadIngested \/ PumpTests \/ PumpChecks \/ PumpWakes \/ Returning

EventStep ==
  \/ \E x \in Symbols : OnData(x)
  \/ OnDataReleases \/ OnLinkError \/ OnLinkErrorReleases
  \/ RequestCancel \/ RequestCancelReleases

Next ==
  \/ EventStep
  \/ Tick \/ ScriptTimeout
  \/ Send \/ Refused \/ (\E t \in 0 .. MaxTicks : Begin(t))
  \/ PumpStep

Spec == Init /\ [][Next]_vars

(***************************************************************************)
(* Fairness.  The script thread keeps running once an operation has begun, *)
(* and an event that has set its flag goes on to release its semaphore.    *)
(* That time passes is assumed only where a property says so.  Nothing     *)
(* makes the script call, the target print, the link fail or the user      *)
(* cancel.                                                                 *)
(***************************************************************************)
FairSpec ==
  /\ Spec
  /\ WF_vars(PumpStep)
  /\ WF_vars(OnDataReleases) /\ WF_vars(OnLinkErrorReleases) /\ WF_vars(RequestCancelReleases)

TimePasses == WF_vars(Tick)

------------------------------------------------------------------------------
(* Safety.                                                                 *)

\* The consumed part of the buffer is part of the buffer, and a wait starts at
\* or after it: neither consuming nor compacting leaves a position dangling
\* that a later Region or Wait would slice with.
PositionsInRange ==
  /\ scanPos <= Len(pending)
  /\ pc # "idle" => scanPos <= before /\ before <= Len(pending)

\* expect_absent succeeds only if its whole window elapsed: an early wake, by
\* link failure or cancellation, never reads as absence, and neither does a
\* hit that is in the buffer.
AbsentIsReal ==
  [][op = "expect_absent" /\ pc' = "idle" /\ outcome' = "ok" =>
       timeLeft = 0 /\ ~Occurs(Region, pats)]_vars

\* Only the pure timeout is reported as one: when Expect says that the pattern
\* did not arrive in time, its time was up and neither the link nor the user
\* had ended it.
TimeoutIsPure ==
  [][pc # "idle" /\ outcome' = "timeout" =>
       timeLeft = 0 /\ ~linkError /\ ~cancelRequested]_vars

\* Flush leaves nothing that was received before it was called: stale output
\* cannot feed a later Expect, not even a chunk that nobody had drained yet.
FlushIsComplete ==
  [][op = "flush" /\ pc' = "idle" /\ outcome' = "ok" => Len(Unread') <= received - asked]_vars

\* The buffer implements the stream that scripts are promised.
Stream == INSTANCE RxStream WITH
  unread <- Unread,
  call   <- IF pc = "idle" THEN "none"
            ELSE IF op \in {"wait", "sleep"} THEN "tap"
            ELSE IF op = "flush" THEN "drop" ELSE "take",
  reply  <- text

StreamContract == Stream!RxSpec

------------------------------------------------------------------------------
(* Liveness.                                                               *)

\* Every operation returns as time passes, however the data, the failure and
\* the cancellation fall.
CallEnds == TimePasses => (pc # "idle" ~> pc = "idle")

\* Cancellation, link failure and the arrival of its pattern each end the
\* operation that waits, without help from the clock.
WaiterWakes ==
  (pc # "idle" /\ (cancelRequested \/ linkError \/ (op \in Matchers /\ Occurs(Unread, pats))))
    ~> pc = "idle"

------------------------------------------------------------------------------
(* What a comment says that the code does not do.                          *)

\* "consumes through the match end": what Expect returns and takes ends with
\* an occurrence of the pattern.
ConsumesThroughMatchEnd ==
  [][op = "expect" /\ pc' = "idle" /\ outcome' = "ok" =>
       \E p \in pats : Len(text') \in Ends(text', p)]_vars
==============================================================================
