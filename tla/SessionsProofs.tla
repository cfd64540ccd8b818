--------------------------- MODULE SessionsProofs ---------------------------
(***************************************************************************)
(* The safety of Sessions for every set of commands and any number of      *)
(* payloads.  The invariant says where the main thread is while the link   *)
(* is in each of its states, where the poll thread is then, and what the   *)
(* exit code must be by the time somebody sets done.                       *)
(***************************************************************************)
EXTENDS Sessions, TLAPS

\* The link and the main thread.
LinkPlaces ==
  /\ main \in {"start", "opening"}
       <=> link = "none" /\ main \notin {"unwinding", "disposing", "unlocking", "exited"}
  /\ link = "closing" <=> main \in {"joining", "tearing"}
  /\ main \in {"finishing", "unlocking", "exited"} => link # "open"
  /\ main \in {"sending", "writing"} => kind = "send"
  /\ guard <=> main \notin {"start", "exited"}

\* The link and the poll thread.
PollPlaces ==
  /\ link = "none" <=> poll = "unborn"
  /\ link = "closed" \/ main = "tearing" => poll = "ended"
  /\ link = "failed" => poll \in Handling \union {"ended"}
  /\ poll \in Handling => link = "failed" /\ kind # "script"

\* The exit code is set before done is.
CodeTells ==
  /\ kind = "script" => worker \notin {"complaining", "failing"} /\ woken \notin {"error", "write"}
  /\ poll = "signalling" \/ worker = "failing" \/ woken \in {"error", "write"} => code = "failed"
  /\ woken \in {"error", "write"} /\ result # "none" => result = "failed"

\* How the main thread comes to its result, and what it leaves behind.
Endings ==
  /\ main \in BeforeWake \union {"closing", "finishing"} => result = "none"
  /\ main \in {"unwinding", "disposing", "unlocking", "exited"} => result # "none"
  /\ output = "disposed" => result # "none"
  /\ result # "none" /\ link \in {"open", "closing"} => kind = "send" /\ result = "failed"

IInv == TypeOK /\ LinkPlaces /\ PollPlaces /\ CodeTells /\ Endings

LEMMA InitEstablishes == Init => IInv
<1> SUFFICES ASSUME Init PROVE IInv
  OBVIOUS
<1>1. TypeOK
  <2>1. sends \in 0 .. MaxSends
    BY SessionsAssumption DEF Init
  <2>2. code \in {"ok", "failed"}
    BY DEF Init
  <2>3. stalled \in BOOLEAN /\ ~stalled /\ guard \in BOOLEAN /\ done \in BOOLEAN
    BY DEF Init
  <2> QED BY <2>1, <2>2, <2>3 DEF Init, TypeOK, BeforeWake
<1>2. LinkPlaces
  <2>1. ~guard /\ main = "start" BY DEF Init
  <2> QED BY <2>1 DEF Init, LinkPlaces
<1>3. PollPlaces /\ CodeTells /\ Endings
  BY DEF Init, PollPlaces, CodeTells, Endings, Handling, BeforeWake
<1> QED BY <1>1, <1>2, <1>3 DEF IInv

LEMMA MainPreserves ==
  ASSUME IInv, MainStep
  PROVE  IInv'
<1> USE DEF threadVars
<1>1. CASE Acquires
  BY <1>1 DEF IInv, TypeOK, LinkPlaces, PollPlaces, CodeTells, Endings, Handling, BeforeWake,
       Acquires, MainGoes
<1>2. CASE AcquireRefused
  BY <1>2 DEF IInv, TypeOK, LinkPlaces, PollPlaces, CodeTells, Endings, Handling, BeforeWake,
       AcquireRefused, MainGoes
<1>3. CASE Opens
  BY <1>3 DEF IInv, TypeOK, LinkPlaces, PollPlaces, CodeTells, Endings, Handling, BeforeWake,
       Opens, MainGoes
<1>4. CASE OpenFails
  BY <1>4 DEF IInv, TypeOK, LinkPlaces, PollPlaces, CodeTells, Endings, Handling, BeforeWake,
       OpenFails, MainGoes
<1>5. CASE MainWrites
  BY <1>5 DEF IInv, TypeOK, LinkPlaces, PollPlaces, CodeTells, Endings, Handling, BeforeWake,
       MainWrites, MainGoes
<1>6. CASE MainWritten
  BY <1>6 DEF IInv, TypeOK, LinkPlaces, PollPlaces, CodeTells, Endings, Handling, BeforeWake,
       MainWritten, MainGoes
<1>7. CASE MainWriteFails
  BY <1>7 DEF IInv, TypeOK, LinkPlaces, PollPlaces, CodeTells, Endings, Handling, BeforeWake,
       MainWriteFails
<1>8. CASE Wakes
  BY <1>8 DEF IInv, TypeOK, LinkPlaces, PollPlaces, CodeTells, Endings, Handling, BeforeWake,
       Wakes, MainGoes
<1>9. CASE CloseBegins
  BY <1>9 DEF IInv, TypeOK, LinkPlaces, PollPlaces, CodeTells, Endings, Handling, BeforeWake,
       CloseBegins
<1>10. CASE CloseSkips
  BY <1>10 DEF IInv, TypeOK, LinkPlaces, PollPlaces, CodeTells, Endings, Handling, BeforeWake,
       CloseSkips, Onward
<1>11. CASE CloseJoins
  BY <1>11 DEF IInv, TypeOK, LinkPlaces, PollPlaces, CodeTells, Endings, Handling, BeforeWake,
       CloseJoins, MainGoes
<1>12. CASE CloseTearsDown
  BY <1>12 DEF IInv, TypeOK, LinkPlaces, PollPlaces, CodeTells, Endings, Handling, BeforeWake,
       CloseTearsDown, MainGoes, Onward
<1>13. CASE Returns
  BY <1>13 DEF IInv, TypeOK, LinkPlaces, PollPlaces, CodeTells, Endings, Handling, BeforeWake,
       Returns, MainGoes
<1>14. CASE DisposesOutput
  BY <1>14 DEF IInv, TypeOK, LinkPlaces, PollPlaces, CodeTells, Endings, Handling, BeforeWake,
       DisposesOutput, MainGoes
<1>15. CASE Unlocks
  <2>1. ~guard' /\ guard' \in BOOLEAN /\ main = "unlocking" /\ main' = "exited"
    BY <1>15 DEF Unlocks, MainGoes
  <2>2. UNCHANGED <<kind, sends, output, worker, poll, stalled, link, done, code, result, woken>>
    BY <1>15 DEF Unlocks
  <2>3. TypeOK'
    BY <2>1, <2>2 DEF IInv, TypeOK, BeforeWake
  <2>4. LinkPlaces'
    BY <2>1, <2>2 DEF IInv, LinkPlaces
  <2>5. PollPlaces' /\ CodeTells' /\ Endings'
    BY <2>1, <2>2 DEF IInv, PollPlaces, CodeTells, Endings, Handling, BeforeWake
  <2> QED BY <2>3, <2>4, <2>5 DEF IInv
<1> QED
  BY <1>1, <1>2, <1>3, <1>4, <1>5, <1>6, <1>7, <1>8, <1>9, <1>10, <1>11, <1>12, <1>13, <1>14, <1>15 DEF MainStep

LEMMA WorkerPreserves ==
  ASSUME IInv, WorkerStep
  PROVE  IInv'
<1> USE DEF threadVars
<1>1. CASE Reads
  BY <1>1, SessionsAssumption
     DEF IInv, TypeOK, LinkPlaces, PollPlaces, CodeTells, Endings, Handling, BeforeWake,
       Reads, WorkerGoes
<1>2. CASE Writes
  BY <1>2 DEF IInv, TypeOK, LinkPlaces, PollPlaces, CodeTells, Endings, Handling, BeforeWake,
       Writes, WorkerGoes
<1>3. CASE Written
  BY <1>3 DEF IInv, TypeOK, LinkPlaces, PollPlaces, CodeTells, Endings, Handling, BeforeWake,
       Written, WorkerGoes
<1>4. CASE WriteFails
  BY <1>4 DEF IInv, TypeOK, LinkPlaces, PollPlaces, CodeTells, Endings, Handling, BeforeWake,
       WriteFails, WorkerGoes
<1>5. CASE Complains
  BY <1>5 DEF IInv, TypeOK, LinkPlaces, PollPlaces, CodeTells, Endings, Handling, BeforeWake,
       Complains, WorkerGoes
<1>6. CASE InputEnds
  BY <1>6 DEF IInv, TypeOK, LinkPlaces, PollPlaces, CodeTells, Endings, Handling, BeforeWake,
       InputEnds, WorkerGoes
<1>7. CASE LingerEnds
  BY <1>7 DEF IInv, TypeOK, LinkPlaces, PollPlaces, CodeTells, Endings, Handling, BeforeWake,
       LingerEnds, WorkerGoes
<1>8. CASE ScriptEnds
  BY <1>8 DEF IInv, TypeOK, LinkPlaces, PollPlaces, CodeTells, Endings, Handling, BeforeWake,
       ScriptEnds, WorkerGoes
<1>9. CASE Finishes
  <2>1. PICK by \in {"write", "input", "script"} :
          /\ worker = (IF by = "write" THEN "failing" ELSE "finishing")
          /\ worker' = "ended"
          /\ DoneSet(by)
          /\ UNCHANGED <<kind, main, poll, stalled, guard, link, output, result, sends, code>>
    BY <1>9 DEF Finishes, WorkerGoes
  <2>2. kind = "script" => by # "write"
    BY <2>1 DEF IInv, CodeTells
  <2>3. by = "write" => code = "failed"
    BY <2>1 DEF IInv, CodeTells
  <2>4. TypeOK'
    BY <2>1 DEF IInv, TypeOK, Handling, BeforeWake, DoneSet
  <2>5. LinkPlaces' /\ PollPlaces' /\ Endings'
    BY <2>1 DEF IInv, LinkPlaces, PollPlaces, Endings, Handling, BeforeWake
  <2>6. CodeTells'
    BY <2>1, <2>2, <2>3 DEF IInv, CodeTells, Endings, BeforeWake, DoneSet
  <2> QED BY <2>4, <2>5, <2>6 DEF IInv
<1> QED
  BY <1>1, <1>2, <1>3, <1>4, <1>5, <1>6, <1>7, <1>8, <1>9 DEF WorkerStep, WorkerEnds

LEMMA PollPreserves ==
  ASSUME IInv, PollStep
  PROVE  IInv'
<1> USE DEF threadVars
<1>1. CASE PollEnds
  BY <1>1 DEF IInv, TypeOK, LinkPlaces, PollPlaces, CodeTells, Endings, Handling, BeforeWake,
       PollEnds, PollGoes
<1>2. CASE BatchRead
  BY <1>2 DEF IInv, TypeOK, LinkPlaces, PollPlaces, CodeTells, Endings, Handling, BeforeWake,
       BatchRead, PollGoes
<1>3. CASE Renders
  BY <1>3 DEF IInv, TypeOK, LinkPlaces, PollPlaces, CodeTells, Endings, Handling, BeforeWake,
       Renders, PollGoes
<1>4. CASE Rendered
  BY <1>4 DEF IInv, TypeOK, LinkPlaces, PollPlaces, CodeTells, Endings, Handling, BeforeWake,
       Rendered, PollGoes
<1>5. CASE ReadFails
  BY <1>5 DEF IInv, TypeOK, LinkPlaces, PollPlaces, CodeTells, Endings, Handling, BeforeWake,
       ReadFails, PollGoes
<1>6. CASE FailLink
  BY <1>6 DEF IInv, TypeOK, LinkPlaces, PollPlaces, CodeTells, Endings, Handling, BeforeWake,
       FailLink, PollGoes, ErrorPlace
<1>7. CASE FailStalled
  BY <1>7 DEF IInv, TypeOK, LinkPlaces, PollPlaces, CodeTells, Endings, Handling, BeforeWake,
       FailStalled, PollGoes, ErrorPlace
<1>8. CASE ErrorPrints
  BY <1>8 DEF IInv, TypeOK, LinkPlaces, PollPlaces, CodeTells, Endings, Handling, BeforeWake,
       ErrorPrints, PollGoes
<1>9. CASE ErrorSetsCode
  BY <1>9 DEF IInv, TypeOK, LinkPlaces, PollPlaces, CodeTells, Endings, Handling, BeforeWake,
       ErrorSetsCode, PollGoes
<1>10. CASE ErrorSignals
  <2>1. /\ poll = "signalling" /\ poll' = "ended" /\ ~stalled' /\ stalled' \in BOOLEAN
        /\ DoneSet("error")
        /\ UNCHANGED <<kind, main, worker, sends, guard, link, output, code, result>>
    BY <1>10 DEF ErrorSignals, PollGoes
  <2>2. TypeOK'
    BY <2>1 DEF IInv, TypeOK, Handling, BeforeWake, DoneSet
  <2>3. LinkPlaces' /\ PollPlaces' /\ Endings'
    BY <2>1 DEF IInv, LinkPlaces, PollPlaces, Endings, Handling, BeforeWake
  <2>4. CodeTells'
    BY <2>1 DEF IInv, CodeTells, Endings, PollPlaces, BeforeWake, Handling, DoneSet
  <2> QED BY <2>2, <2>3, <2>4 DEF IInv
<1> QED
  BY <1>1, <1>2, <1>3, <1>4, <1>5, <1>6, <1>7, <1>8, <1>9, <1>10 DEF PollStep, PollDuty

LEMMA CancelPreserves ==
  ASSUME IInv, CancelKeyPress
  PROVE  IInv'
BY DEF IInv, TypeOK, LinkPlaces, PollPlaces, CodeTells, Endings, Handling, BeforeWake,
       CancelKeyPress, DoneSet, threadVars

LEMMA StepPreserves == IInv /\ [Next]_vars => IInv'
<1>1. ASSUME IInv, Next PROVE IInv'
  BY <1>1, MainPreserves, WorkerPreserves, PollPreserves, CancelPreserves DEF Next
<1>2. ASSUME IInv, UNCHANGED vars PROVE IInv'
  BY <1>2 DEF vars, IInv, TypeOK, LinkPlaces, PollPlaces, CodeTells, Endings
<1> QED BY <1>1, <1>2

\* Whatever ends a session, the invariant holds.
THEOREM Invariance == Spec => []IInv
BY InitEstablishes, StepPreserves, PTL DEF Spec

\* The state of a session is well typed, and the native lock is kept only by a
\* Write or by the Error of a stalled core.
THEOREM TypeCorrect == Spec => []TypeOK
<1>1. IInv => TypeOK BY DEF IInv
<1> QED BY Invariance, <1>1, PTL

\* On every way out of every command the link is closed before the target's
\* lock is given back.
THEOREM LinkCovered == Spec => []GuardCoversLink
<1>1. IInv => GuardCoversLink
  BY DEF IInv, TypeOK, LinkPlaces, Endings, GuardCoversLink, BeforeWake
<1> QED BY Invariance, <1>1, PTL

\* A session ended by a failure exits with 1.
THEOREM FailureTold == Spec => []ExitTellsFailure
<1>1. IInv => ExitTellsFailure
  BY DEF IInv, CodeTells, Endings, ExitTellsFailure
<1> QED BY Invariance, <1>1, PTL

\* The renderer is disposed after its last batch, but for a send whose Write
\* failed.
THEOREM RendererLast == Spec => []RendererOutlivesPoll
<1>1. IInv => RendererOutlivesPoll
  BY DEF IInv, TypeOK, PollPlaces, Endings, RendererOutlivesPoll, Handling
<1> QED BY Invariance, <1>1, PTL

\* A user interface that is gone has no poll thread behind it, unless the link
\* failed by itself: what is left of UiTornDownLast, which the Error handler of
\* a failed link breaks.
UiGoneAlone ==
  output = "disposed" /\ ~(kind = "send" /\ result = "failed")
    => poll \in {"unborn", "ended"} \/ link = "failed"

\* Every other return of monitor, send and script joins the poll thread before
\* the renderer and the TUI are disposed.
THEOREM UiAfterPoll == Spec => []UiGoneAlone
<1>1. IInv => UiGoneAlone
  BY DEF IInv, TypeOK, PollPlaces, Endings, UiGoneAlone
<1> QED BY Invariance, <1>1, PTL

------------------------------------------------------------------------------
(* Who waits for whom.  A lock is had by a thread in one of its places; the *)
(* main thread joins the poll thread in Close, and a script's thread after. *)

Threads == {"main", "worker", "poll"}

HasNative(u) ==
  \/ u = "main" /\ main = "writing"
  \/ u = "worker" /\ worker = "writing"
  \/ u = "poll" /\ stalled

WantsNative(t) ==
  \/ t = "main" /\ main \in {"sending", "closing", "disposing", "tearing"}
  \/ t = "worker" /\ worker = "sending"
  \/ t = "poll" /\ poll \in {"polling", "failing"}

HasConsole(u) == u = "poll" /\ poll = "rendering"

WantsConsole(t) ==
  \/ t = "main" /\ main = "unwinding"
  \/ t = "worker" /\ worker = "complaining"
  \/ t = "poll" /\ poll \in {"delivering", "printing"}

Joins(t, u) ==
  /\ t = "main"
  /\ \/ u = "poll" /\ main = "joining" /\ poll # "ended"
     \/ u = "worker" /\ kind = "script" /\ main = "finishing" /\ worker # "ended"

Waits(t, u) ==
  \/ WantsNative(t) /\ HasNative(u)
  \/ WantsConsole(t) /\ HasConsole(u)
  \/ Joins(t, u)

\* The native lock has one holder.
OneNative == \A t, u \in Threads : HasNative(t) /\ HasNative(u) => t = u

\* No thread waits for itself, directly or through one or two others.
NoCircle ==
  \A t, u, v \in Threads :
    /\ ~Waits(t, t)
    /\ ~(Waits(t, u) /\ Waits(u, t))
    /\ ~(Waits(t, u) /\ Waits(u, v) /\ Waits(v, t))

LEMMA OneNativeStarts == Init => OneNative
BY DEF Init, OneNative, HasNative, Threads

LEMMA OneNativeStays == IInv /\ OneNative /\ [Next]_vars => OneNative'
<1> SUFFICES ASSUME IInv, OneNative, [Next]_vars PROVE OneNative'
  OBVIOUS
<1> DEFINE Alone == /\ ~(main = "writing" /\ worker = "writing")
                    /\ ~(main = "writing" /\ stalled)
                    /\ ~(worker = "writing" /\ stalled)
<1>1. OneNative <=> Alone
  BY DEF OneNative, HasNative, Threads
<1>2. (OneNative <=> Alone)'
  BY DEF OneNative, HasNative, Threads
<1>3. CASE MainStep
  <2>1. stalled' = stalled /\ (worker' = worker \/ worker' = "reading")
    BY <1>3 DEF MainStep, threadVars, Acquires, AcquireRefused, Opens, OpenFails, MainWrites,
         MainWritten, MainWriteFails, Wakes, CloseBegins, CloseSkips, CloseJoins, CloseTearsDown,
         Returns, DisposesOutput, Unlocks
  <2>2. main' = "writing" => MainWrites
    BY <1>3 DEF MainStep, MainGoes, Onward, Acquires, AcquireRefused, Opens, OpenFails,
         MainWritten, MainWriteFails, Wakes, CloseBegins, CloseSkips, CloseJoins, CloseTearsDown,
         Returns, DisposesOutput, Unlocks
  <2> QED BY <1>1, <1>2, <2>1, <2>2 DEF MainWrites, NativeFree
<1>4. CASE WorkerStep
  <2>1. main' = main /\ stalled' = stalled
    BY <1>4 DEF WorkerStep, WorkerEnds, WorkerGoes, Reads, Writes, Written, WriteFails,
         Complains, InputEnds, LingerEnds, ScriptEnds, Finishes
  <2>2. worker' = "writing" => Writes
    BY <1>4 DEF WorkerStep, WorkerEnds, WorkerGoes, Reads, Written, WriteFails,
         Complains, InputEnds, LingerEnds, ScriptEnds, Finishes
  <2> QED BY <1>1, <1>2, <2>1, <2>2 DEF Writes, NativeFree
<1>5. CASE PollStep
  <2>1. main' = main /\ worker' = worker
    BY <1>5 DEF PollStep, PollDuty, PollGoes, PollEnds, BatchRead, Renders, Rendered, ReadFails,
         FailLink, FailStalled, ErrorPrints, ErrorSetsCode, ErrorSignals
  <2>2. stalled' => stalled \/ NativeFree
    BY <1>5 DEF PollStep, PollDuty, PollGoes, PollEnds, BatchRead, Renders, Rendered, ReadFails,
         FailLink, FailStalled, ErrorPrints, ErrorSetsCode, ErrorSignals
  <2> QED BY <1>1, <1>2, <2>1, <2>2 DEF NativeFree
<1>6. CASE CancelKeyPress \/ UNCHANGED vars
  BY <1>1, <1>2, <1>6 DEF CancelKeyPress, vars
<1> QED BY <1>3, <1>4, <1>5, <1>6 DEF Next

\* Whoever has a lock of somebody waits for nobody that waits for it: nothing
\* waits for a main thread that waits itself, and a worker inside Write or a
\* poll thread inside Error or the renderer needs no lock that another has.
LEMMA WaitsNeverClose == IInv /\ OneNative => NoCircle
<1> SUFFICES ASSUME IInv, OneNative PROVE NoCircle
  OBVIOUS
<1>1. \A t, u \in Threads : Waits(t, u) => t # u
  BY DEF Waits, Threads, WantsNative, HasNative, WantsConsole, HasConsole, Joins, IInv,
       PollPlaces, TypeOK, Handling
<1>2. \A t, u \in Threads : ~(Waits(t, "main") /\ Waits("main", u))
  BY DEF Waits, Threads, WantsNative, HasNative, WantsConsole, HasConsole, Joins
<1>3. ~(Waits("worker", "poll") /\ Waits("poll", "worker"))
  BY DEF Waits, WantsNative, HasNative, WantsConsole, HasConsole, Joins
<1>4. ASSUME NEW t \in Threads, NEW u \in Threads PROVE ~(Waits(t, u) /\ Waits(u, t))
  BY <1>1, <1>2, <1>3 DEF Threads
<1>5. ASSUME NEW t \in Threads, NEW u \in Threads, NEW v \in Threads
      PROVE  ~(Waits(t, u) /\ Waits(u, v) /\ Waits(v, t))
  <2>1. t # u /\ u # v /\ t # v => t = "main" \/ u = "main" \/ v = "main"
    BY DEF Threads
  <2> QED BY <1>1, <1>2, <2>1
<1> QED BY <1>1, <1>4, <1>5 DEF NoCircle

\* No deadlock over the native lock, the console lock and the two joins: the
\* handler of a stalled core, run with the native lock held, waits for the
\* console alone, and Close joins the poll thread with no lock held.
THEOREM NobodyWaitsInACircle == Spec => []NoCircle
<1>1. Spec => []OneNative
  BY Invariance, OneNativeStarts, OneNativeStays, PTL DEF Spec
<1> QED BY Invariance, <1>1, WaitsNeverClose, PTL

------------------------------------------------------------------------------
(* The link a session holds is an RttLink, opened once.  A script's Error  *)
(* stays owed here: its handler only tells the runtime.                    *)

LinkState == IF link \in {"open", "closing"} THEN link ELSE "closed"
Opened == IF link = "none" THEN 0 ELSE 1
InData == poll \in {"delivering", "rendering"}
ErrorReturned == poll = "ended" /\ kind # "script"
OwedErrors == IF link = "failed" /\ ~ErrorReturned THEN {1} ELSE {}
RaisedErrors == IF link = "failed" /\ ErrorReturned THEN {1} ELSE {}

Link == INSTANCE RttLink WITH
  MaxOpens <- 1, link <- LinkState, session <- Opened,
  inData <- InData, owed <- OwedErrors, raised <- RaisedErrors

LinkUntouched ==
  UNCHANGED <<LinkState, Opened, InData, OwedErrors, RaisedErrors>>

LEMMA LinkStarts == Init => Link!LinkInit
BY DEF Init, Link!LinkInit, LinkState, Opened, InData, OwedErrors, RaisedErrors

LEMMA LinkSteps ==
  ASSUME IInv, Next
  PROVE  Link!LinkNext \/ LinkUntouched
<1> USE DEF LinkState, Opened, InData, ErrorReturned, OwedErrors, RaisedErrors
<1>1. CASE MainStep
  <2>1. CASE Opens
    <3>1. link = "none" /\ poll = "unborn"
      BY <2>1 DEF Opens, MainGoes, IInv, LinkPlaces, PollPlaces
    <3>2. link' = "open" /\ poll' = "polling"
      BY <2>1 DEF Opens
    <3>3. Link!LinkOpen
      BY <3>1, <3>2 DEF Link!LinkOpen
    <3> QED BY <3>3 DEF Link!LinkNext
  <2>2. CASE CloseBegins
    <3>1. Link!CloseBegins
      BY <2>2 DEF CloseBegins, Link!CloseBegins
    <3> QED BY <3>1 DEF Link!LinkNext
  <2>3. CASE CloseTearsDown
    <3>1. link = "closing" /\ poll = "ended"
      BY <2>3 DEF CloseTearsDown, MainGoes, IInv, LinkPlaces, PollPlaces
    <3>2. link' = "closed" /\ poll' = poll
      BY <2>3 DEF CloseTearsDown
    <3>3. Link!CloseReturns
      BY <3>1, <3>2 DEF Link!CloseReturns
    <3> QED BY <3>3 DEF Link!LinkNext
  <2>4. CASE ~(Opens \/ CloseBegins \/ CloseTearsDown)
    <3>1. UNCHANGED <<link, poll, kind>>
      BY <1>1, <2>4
         DEF MainStep, threadVars, Acquires, AcquireRefused, OpenFails, MainWrites, MainWritten,
           MainWriteFails, Wakes, CloseSkips, CloseJoins, Returns, DisposesOutput, Unlocks
    <3> QED BY <3>1 DEF LinkUntouched
  <2> QED BY <2>1, <2>2, <2>3, <2>4
<1>2. CASE WorkerStep \/ CancelKeyPress
  <2>1. UNCHANGED <<link, poll, kind>>
    BY <1>2 DEF WorkerStep, WorkerEnds, WorkerGoes, Reads, Writes, Written, WriteFails, Complains,
         InputEnds, LingerEnds, ScriptEnds, Finishes, CancelKeyPress, threadVars
  <2> QED BY <2>1 DEF LinkUntouched
<1>3. CASE PollStep
  <2> UNCHANGED kind
    BY <1>3 DEF PollStep, PollDuty, PollGoes, threadVars, PollEnds, BatchRead, Renders, Rendered,
         ReadFails, FailLink, FailStalled, ErrorPrints, ErrorSetsCode, ErrorSignals
  <2>1. CASE BatchRead
    <3>1. Link!DataBegins
      BY <2>1 DEF BatchRead, PollGoes, Link!DataBegins
    <3> QED BY <3>1 DEF Link!LinkNext
  <2>2. CASE Rendered
    <3>1. link # "failed"
      BY <2>2 DEF Rendered, PollGoes, IInv, PollPlaces, Handling
    <3>2. Link!DataEnds
      BY <2>2, <3>1 DEF Rendered, PollGoes, Link!DataEnds
    <3> QED BY <3>2 DEF Link!LinkNext
  <2>3. CASE (FailLink /\ link = "open") \/ FailStalled
    <3>1. link = "open" /\ link' = "failed" /\ poll \in {"polling", "failing"}
          /\ poll' = ErrorPlace
      BY <2>3 DEF FailLink, FailStalled, PollGoes
    <3>2. Link!LinkFails
      BY <3>1 DEF ErrorPlace, Link!LinkFails
    <3> QED BY <3>2 DEF Link!LinkNext
  <2>4. CASE ErrorSignals
    <3>1. link = "failed" /\ kind # "script" /\ poll = "signalling"
      BY <2>4 DEF ErrorSignals, PollGoes, IInv, PollPlaces, Handling
    <3>2. link' = "failed" /\ poll' = "ended"
      BY <2>4, <3>1 DEF ErrorSignals, PollGoes
    <3>3. Link!ErrorRaised(1) /\ 1 \in Link!Sessions
      BY <3>1, <3>2 DEF Link!ErrorRaised, Link!Sessions
    <3> QED BY <3>3 DEF Link!LinkNext
  <2>5. CASE (FailLink /\ link # "open") \/ PollEnds
    <3>1. link # "failed" /\ poll \in {"polling", "failing"} /\ poll' = "ended" /\ link' = link
      BY <2>5 DEF FailLink, PollEnds, PollGoes, IInv, PollPlaces, Handling
    <3> QED BY <3>1 DEF LinkUntouched
  <2>6. CASE Renders
    BY <2>6 DEF Renders, PollGoes, LinkUntouched
  <2>7. CASE ReadFails
    BY <2>7 DEF ReadFails, PollGoes, LinkUntouched
  <2>8. CASE ErrorPrints \/ ErrorSetsCode
    BY <2>8 DEF ErrorPrints, ErrorSetsCode, PollGoes, LinkUntouched
  <2> QED BY <1>3, <2>1, <2>2, <2>3, <2>4, <2>5, <2>6, <2>7, <2>8 DEF PollStep, PollDuty
<1> QED BY <1>1, <1>2, <1>3 DEF Next

\* The coarse link of Sessions is the one RttTransport implements: it hands on
\* data only while open, raises its Error once, after it has closed itself, and
\* Close returns when no callback of data runs.
THEOREM SessionLink == Spec => Link!LinkSpec
<1>1. ASSUME IInv, [Next]_vars PROVE [Link!LinkNext]_(Link!linkVars)
  <2>1. CASE Next
    BY <1>1, <2>1, LinkSteps DEF LinkUntouched, Link!linkVars
  <2>2. CASE UNCHANGED vars
    BY <2>2 DEF vars, Link!linkVars, LinkState, Opened, InData, ErrorReturned, OwedErrors,
         RaisedErrors
  <2> QED BY <1>1, <2>1, <2>2
<1>2. IInv /\ [Next]_vars => [Link!LinkNext]_(Link!linkVars)
  BY <1>1
<1> QED BY Invariance, LinkStarts, <1>2, PTL DEF Spec, Link!LinkSpec
==============================================================================
