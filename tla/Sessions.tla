------------------------------ MODULE Sessions ------------------------------
(***************************************************************************)
(* One run of a command that holds a link: monitor with the TUI, monitor   *)
(* with redirected input, send and script.  Three threads meet in it:      *)
(*   - the main thread, which takes the target's lock, opens the link,     *)
(*     waits for done, closes the link and leaves through its using        *)
(*     declarations and finally block;                                     *)
(*   - the poll thread of the transport, which runs the handlers that      *)
(*     SessionSupport.WireEvents and the renderer subscribe;               *)
(*   - the worker: the input thread of a monitor, or the script thread.    *)
(* They share done, the exit code, the console lock and the transport's    *)
(* native lock.  A lock is held by whoever is in one of its places.        *)
(* RttTransport is the link in detail; here it is open, closed by Close,   *)
(* or failed by itself.  What a script does is ScriptRuntime's subject.    *)
(***************************************************************************)
EXTENDS Naturals

CONSTANTS
  Kinds,     \* the commands to run: a subset of AllKinds
  MaxSends   \* bound: payloads the worker sends

AllKinds == {"tui", "piped", "send", "script"}

ASSUME SessionsAssumption == Kinds \subseteq AllKinds /\ MaxSends \in Nat

VARIABLES
  kind,      \* the command
  main,      \* where the main thread is
  worker,    \* where the input or script thread is
  poll,      \* where the poll thread is
  stalled,   \* it failed the link inside the halt check: it has the native lock
  sends,     \* payloads the worker has sent
  guard,     \* this process holds the target's lock
  link,      \* "none", "open", "closing", "closed" or "failed"
  output,    \* the renderer and the TUI: "live" or "disposed"
  done,      \* done is set
  code,      \* exitCode.Value
  result,    \* what Run returns: "none" yet, "ok" (0) or "failed" (1)
  woken      \* history: who set done first while main had still to wake

threadVars == <<kind, sends, guard, output>>
vars == <<kind, main, worker, poll, stalled, sends, guard, link, output, done, code,
          result, woken>>

Handling == {"printing", "coding", "signalling"}

\* Places before main has left its wait.
BeforeWake == {"start", "opening", "sending", "writing", "waiting"}

TypeOK ==
  /\ kind \in Kinds
  /\ main \in BeforeWake \union
       {"closing", "joining", "tearing", "finishing", "unwinding", "disposing",
        "unlocking", "exited"}
  /\ worker \in {"unborn", "reading", "sending", "writing", "complaining", "failing",
                 "lingering", "finishing", "ended"}
  /\ poll \in {"unborn", "polling", "delivering", "rendering", "failing", "ended"} \union Handling
  /\ stalled \in BOOLEAN /\ (stalled => poll \in Handling)
  /\ sends \in 0 .. MaxSends
  /\ guard \in BOOLEAN /\ done \in BOOLEAN
  /\ link \in {"none", "open", "closing", "closed", "failed"}
  /\ output \in {"live", "disposed"}
  /\ code \in {"ok", "failed"} /\ result \in {"none", "ok", "failed"}
  /\ woken \in {"nobody", "break", "error", "write", "input", "script"}

Init ==
  /\ kind \in Kinds
  /\ main = "start" /\ worker = "unborn" /\ poll = "unborn"
  /\ stalled = FALSE /\ sends = 0
  /\ guard = FALSE /\ link = "none" /\ output = "live"
  /\ done = FALSE /\ woken = "nobody"
  /\ code = IF kind = "script" THEN "failed" ELSE "ok"
  /\ result = "none"

\* _nativeLock is kept over a Write and over the Error of a stalled core.
NativeFree == worker # "writing" /\ main # "writing" /\ ~stalled

\* Slip: a line is sent with the console lock held.
ConsoleFreeUnlessSending == poll # "rendering" /\ worker \notin {"sending", "writing"}

\* ConsoleLock is kept over the rendering of a batch.
ConsoleFree == poll # "rendering"

DoneSet(by) ==
  /\ done' = TRUE
  /\ woken' = IF woken = "nobody" /\ main \in BeforeWake THEN by ELSE woken

------------------------------------------------------------------------------
(* The main thread.                                                        *)

MainGoes(from, to) ==
  /\ main = from
  /\ main' = to

Acquires ==
  /\ MainGoes("start", "opening")
  /\ guard' = TRUE
  /\ UNCHANGED <<kind, worker, poll, stalled, sends, link, output, done, code, result, woken>>

\* AcquireExclusive returns null.
AcquireRefused ==
  /\ MainGoes("start", "exited")
  /\ result' = "failed"
  /\ UNCHANGED <<threadVars, worker, poll, stalled, link, done, code, woken>>

\* transport.Open; the worker's thread is started, send writes by itself.
Opens ==
  /\ MainGoes("opening", IF kind = "send" THEN "sending" ELSE "waiting")
  /\ link' = "open"
  /\ poll' = "polling"
  /\ worker' = IF kind = "send" THEN worker ELSE "reading"
  /\ UNCHANGED <<threadVars, stalled, done, code, result, woken>>

OpenFails ==
  /\ MainGoes("opening", "unwinding")
  /\ result' = "failed"
  /\ UNCHANGED <<threadVars, worker, poll, stalled, link, done, code, woken>>

\* send: Write on the main thread, with its retry loop under the native lock.
MainWrites ==
  /\ NativeFree /\ link = "open"
  /\ MainGoes("sending", "writing")
  /\ UNCHANGED <<threadVars, worker, poll, stalled, link, done, code, result, woken>>

MainWritten ==
  /\ MainGoes("writing", "waiting")
  /\ UNCHANGED <<threadVars, worker, poll, stalled, link, done, code, result, woken>>

\* send returns 1 out of its catch block: the transport is closed by Dispose,
\* after the renderer.
MainWriteFails ==
  /\ \/ main = "writing"
     \/ main = "sending" /\ NativeFree /\ link # "open"
  /\ main' = "unwinding"
  /\ result' = "failed"
  /\ UNCHANGED <<threadVars, worker, poll, stalled, link, done, code, woken>>

\* done.Wait returns; send's ends with the reply window as well.
Wakes ==
  /\ done \/ kind = "send"
  /\ MainGoes("waiting", "closing")
  /\ UNCHANGED <<threadVars, worker, poll, stalled, link, done, code, result, woken>>

\* After Close; Dispose closes too, and then there is a result already.
Onward == IF result = "none" THEN "finishing" ELSE "unlocking"

\* Close, or Dispose's Close, on an open link: its first section.
CloseBegins ==
  /\ main \in {"closing", "disposing"}
  /\ NativeFree /\ link = "open"
  /\ link' = "closing"
  /\ main' = "joining"
  /\ UNCHANGED <<threadVars, worker, poll, stalled, done, code, result, woken>>

\* Close returns at once when the link has failed by itself.
CloseSkips ==
  /\ main \in {"closing", "disposing"}
  /\ NativeFree /\ link # "open"
  /\ main' = Onward
  /\ UNCHANGED <<threadVars, worker, poll, stalled, link, done, code, result, woken>>

\* Slip: Close does not wait for the poll thread.
CloseJoinsAtOnce ==
  /\ MainGoes("joining", "tearing")
  /\ UNCHANGED <<threadVars, worker, poll, stalled, link, done, code, result, woken>>

CloseJoins ==
  /\ poll = "ended"
  /\ MainGoes("joining", "tearing")
  /\ UNCHANGED <<threadVars, worker, poll, stalled, link, done, code, result, woken>>

CloseTearsDown ==
  /\ NativeFree
  /\ MainGoes("tearing", Onward)
  /\ link' = "closed"
  /\ UNCHANGED <<threadVars, worker, poll, stalled, done, code, result, woken>>

\* script joins its thread; then Run reads the exit code.
Returns ==
  /\ kind = "script" => worker = "ended"
  /\ MainGoes("finishing", "unwinding")
  /\ result' = code
  /\ UNCHANGED <<threadVars, worker, poll, stalled, link, done, code, woken>>

\* Slip: the lock is declared after the transport, so it goes first.
DisposesOutputAndGuard ==
  /\ ConsoleFree
  /\ MainGoes("unwinding", "disposing")
  /\ output' = "disposed" /\ guard' = FALSE
  /\ UNCHANGED <<kind, sends, worker, poll, stalled, link, done, code, result, woken>>

\* Renderer, then the monitor's finally block; script has neither.
DisposesOutput ==
  /\ ConsoleFree
  /\ MainGoes("unwinding", "disposing")
  /\ output' = "disposed"
  /\ UNCHANGED <<kind, sends, guard, worker, poll, stalled, link, done, code, result, woken>>

Unlocks ==
  /\ MainGoes("unlocking", "exited")
  /\ guard' = FALSE
  /\ UNCHANGED <<kind, sends, output, worker, poll, stalled, link, done, code, result, woken>>

MainStep ==
  \/ Acquires \/ AcquireRefused \/ Opens \/ OpenFails
  \/ MainWrites \/ MainWritten \/ MainWriteFails \/ Wakes
  \/ CloseBegins \/ CloseSkips \/ CloseJoins \/ CloseTearsDown
  \/ Returns \/ DisposesOutput \/ Unlocks

\* Ctrl+Break; a script's own handler only asks the script to stop.
CancelKeyPress ==
  /\ kind # "script" /\ main \notin {"start", "exited"} /\ ~done
  /\ DoneSet("break")
  /\ UNCHANGED <<threadVars, main, worker, poll, stalled, link, code, result>>

------------------------------------------------------------------------------
(* The worker.                                                             *)

\* A background thread ends with the main thread.
WorkerGoes(from, to) ==
  /\ main # "exited"
  /\ worker = from
  /\ worker' = to
  /\ UNCHANGED <<kind, main, poll, stalled, guard, link, output, result>>

\* A line is there, or the script calls rtt.send.
Reads ==
  /\ sends < MaxSends
  /\ WorkerGoes("reading", "sending")
  /\ sends' = sends + 1
  /\ UNCHANGED <<done, code, woken>>

Writes ==
  /\ NativeFree /\ link = "open"
  /\ WorkerGoes("sending", "writing")
  /\ UNCHANGED <<sends, done, code, woken>>

Written ==
  /\ WorkerGoes("writing", "reading")
  /\ UNCHANGED <<sends, done, code, woken>>

\* Write throws, its retry loop or at its head; a script may catch it.
WriteFails ==
  /\ \/ WorkerGoes("writing", IF kind = "script" THEN "reading" ELSE "complaining")
     \/ /\ NativeFree /\ link # "open"
        /\ WorkerGoes("sending", IF kind = "script" THEN "reading" ELSE "complaining")
  /\ UNCHANGED <<sends, done, code, woken>>

\* SendInputLine reports the failed write and sets the exit code.
Complains ==
  /\ ConsoleFree
  /\ WorkerGoes("complaining", "failing")
  /\ code' = "failed"
  /\ UNCHANGED <<sends, done, woken>>

\* Ctrl+C in the editor or the end of input; piped input leaves the target
\* time to answer unless something has failed.
InputEnds ==
  /\ kind # "script"
  /\ WorkerGoes("reading", IF kind = "piped" /\ code = "ok" THEN "lingering" ELSE "finishing")
  /\ UNCHANGED <<sends, done, code, woken>>

LingerEnds ==
  /\ WorkerGoes("lingering", "finishing")
  /\ UNCHANGED <<sends, done, code, woken>>

\* The script returns, fails or exits: host.Run's result is the exit code.
ScriptEnds ==
  /\ kind = "script"
  /\ WorkerGoes("reading", "finishing")
  /\ code' \in {"ok", "failed"}
  /\ UNCHANGED <<sends, done, woken>>

Finishes ==
  /\ \/ WorkerGoes("failing", "ended") /\ DoneSet("write")
     \/ WorkerGoes("finishing", "ended") /\ DoneSet(IF kind = "script" THEN "script" ELSE "input")
  /\ UNCHANGED <<sends, code>>

WorkerEnds == Written \/ WriteFails \/ Complains \/ Finishes
WorkerStep == Reads \/ Writes \/ InputEnds \/ LingerEnds \/ ScriptEnds \/ WorkerEnds

------------------------------------------------------------------------------
(* The poll thread.                                                        *)

PollGoes(from, to) ==
  /\ main # "exited"
  /\ poll = from
  /\ poll' = to
  /\ UNCHANGED <<threadVars, main, worker, result>>

PollEnds ==
  /\ NativeFree /\ link # "open"
  /\ PollGoes("polling", "ended")
  /\ UNCHANGED <<stalled, link, done, code, woken>>

\* A batch is read.
BatchRead ==
  /\ NativeFree /\ link = "open"
  /\ PollGoes("polling", "delivering")
  /\ UNCHANGED <<stalled, link, done, code, woken>>

\* DataReceived: the renderer takes the console lock.
Renders ==
  /\ ConsoleFree
  /\ PollGoes("delivering", "rendering")
  /\ UNCHANGED <<stalled, link, done, code, woken>>

\* The handler returns, or throws (--log cannot be written, console closed).
Rendered ==
  /\ \/ PollGoes("rendering", "polling")
     \/ PollGoes("rendering", "failing")
  /\ UNCHANGED <<stalled, link, done, code, woken>>

ReadFails ==
  /\ NativeFree /\ link = "open"
  /\ PollGoes("polling", "failing")
  /\ UNCHANGED <<stalled, link, done, code, woken>>

\* The subscriber of Error: script's only tells the runtime.
ErrorPlace == IF kind = "script" THEN "ended" ELSE "printing"

FailLink ==
  /\ NativeFree
  /\ PollGoes("failing", IF link = "open" THEN ErrorPlace ELSE "ended")
  /\ link' = IF link = "open" THEN "failed" ELSE link
  /\ UNCHANGED <<stalled, done, code, woken>>

\* The halt check fails the link and raises Error inside its lock section.
FailStalled ==
  /\ NativeFree /\ link = "open"
  /\ PollGoes("polling", ErrorPlace)
  /\ link' = "failed"
  /\ stalled' = (kind # "script")
  /\ UNCHANGED <<done, code, woken>>

\* The Error handler: a line on the console, the exit code, done.
ErrorPrints ==
  /\ ConsoleFree
  /\ PollGoes("printing", "coding")
  /\ UNCHANGED <<stalled, link, done, code, woken>>

\* Slip: the handler signals without setting the exit code first.
ErrorSignalsFirst ==
  /\ PollGoes("coding", "signalling")
  /\ DoneSet("error")
  /\ UNCHANGED <<stalled, link, code>>

ErrorSetsCode ==
  /\ PollGoes("coding", "signalling")
  /\ code' = "failed"
  /\ UNCHANGED <<stalled, link, done, woken>>

\* Slip: the native lock is not given back.
ErrorSignalsLocked ==
  /\ PollGoes("signalling", "ended")
  /\ DoneSet("error")
  /\ UNCHANGED <<stalled, link, code>>

ErrorSignals ==
  /\ PollGoes("signalling", "ended")
  /\ DoneSet("error")
  /\ stalled' = FALSE
  /\ UNCHANGED <<link, code>>

PollDuty ==
  PollEnds \/ Renders \/ Rendered \/ FailLink \/ ErrorPrints \/ ErrorSetsCode \/ ErrorSignals
PollStep == PollDuty \/ BatchRead \/ ReadFails \/ FailStalled

------------------------------------------------------------------------------
Next == MainStep \/ CancelKeyPress \/ WorkerStep \/ PollStep

Spec == Init /\ [][Next]_vars

(***************************************************************************)
(* Fairness.  Every thread goes on with what it has begun: handlers and    *)
(* renderers return and a Write ends (RttTransport's WriteEnds).  Close    *)
(* contends for the native lock with a worker that may send again and      *)
(* again, and gets it.  Nobody need type, unplug or end a script.          *)
(***************************************************************************)
FairSpec == Spec /\ SF_vars(MainStep) /\ WF_vars(WorkerEnds) /\ SF_vars(PollDuty)

------------------------------------------------------------------------------
(* Safety.                                                                 *)

\* The probe is used only while the target's lock is held, whichever return,
\* catch or using declaration closes the link.
GuardCoversLink == link \in {"open", "closing"} => guard

\* A session that was ended by a failed link or a failed write exits with 1,
\* whatever the other threads were doing.
ExitTellsFailure == main = "exited" /\ woken \in {"error", "write"} => result = "failed"

\* No batch reaches the renderer after its disposal, except in a send whose
\* Write failed: its using declarations dispose the renderer first.
RendererOutlivesPoll ==
  poll = "rendering" /\ output = "disposed" => kind = "send" /\ result = "failed"

------------------------------------------------------------------------------
(* Liveness.                                                               *)

\* A session that was asked to end, or whose link has failed, comes to its
\* end: the handler of a stalled core, which runs with the native lock held,
\* waits for nobody who waits for that lock.
SessionEnds == (done \/ (link = "failed" /\ kind # "script")) ~> main = "exited"

------------------------------------------------------------------------------
(* What a comment says that the code does not do.                          *)

\* "joins the poll thread before the UI is torn down below".
UiTornDownLast == kind = "tui" /\ output = "disposed" => poll \in {"unborn", "ended"}
==============================================================================
