# A formal model of rttsh

rttsh is a command-line host for SEGGER J-Link RTT: a terminal (`monitor`), a
one-shot sender (`send`), a Lua script runner (`script`), an MCP server over
stdio (`mcp`) and flash commands, in C# with four Rust libraries.  This
directory holds TLA+ modules for the concurrent core of it, TLC runs that
check them on small instances, and TLAPS proofs for every value of the
constants.  Paths are relative to the repository; `JLinkRttTransport.cs:181`
means that file in `src/RttSh`.

## 1. The system

| Component | State it keeps | Operations | Talks to |
|---|---|---|---|
| `JLinkRttTransport` with `JLinkConnection` | `_nativeLock`, `_open`, `_scriptHalted`, `_pollThread`; the DLL session behind it; locals of the poll loop and of `Write` | `Open`, `Close`, `Dispose`, `Write`, `Halt`/`Resume`, memory access; the poll thread | calls the J-Link DLL under the lock; calls back `DataReceived`, `Error` on the poll thread |
| `ScriptRuntime` | `_inbox`, `_pending`, `_scanPos`, `_cancelRequested`, `_linkError`, two semaphores | `Send`, `Wait`, `ReadAvailable`, `Expect`, `ExpectAny`, `ExpectAbsent`, `Sleep`, `Flush`, memory and run control; `OnData`, `OnLinkError`, `RequestCancel` | subscribes to the transport's events, called by Lua and by the MCP tools |
| `McpToolHost`, `McpNativeSession`, `McpServerSession` | `_transport`, `_runtime`, `_lock`, `_config`; the dispatch gate, `_stopped`, the registry; `done` | eight tools, `Stop`, `Dispose`, two pumps | called by the Rust server's blocking threads, drives a transport and a runtime |
| `rttsh-mcp` (Rust) with the pump threads of `McpServerSession` | the session registry, the inbound channel (64), the outbound queue and its condition variable | `start`, `stop`, `feed`, `drain`, `wait`, dispatch | the pumps call it, it calls the tool host back |
| `TargetLock` | an OS file handle, a PID note | `TryAcquire`, `Dispose`, `ReadHolderPid` | other rttsh processes |
| Sessions: `MonitorSession`, `SendOnce`, `ScriptSession` | exit code, `done`, the console lock | one `Run` each; an input or script thread; the handlers of `SessionSupport.WireEvents` | own a lock, a transport, a renderer or a runtime |
| Lua host | the interpreter, the matcher | run a script, find a pattern | calls `ScriptRuntime` |
| Monitor terminal | edit line, history, history file, scroll region | key handling, load/save | reads the console |
| Flash | none between calls | download, erase | `JLinkConnection` directly |
| ELF, SVD, configuration, codecs | none: pure functions of files and flags | parse, look up, repair, merge, encode | called by the sessions |
| Command line, help, generated and DLL bindings | none | parsing and printing | - |
| STM32 example (`examples/stm32`) | none of the program's | firmware to try the tool on, with the vendor's HAL | - |

Where the behaviour is hard:

* **Transport.**  The poll thread may close the link itself (read error, a
  subscriber's exception, a stalled core) while the owner closes it, a worker
  sleeps inside `Write` with the lock held, or a script halts the core.  It is
  correct when one thread polls, a session is torn down once, `Write` never
  loses the link under it, `Error` is raised at most once and only by a link
  that closed itself, nothing is delivered after `Close`, a core halted by a
  script is not left halted, and `Close` returns.
* **Script runtime.**  Nothing is locked: chunks, failure and cancellation
  arrive between any two steps of the pump.  It is correct when output is
  handed out in order and once, positions stay inside the buffer over
  compaction, a timeout or an absence is reported only when time ran out,
  and every waiting operation wakes.
* **MCP.**  Tool calls run on pool threads behind one gate; shutdown gives
  them two seconds and then disposes the host under them.  It is correct when
  there is one link at most, opened and closed under the target's lock, and
  when shutdown ends whatever the calls do.
* **MCP pumps.**  Two threads carry bytes between the console and an
  asynchronous service, over a bounded channel one way and a queue with a
  condition variable the other way; either may be stopped at any point.  They
  are correct when bytes leave in order and once, no push is slept through,
  the final drain writes what was answered before the end, and a blocked
  `feed` does not keep the process.
* **Sessions.**  Link failure, Ctrl+Break, end of input and failed writes all
  converge on one exit code and one shutdown order.  They are correct when
  the target's lock covers the link on every way out, a failure is told by
  the exit code, what a handler uses outlives the handler, and the session
  ends.
* **Processes.**  Instances race for one lock file per target and share one
  input history; a process may die at any point.  It is correct when a target
  has one holder, a refusal means that there is one, and no half history is
  ever loaded.

`PROJECT.json` lists the hazards at the lines where they bite, with the
properties that cover each.

## 2. The modules

| Module | What it is |
|---|---|
| `RttLink` | abstract: the `IRttTransport` contract |
| `RttTransport` | `JLinkRttTransport` and the parts of `JLinkConnection` it drives |
| `RttTransportProofs` | theorems about `RttTransport` |
| `RxStream` | abstract: what a script is promised about the received stream |
| `ScriptRuntime` | `ScriptRuntime`, its operations and its event side |
| `MCScriptRuntime` | patterns for TLC |
| `SequenceLemmas` | lemmas about cutting sequences, used by the proofs |
| `ScriptRuntimeProofs` | theorems about `ScriptRuntime` |
| `McpHost` | `McpToolHost`, the dispatch gate, the target lock it holds, shutdown |
| `McpHostProofs` | theorems about `McpHost` |
| `BytePipe` | abstract: what one direction of the MCP stream promises |
| `McpPumps` | the pump threads, the Rust session, its channel and queue |
| `McpPumpsProofs` | theorems about the state of `McpPumps` |
| `McpPipesProofs` | that `McpPumps` implements `BytePipe` in both directions |
| `Sessions` | one run of `monitor`, `send` or `script`: its three threads |
| `SessionsProofs` | theorems about `Sessions` |
| `Instances` | processes that share lock files and an input history |
| `HeldTarget` | abstract: what the target's lock promises for one target |
| `InstancesProofs` | theorems about `Instances` |

The modules meet at their abstractions and not in one composed state space: a
link that opens, closes and fails by itself in `Sessions` and `McpHost` is
coarser than `RttTransport`: `RttTransport` implements `RttLink`, and what
`Sessions` does with its link is proved to be an `RttLink` too.  The lock that
`McpHost` takes from and leaves to other processes is a `HeldTarget`, which
`Instances` implements with lock files; both are proved.  A call that runs in
`McpPumps` is a call of `McpHost`, whose console tools are operations of
`ScriptRuntime`.

Definitions marked *Slip* in the modules are plausible mistakes in the same
code (a dropped guard, a swapped order).  No specification uses them; each
property is known to fail when the definition beside it is replaced.

### RttTransport

| Model | Code |
|---|---|
| `nativeLock` | `_nativeLock`, where it is kept over several steps (`Open`, a `Write`, the stalled-core failure) |
| `open`, `scriptHalted`, `opens` | `_open`, `_scriptHalted`, the session `_pollThread` belongs to |
| `poll[g]` | the place of session g's thread in `PollLoop` and `FailLink` |
| `owner`, `resumeOwed` | the place in `Open`/`Close`/`Dispose`, `Close`'s captured flag |
| `left`, `budget` | `Write`'s rest of the payload and its deadline without progress |
| `dll`, `connected` | how far the DLL is open, and `JLinkConnection._open` |
| `probe`, `core`, `up` | the probe, the core and the up-buffer as the code uses them |
| `teardowns`, `ended` | history |

A section that takes the lock and leaves it without sleeping or calling back
is one action, enabled while the lock is free.  `Open` keeps the lock over three
steps that may each throw: the DLL opens (`OpenBegins`), the target is connected
and `JLinkConnection._open` set (`OpenConnects`), RTT starts and with it the
session (`OpenSucceeds`).  What throws before the connection is set is cleaned up
by the `catch` inside `JLinkConnection.Open` (`ConnectFails`), what throws after
it by the one in the transport's `Open` (`StartFails`); `JLinkConnection.Close`
(`ConnectionCloses`) does nothing unless `_open` is set, so neither `catch` can
do the other's work.  `Close` is three steps: the first section, `Join`, the
second.  `FailLink` on the read path raises `Error` after
its section; on the stalled path it runs inside one, so `Error` is raised with
the lock held (`CheckStalled`, `ErrorHandled`).  A native read may fail on a
live probe and must fail on a lost one; `DataReceived` may throw.  Only one
owner calls `Open` and `Close`, as `IRttTransport.cs:3-6` demands and as every
caller does.

### ScriptRuntime

| Model | Code |
|---|---|
| `inbox`, `pending`, `scanPos` | `_inbox`, `_pending`, `_scanPos` |
| `cancelRequested`, `linkError`, `late` | the flags and the watchdog |
| `dataSignal`, `cancelSignal` | the semaphores' wait handles; nobody takes a release, so they only become true |
| `pc`, `op`, `pats`, `before`, `timeLeft`, `wakeAt` | the script thread inside an operation and its locals |
| `outcome`, `text` | what the last operation returned or threw |
| `eventThread`, `canceller` | between the two statements of an event |
| `received`, `asked` | history |

A chunk is one symbol and a pattern is a literal run of symbols; patterns
that span chunks are included.  `pc` walks `ingest` (the drain of
`ReadAvailable`, `Flush`), `drain`, the test of `done()`, `check` (flags and
clock), `wait` (`WaitAny`), `finish` (the operation's tail).  `Wide` is the
set of symbols whose UTF-8 form has two bytes: `LuaNative.FindEnd` returns an
offset in UTF-8 bytes which the runtime uses as an index of chars.  With the
built-in literal matcher (MCP) or with ASCII output, `Wide = {}`.

### McpHost

| Model | Code |
|---|---|
| `transport`, `runtime` | `_transport` (with `_config`, set and cleared with it), `_runtime`: the number of a link, 0 for null |
| `made`, `link` | the transports constructed so far and what each is doing |
| `holder` | who has the lock file open; `ours` is `_lock`, `leaked` a handle no `TargetLock` owns |
| `gate` | `_dispatchGate` |
| `place`, `tool`, `reply` | a blocking thread of the Rust runtime: where its call is, what it asks for, how it was answered |
| `main`, `graceOver` | the main thread in `McpServerSession.Run`; the native stop gave up waiting |

Inside the gate a call is split where something else may happen in between:
around `Open`, around `Close`, during a tool's wait.  `Dispose` runs without
the gate, so its steps interleave with a call that outlasted the grace
period.  A link is one value here; what `Open` and `Close` do inside is
`RttTransport`'s subject, as what the console tools do is `ScriptRuntime`'s.
`TryAcquire` has its three ends: held, cannot create, and an exception from
writing the note with the file already open.

### McpPumps

| Model | Code |
|---|---|
| `sent`, `closed`, `input` | the client and the console's stdin |
| `stdin`, `chunk` | the stdin pump of `McpServerSession` inside its loop and `Feed`; its buffer |
| `inbound` | the channel behind `inbound_tx` (64 chunks; `Channel`) |
| `service`, `leftover`, `accepted`, `running` | the serving task, `InboundStream`, the calls on blocking threads |
| `outbound`, `notified` | `Outbound`'s queue and condition variable |
| `stdout`, `last`, `buffer`, `written` | the stdout pump: `Wait`, `Drain`, `DrainToEmpty`, its buffer |
| `done` | the event `Run` waits for |
| `session` | the native session: running, `_stopped` set, out of the registry |
| `main` | `Run`: waiting, joining, `Stop`, the native stop's grace period |
| `owed` | history: units pushed when `done` was set |

A chunk carries one request and an answer is a frame of two units, so that a
drain may cut a frame.  `Feed` is split between its registry lookup and its
blocking send, `Wait` between the look at the queue (mutex held) and the sleep:
these are the windows the code has.  The service may stop reading, run calls
side by side, or end by itself; it is the `rmcp` crate's and external.

### Sessions

| Model | Code |
|---|---|
| `kind` | `monitor` with and without the TUI, `send`, `script` |
| `main`, `result` | the main thread from `TargetLock.TryAcquire` to the return of `Run` |
| `worker`, `sends` | the input thread (`ConsoleInput`, `SendInputLine`) or the script thread |
| `poll`, `stalled` | the transport's poll thread in `DataReceived` and `Error`; it holds the native lock there |
| `guard` | the `TargetLock` |
| `link` | the transport, as `RttLink` abstracts it |
| `output` | the renderer and the TUI |
| `done`, `code` | `done`, `exitCode.Value` |
| `woken` | history: who set `done` first while main had still to wake |

Whoever is in a place in which the code holds `ConsoleLock` or the native lock
holds it: `ConsoleFree` and `NativeFree` say so.  C#'s `using` declarations
appear as the order of `DisposesOutput`, `Close` and `Unlocks`; `send` returns
from its `catch` with the renderer disposed before the transport.

### Instances

| Model | Code |
|---|---|
| `target`, `at` | the target a process is started for, and where it is |
| `handle` | its handle on the lock file: the lock itself, or the reader of the note |
| `note`, `told` | the PID in the lock file, and whom a refused process names |
| `name` | the temporary name a process has made with `Guid.NewGuid` |
| `temp` | by name: whose history the temporary file holds, `Torn` where it is written in part |
| `file`, `loaded` | what the history file holds, what was loaded at start |

`CanOpen` is the sharing rule of the file system, applied to the access and share
modes that `TargetLock.cs` passes: an open succeeds when its access is among what
every open handle shares, and theirs among what it shares.  `Dies` may happen
in every place; it closes the handle and leaves note and files as they are.  A
save creates the temporary file under its name (`Torn`), writes it to the end and
moves it; the move takes whatever the file of that name holds then and needs
that nobody is writing it.  A process that fails or dies within a save leaves a
file that is `Torn`.  A new GUID is a name that no process has made (`NewGuid`).

## 3. The runs

| Run | Question | Bounds, distinct states |
|---|---|---|
| `transport` | Is nothing torn down under a `Write` or twice, is `Close` quiet, does it give the core back, is no stall false; is the link's contract implemented; does `Close` return, does a fault surface, does `Write` end? | two workers, two sessions, 2 units a payload; 60,836 |
| `transport_core_released` | violated: a core may stay halted after the link fails by itself | one worker, one session |
| `script_safety` | Positions, honest timeouts and absences, complete flush, the stream contract | two symbols, patterns `a` and `ab`, two chunks, compaction at two, one slice; 122,763 |
| `script_live` | Does every operation return as time passes, and do cancellation, failure and a match wake it while the clock stands still? | `b` wide, pattern `ab`, two chunks, two slices; 197,381 |
| `script_wide` | violated: the match end is miscounted on non-ASCII output | three chunks |
| `mcp` | One link, lock around every use of the probe, runtime and lock follow the session, clean shutdown; does shutdown end, and is every call answered if the tools return? | two calls, two connects, a rival instance; 136,007 |
| `mcp_closes` | violated: a late `connect` survives `Dispose` | as `mcp` |
| `pumps` | Are both directions pipes, does the final drain write what it owes, does output leave without the poll period, does the process end? | three requests, channel of one, drains of three units; 227,502 |
| `pumps_eof` | violated: the end of the service is not seen | two requests |
| `sessions` | Does the lock cover the link, is a failure told, does the renderer outlive the last batch, does the session end? | all four commands, two payloads; 3,946 |
| `sessions_ui` | violated: the UI is torn down under the `Error` handler | TUI, one payload |
| `instances` | One holder, real refusals, whole histories, with deaths | three processes, two targets, three names; 543,852 |

The bounds are small where more adds nothing new: two workers give a writer
and a halter, or two writers contending; two sessions give a re-`Open` while
the first session's thread is still in its `Error` handlers; two chunks with
compaction at two give a compaction, a chunk in the inbox behind a drained one,
and a match that spans chunks; `a` and `ab` give a match that completes earlier
than another.  Two tool calls give one inside the gate and one waiting, and two
connects a session after a failed or closed one.  A channel of one is full as
soon as a request waits in it, and three requests give one in the channel, one
in a blocked `Feed` and one unread; a drain of three units cuts the second of
two frames.  Three processes give a holder, one that reads the note, and one
that tries to open while both are there; two targets show that they do not
disturb each other, and three names give each of them one of its own.

Deadlock is not checked where the system really stops: the transport after
`Dispose`, the pumps and the sessions when the process has gone, the instances
when all have ended.

**Fairness.**  The poll thread, `Write` and `Close` are ordinary threads that
keep running once started, and subscribers return.  The poll thread competes
with writers for the lock and gets it eventually (strong fairness): a writer
leaves the lock between calls and a released monitor wakes the thread that
waits.  In `script_live` the script thread and the events keep running;
only `CallEnds` also assumes that time passes, `WaiterWakes` must not need it.
In `mcp` only the main thread is fair: `shutdown_timeout` bounds its wait,
whatever the calls do.  `CallsAnswered` assumes in addition that tools return
and that the gate is handed on, and says so in its formula.  In `pumps` the two
pump threads and the main thread keep running and the client keeps reading;
nothing is assumed of the service and its calls, and the clock is assumed only
by `SessionEnds`, not by `OutputLeaves`.  In `sessions` every thread goes on with
what it has begun, a `Write` ends (which `transport` shows), and the main thread
gets the native lock although the worker may send again and again.  Nothing is
assumed to make the owner close, the user type or cancel, the target print or
the link fail.  `instances` has no liveness: every process may die.

## 4. What is proved

TLAPS proves these for every value of the constants (any number of workers,
sessions, symbols, patterns, calls, requests, processes, any threshold and
capacity).  Each rests on an invariant that is stronger than the property and
inductive; the proofs go action by action.

* **Transport.**  `IInv == TypeOK /\ Safety /\ Bookkeeping` is inductive.
  `Safety` alone is not: that `Close` tears down once, for example, needs to
  know that the poll thread of a session being closed is the current one and
  that a session that failed is not open, which is what `Bookkeeping` says of
  owner, sessions and threads.  From it: `TypeCorrect`, `WriteSafe`,
  `PollerUnique`, `TornDownOnce`, `CloseIsQuiet`, `CloseReleases`,
  `StallIsGenuine` (an action property) and `ImplementsContract`, which maps
  every step of `RttTransport` to a step or a stutter of `RttLink`; further
  `LockAccounted` and `HaltRemembered`, the parts of `Safety` that speak of
  `_nativeLock` and of the halted core, and `DllFollowsConnection`.  A half-open
  DLL exists only inside `Open`: opened without a connection, or connected
  without RTT.  The theorem says that the DLL, `_open` of the connection and
  `_open` of the transport agree at every step, whichever of them throws; without
  the inner `catch` the DLL stays open behind a connection that counts as closed,
  and no later `Close` reaches it.  `JoinIsUnblocked`,
  `JoinComesNearer` and `WriteComesNearer` are the safety core of
  `CloseCompletes` and `WriteEnds`: while `Close` joins nobody keeps the lock
  from the thread it waits for, at most three steps of that thread remain, and a
  `Write` only ever spends its payload and its budget.
* **Script runtime.**  `TypeCorrect` holds unconditionally.  `PositionsStay`
  and `StreamImplemented` assume `Wide = {}`: with a matcher that miscounts,
  `ExpectAny` leaves `_scanPos` past the buffer, and the run `script_wide` shows
  what follows.  `StreamImplemented` is a refinement of `RxStream` under the
  map "what is unread is the buffer past `_scanPos` followed by the inbox";
  `SequenceLemmas` says what draining, consuming and tapping do to that
  sequence.  `AbsenceIsReal`, `TimeoutsArePure` and `FlushTakesAll` are action
  properties of the moment an operation returns; they follow from `CallInv`,
  which says for each place of the pump what has been drained since the call
  began and which pattern cannot have occurred.  They need no assumption about
  the matcher.  With `Wide = {}` again, `EarliestHitTaken` says what `expect` and
  `expect_any` return in terms of the stream alone (everything up to the first
  position at which a pattern is complete, over chunks, inbox and compactions),
  `NothingFaults` that nothing is cut outside the buffer, and
  `LiteralMatchIsTaken` that the property which `script_wide` refutes fails for
  wide output only.  `NoSignalMissed` and `OperationsAdvance` are the safety core
  of `WaiterWakes` and `CallEnds`: a flag that is set has its signal or a thread
  about to give it, and an operation that must end goes through its stages
  downwards, a received chunk apart.
* **MCP host.**  `IInv == TypeOK /\ Bookkeeping` is inductive; the
  properties speak of the moments between calls and follow from it.
  `SessionState`, its main part, says for every place inside `Connect`,
  `Disconnect` and `Dispose` what transport, runtime, links and lock are.
  From it: `TypeCorrect`, `ProbeCovered`, `SingleLink`, `SessionIsWhole` and
  `ShutdownClean`, for any number of calls and connects, while no call has been
  cut off by the grace period.  What happens after that is the run `mcp_closes`.
  Three hold with no such condition: `OneCallInside` (the gate is held exactly
  while its holder is inside a tool), `SessionGated` (an action property: what the
  host knows of its session changes inside the gate or in `Dispose`) and
  `HostKeepsLockContract`, the refinement of `HeldTarget`.
* **MCP pumps.**  `TypeCorrect`, with the bound on the inbound channel, and
  `DrainsWhatItOwes`.  The strengthening `Tally` counts: what was pushed by the
  time `done` was set is written, in the pump's buffer or in the queue, as long
  as the pump has not failed, and outside `Write` the buffer is empty.
  `PipesImplemented` is the refinement of `BytePipe`, for requests and for
  answers.  It needs to know that a frame which enters has not been in the pipe
  before, which `OnceOnTheWay` (a request is in one place of the way in) and
  `AnsweredOnce` (no unit of a running call's answer has been pushed) say, and
  that a pump which has handed its chunk on holds none (`NothingHeld`).
  `RequestsInOrder` and `AnswersWhole` say end to end what two pipes leave open:
  the k-th request served is the k-th sent, and the client reads whole frames,
  each once, each for a request that was served.  `NoLostWakeup` (no
  notification is lost between the queue and the sleeping pump),
  `ShutdownNeverStuck` and `ShutdownAdvances` (at most five steps of the main
  thread remain, and nothing adds to them) are the safety core of `OutputLeaves`
  and `SessionEnds`.
* **Sessions.**  `LinkCovered`, `FailureTold`, `RendererLast`, for every set of
  commands.  The invariant has four parts: `LinkPlaces` (where main is while the
  link is in each of its states), `PollPlaces` (where the poll thread is then),
  `CodeTells` (the exit code is set before `done` is, by whoever sets it) and
  `Endings` (what has been disposed when there is a result).  `UiAfterPoll` is
  what remains of the refuted `UiTornDownLast`.  `NobodyWaitsInACircle` defines
  who waits for whom over the native lock, the console lock and the two joins,
  and shows that no thread waits for itself, directly or through others; it needs
  in addition that the native lock has one holder (`OneNative`).  `SessionLink`
  is the refinement of `RttLink`.
* **Instances.**  `HolderUnique`, `HistoryNeverTorn` and `RefusalGenuine` (an
  action property) for any number of processes and targets.  `HandleFits`
  relates the handle of a process to its place; that two lock handles exclude
  each other comes from the sharing rule (`LockExcludes`).
  `LockImplementsHeld` is the refinement of `HeldTarget`, target by target.
  `HistoryNeverTorn` needs that two processes never have the same temporary name
  (`NamesDiffer`), so that the file a process moves is the one it has written to
  the end (`TempFits`); with one name for all, a process moves what another has
  only begun to write.
  `WarningTrue` and `HistoryIsASave` say what processes leave to each other: the
  PID in the warning is that of one that had the lock of the same target, and a
  loaded history is one that was written to the end and moved.  Where a process
  has been is gone from the state once it ends, so these two are stated of
  `HistSpec`, which is `Spec` with two history variables that no step reads.

The assumptions are those on the constants, named in the modules that declare
them and evaluated by TLC in every run.

Only model-checked: the liveness properties (`CloseCompletes`, `FaultsSurface`,
`WriteEnds`, `CallEnds`, `WaiterWakes`, `CallsAnswered`, `ShutdownEnds`,
`OutputLeaves` and `SessionEnds` of `McpPumps` and of `Sessions`), because liveness
under fairness is out of the prover's reach.  The theorems called their safety
core bound how many steps remain and say that nobody stands in the way; that a
step which can be taken is taken is what the fair runs check.

## 5. Disagreements

The runs marked *violated* show where the code does not do what its own words
say; `PROJECT.json` quotes the lines on both sides.

* A core halted by a script stays halted when the link fails by itself
  (`transport_core_released`).
* The end of a Lua match is counted in UTF-8 bytes and used as an index of
  chars (`script_wide`).
* A `connect` that outlasts the grace period opens its link and keeps its
  lock behind the disposed host, until the process ends (`mcp_closes`).
* When the MCP service ends by itself the client sees no end of file until it
  writes again (`pumps_eof`).
* `Close` returns without joining a poll thread that is still in its `Error`
  handlers, so the monitor may tear its UI down under them (`sessions_ui`).

Smaller ones, read off the models and not given a run:

* A chunk followed at once by the failure of the link is not scanned: the pump
  drains, tests and only then looks at the flags, and both may arrive after the
  test (`ScriptRuntime.cs:467-469`, against its line 15).
* Most operations look at a cancellation only while they pump, so a script that
  calls none of those is not stopped by Ctrl+C (`ScriptSession.cs:11`).
* Nobody takes the releases of the data semaphore, so once anything has been
  received the pump no longer sleeps until its timeout (`ScriptRuntime.cs:461`,
  "Wakes on data or cancel signals").
* The halted flag of a link that failed by itself survives into the next `Open`
  of the same transport, which does not clear it (`JLinkRttTransport.cs:33,183`):
  the stalled-core check would stay off, and `Close` would resume a core that
  this session has not halted.  Today every owner makes a new transport.
* A `send` whose `Write` throws disposes `done` and the renderer before the
  transport (`SendOnce.cs:21-23`), so that the poll thread may still render: with
  `--log` it appends to a closed file, the link fails on that exception, and the
  `Error` handler reports a second failure after the exit code is decided.
* `Wait` returns output delivered but not drained before the call
  (`ScriptRuntime.cs:107`, against its line 14).
* `get_status` says connected after the link has closed itself
  (`McpToolHost.cs:162`); `Connect` reports a lock file that cannot be created
  as held by another rttsh (`McpToolHost.cs:114`, against `TargetLock.cs:24`).
* `InputHistory.cs:6-9` says the history is read back after a hand-off from the
  input thread; after a link failure the main thread saves it while that thread
  may still be in its loop (`MonitorSession.cs:133-135`).
* `TuiHistoryFile.cs:6` says the history is rewritten on every exit path; an
  `Open` that fails and a process that dies do not get there.
* `OpenOrReport` writes to stderr also when a TUI is active
  (`SessionSupport.cs:76`, against "The split must never be bypassed" above
  `WriteSessionLine`).
* The final drain (`McpServerSession.cs:66-71`) keeps an answer that was pushed
  before the end of input; the answer to a last request that is still running
  then is lost, though the comment promises it.
* Between the open of the lock file and its truncation the note names the
  previous holder, and a process refused at that moment reports that PID
  (`TargetLock.cs:36-51`).
* Calls run side by side on blocking threads, so requests sent back to back may
  reach the gate in another order (`server.rs:124`).

## 6. Not modelled

* **Reads and writes of target memory, flash, ELF, SVD, configuration, codecs.**
  One thread and one pass each, without state between calls: a model would
  restate the sequence of calls or the parse, and the unit tests tabulate the
  data.  `Flash` is decided by the vendor's return codes from step to step.
* **Line editor and drawing** of the monitor: sequential text handling on the
  input thread.  Its history file and its locks are in `Instances` and
  `Sessions`.
* **Lua host**: an adapter around the interpreter; what its matcher returns is in
  `ScriptRuntime`.
* **Command line, help, generated bindings, DLL binding, example firmware**: no
  behaviour of the program beyond text and calls.
* **One composed state space** of transport, runtime, session and host.  Each
  pair meets at an abstraction that one side implements (section 2); the product
  of the detailed modules is beyond TLC, and its interesting interleavings are
  those at the abstraction.
* **The 2^31 releases** after which a semaphore nobody waits on overflows
  (`ScriptRuntime.cs:42`), and the tearing of a `List` shared without a lock.
