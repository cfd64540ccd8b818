------------------------------- MODULE McpHost --------------------------------
(***************************************************************************)
(* The MCP server's C# side: McpToolHost with the dispatch gate of         *)
(* McpNativeSession and the shutdown of McpServerSession                   *)
(* (src/RttSh/McpToolHost.cs, McpNative.cs, McpServerSession.cs), the      *)
(* target lock they hold (TargetLock.cs) and the grace period of the Rust  *)
(* session (native/rttsh-mcp/src/lib.rs).                                  *)
(*   - Each tool call runs on a blocking thread of the Rust runtime and    *)
(*     enters the host through the gate, one call at a time.               *)
(*   - The main thread waits for the end of input or Ctrl+C, stops the     *)
(*     native session, which waits for calls in flight for a bounded time, *)
(*     and then disposes the host, without the gate.                       *)
(*   - The transport may close itself; another rttsh competes for the      *)
(*     lock of the target.                                                 *)
(* A transport is one link here: what Open and Close do inside is          *)
(* RttTransport's subject.  send, rtt_read, expect and mem_read are one    *)
(* tool, "use": what they do with the runtime is ScriptRuntime's subject.  *)
(* list_devices touches no state.                                          *)
(***************************************************************************)
EXTENDS Naturals

CONSTANTS
  Calls,       \* threads that carry tool calls
  Nobody,      \* the gate is free
  MaxConnects  \* bound: transports made

ASSUME HostAssumption ==
  /\ MaxConnects \in Nat \ {0}
  /\ Nobody \notin Calls

VARIABLES
  gate,       \* who is inside _dispatchGate
  place,      \* where each call is
  tool,       \* the tool each call asks for
  reply,      \* how its last call was answered
  transport,  \* _transport (and _config): the number of a link, 0 for null
  runtime,    \* _runtime: the number of the link it is wired to, 0 for null
  made,       \* transports constructed so far
  link,       \* what each of them is doing
  holder,     \* who has the target's lock file open; "ours" is the handle in _lock
  main,       \* where the main thread is
  graceOver   \* calls were still in flight when the grace period ended

hostVars == <<transport, runtime, made, link, holder>>
callVars == <<gate, place, tool, reply>>
vars == <<gate, place, tool, reply, transport, runtime, made, link, holder, main, graceOver>>

Links == 1 .. MaxConnects
Tools == {"connect", "disconnect", "status", "use"}

\* A call: none; past the trampoline's registry lookup, before the gate; inside;
\* and then the places of Connect, Disconnect and a use of the runtime.
Places == {"idle", "waiting", "entered", "locked", "opening", "opened",
           "closing", "joining", "closed", "using"}

\* The main thread: waiting for done; in stdout.Join; in Stop before and in the
\* native stop; in Dispose before Close, in it, after it; done; process gone.
MainPlaces == {"running", "flushing", "stopping", "draining", "stopped",
               "disposing", "shutting", "shut", "disposed", "gone"}

TypeOK ==
  /\ gate \in Calls \union {Nobody}
  /\ place \in [Calls -> Places]
  /\ tool \in [Calls -> Tools]
  /\ reply \in [Calls -> {"none", "ok", "failed", "held", "refused", "connected",
                          "disconnected", "invalid"}]
  /\ transport \in 0 .. MaxConnects
  /\ runtime \in 0 .. MaxConnects
  /\ made \in 0 .. MaxConnects
  /\ link \in [Links -> {"none", "opening", "open", "failed", "closing", "shutting", "closed"}]
  /\ holder \in {"free", "ours", "leaked", "rival"}
  /\ main \in MainPlaces
  /\ graceOver \in BOOLEAN

Init ==
  /\ gate = Nobody
  /\ place = [c \in Calls |-> "idle"]
  /\ tool = [c \in Calls |-> "status"]
  /\ reply = [c \in Calls |-> "none"]
  /\ transport = 0 /\ runtime = 0 /\ made = 0
  /\ link = [n \in Links |-> "none"]
  /\ holder \in {"free", "rival"}
  /\ main = "running"
  /\ graceOver = FALSE

------------------------------------------------------------------------------
(* A call crosses the boundary and goes through the gate.                  *)

\* DispatchTrampoline: the session is registered until Stop removes it.
Arrives(c, t) ==
  /\ place[c] = "idle"
  /\ main \in {"running", "flushing", "stopping"}
  /\ tool' = [tool EXCEPT ![c] = t]
  /\ place' = [place EXCEPT ![c] = IF main = "stopping" THEN "idle" ELSE "waiting"]
  /\ reply' = [reply EXCEPT ![c] = IF main = "stopping" THEN "invalid" ELSE "none"]
  /\ UNCHANGED <<gate, hostVars, main, graceOver>>

\* Slip: Answer does not take the gate.
EntersUngated(c) ==
  /\ place[c] = "waiting"
  /\ gate' = c
  /\ place' = [place EXCEPT ![c] = "entered"]
  /\ UNCHANGED <<tool, reply, hostVars, main, graceOver>>

Enters(c) ==
  /\ place[c] = "waiting"
  /\ gate = Nobody
  /\ gate' = c
  /\ place' = [place EXCEPT ![c] = "entered"]
  /\ UNCHANGED <<tool, reply, hostVars, main, graceOver>>

\* The call goes on to a place inside the gate.
Goes(c, p) ==
  /\ place' = [place EXCEPT ![c] = p]
  /\ UNCHANGED <<gate, tool, reply, main, graceOver>>

\* The envelope is returned and the gate released.
Answers(c, r) ==
  /\ place' = [place EXCEPT ![c] = "idle"]
  /\ reply' = [reply EXCEPT ![c] = r]
  /\ gate' = Nobody
  /\ UNCHANGED <<tool, main, graceOver>>

\* The call is inside and has not yet looked at the state.
Asks(c, t) == place[c] = "entered" /\ tool[c] = t

------------------------------------------------------------------------------
(* Connect.                                                                *)

\* Slip: the gate is not released on an early return.
ConnectRefusedInside(c) ==
  /\ Asks(c, "connect")
  /\ reply' = [reply EXCEPT ![c] = "refused"]
  /\ place' = [place EXCEPT ![c] = "idle"]
  /\ UNCHANGED <<gate, tool, hostVars, main, graceOver>>

\* Already connected, or arguments, ELF file or chip are not accepted.
ConnectRefused(c) ==
  /\ Asks(c, "connect")
  /\ Answers(c, "refused")
  /\ UNCHANGED hostVars

\* TryAcquire returns null: the file is open elsewhere, or cannot be created.
\* Connect says the same to both.
ConnectHeld(c) ==
  /\ Asks(c, "connect")
  /\ transport = 0 /\ holder # "free"
  /\ Answers(c, "held")
  /\ UNCHANGED hostVars

LockFileFails(c) ==
  /\ Asks(c, "connect")
  /\ transport = 0 /\ holder = "free"
  /\ Answers(c, "held")
  /\ UNCHANGED hostVars

\* TryAcquire throws after it opened the file: the note cannot be written, and
\* the handle stays open until it is collected.
NoteFails(c) ==
  /\ Asks(c, "connect")
  /\ transport = 0 /\ holder = "free"
  /\ holder' = "leaked"
  /\ Answers(c, "failed")
  /\ UNCHANGED <<transport, runtime, made, link>>

ConnectLocks(c) ==
  /\ Asks(c, "connect")
  /\ transport = 0 /\ holder = "free"
  /\ made < MaxConnects
  /\ holder' = "ours"
  /\ Goes(c, "locked")
  /\ UNCHANGED <<transport, runtime, made, link>>

\* The n-th transport and its runtime are made and Open is called.
Constructs(c, n, wired) ==
  /\ place[c] = "locked"
  /\ n \in Links
  /\ made' = n
  /\ runtime' = wired
  /\ link' = [link EXCEPT ![n] = "opening"]
  /\ Goes(c, "opening")
  /\ UNCHANGED <<transport, holder>>

\* Slip: the runtime is wired to a transport that does not exist yet.
ConnectOpensNext(c) == Constructs(c, made + 1, made + 2)

ConnectOpens(c) == Constructs(c, made + 1, made + 1)

OpenSucceeds(c) ==
  /\ place[c] = "opening"
  /\ link' = [link EXCEPT ![made] = "open"]
  /\ Goes(c, "opened")
  /\ UNCHANGED <<transport, runtime, made, holder>>

Released == IF holder = "ours" THEN "free" ELSE holder

\* Open throws; what happens to runtime and lock then is told apart for slips.
OpenThrows(c, r, h) ==
  /\ place[c] = "opening"
  /\ link' = [link EXCEPT ![made] = "closed"]
  /\ runtime' = r
  /\ transport' = 0
  /\ holder' = h
  /\ Answers(c, "failed")
  /\ UNCHANGED made

\* Slips: the lock is not released; the runtime is not forgotten.
OpenFailsLocked(c) == OpenThrows(c, 0, holder)
OpenFailsWired(c)  == OpenThrows(c, runtime, Released)

OpenFails(c) == OpenThrows(c, 0, Released)

ConnectPublishes(c) ==
  /\ place[c] = "opened"
  /\ transport' = made
  /\ Answers(c, "ok")
  /\ UNCHANGED <<runtime, made, link, holder>>

ConnectStep(c) ==
  \/ ConnectRefused(c) \/ ConnectHeld(c) \/ LockFileFails(c) \/ NoteFails(c) \/ ConnectLocks(c)
  \/ ConnectOpens(c) \/ OpenSucceeds(c) \/ OpenFails(c) \/ ConnectPublishes(c)

------------------------------------------------------------------------------
(* Disconnect.                                                             *)

DisconnectIdle(c) ==
  /\ Asks(c, "disconnect")
  /\ transport = 0
  /\ Answers(c, "refused")
  /\ UNCHANGED hostVars

DisconnectBegins(c) ==
  /\ Asks(c, "disconnect")
  /\ transport # 0
  /\ runtime' = 0
  /\ Goes(c, "closing")
  /\ UNCHANGED <<transport, made, link, holder>>

\* Slip: the lock is released before Close.
DisconnectReleasesFirst(c) ==
  /\ place[c] = "closing" /\ transport # 0
  /\ holder' = Released
  /\ link' = IF link[transport] = "open" THEN [link EXCEPT ![transport] = "closing"] ELSE link
  /\ Goes(c, IF link[transport] = "open" THEN "joining" ELSE "closed")
  /\ UNCHANGED <<transport, runtime, made>>

\* _transport.Close(): it returns at once on a link that is no longer open.
DisconnectCloses(c) ==
  /\ place[c] = "closing"
  /\ transport # 0
  /\ link' = IF link[transport] = "open" THEN [link EXCEPT ![transport] = "closing"] ELSE link
  /\ Goes(c, IF link[transport] = "open" THEN "joining" ELSE "closed")
  /\ UNCHANGED <<transport, runtime, made, holder>>

\* Dispose has taken _transport away since it was tested.
DisconnectFaults(c) ==
  /\ place[c] = "closing"
  /\ transport = 0
  /\ Answers(c, "failed")
  /\ UNCHANGED hostVars

DisconnectClosed(c) ==
  /\ place[c] = "joining"
  /\ link' = [n \in Links |-> IF link[n] = "closing" THEN "closed" ELSE link[n]]
  /\ Goes(c, "closed")
  /\ UNCHANGED <<transport, runtime, made, holder>>

DisconnectReleases(c) ==
  /\ place[c] = "closed"
  /\ transport' = 0
  /\ holder' = Released
  /\ Answers(c, "ok")
  /\ UNCHANGED <<runtime, made, link>>

DisconnectStep(c) ==
  \/ DisconnectIdle(c) \/ DisconnectBegins(c) \/ DisconnectCloses(c)
  \/ DisconnectFaults(c) \/ DisconnectClosed(c) \/ DisconnectReleases(c)

------------------------------------------------------------------------------
(* The other tools.                                                        *)

GetStatus(c) ==
  /\ Asks(c, "status")
  /\ Answers(c, IF transport # 0 THEN "connected" ELSE "disconnected")
  /\ UNCHANGED hostVars

UseRefused(c) ==
  /\ Asks(c, "use")
  /\ runtime = 0
  /\ Answers(c, "refused")
  /\ UNCHANGED hostVars

UseBegins(c) ==
  /\ Asks(c, "use")
  /\ runtime # 0
  /\ Goes(c, "using")
  /\ UNCHANGED hostVars

UseEnds(c) ==
  /\ place[c] = "using"
  /\ \E r \in {"ok", "failed"} : Answers(c, r)
  /\ UNCHANGED hostVars

UseStep(c) == GetStatus(c) \/ UseRefused(c) \/ UseBegins(c) \/ UseEnds(c)

------------------------------------------------------------------------------
(* The main thread.                                                        *)

MainGoes(p) == main' = p /\ UNCHANGED <<callVars, graceOver>>

\* End of input, a dead client or Ctrl+C; then the bounded Join of the stdout
\* pump; then Stop, which removes the session from the registry; then the
\* native stop, which ends the service.
DoneSet == main = "running" /\ MainGoes("flushing") /\ UNCHANGED hostVars
Unregisters == main = "flushing" /\ MainGoes("stopping") /\ UNCHANGED hostVars
NativeStops == main = "stopping" /\ MainGoes("draining") /\ UNCHANGED hostVars

\* The main thread has not begun to dispose the host.
Serving == {"running", "flushing", "stopping", "draining", "stopped"}

Quiet == \A c \in Calls : place[c] = "idle"

\* Slip: shutdown_background, which waits for nothing.
GraceSkipped == main = "draining" /\ MainGoes("stopped") /\ UNCHANGED hostVars

\* The calls in flight have ended within the grace period.
GraceMet == main = "draining" /\ Quiet /\ MainGoes("stopped") /\ UNCHANGED hostVars

\* Slip: the native stop joins the calls.
GraceUnbounded == main = "draining" /\ ~Quiet /\ UNCHANGED vars

\* They have not.
GraceExpires ==
  /\ main = "draining" /\ ~Quiet
  /\ main' = "stopped"
  /\ graceOver' = TRUE
  /\ UNCHANGED <<callVars, hostVars>>

\* Dispose of the host, which does not take the gate.
DisposeBegins ==
  /\ main = "stopped"
  /\ runtime' = 0
  /\ MainGoes("disposing")
  /\ UNCHANGED <<transport, made, link, holder>>

DisposeCloses ==
  /\ main = "disposing"
  /\ IF transport # 0 /\ link[transport] = "open"
     THEN link' = [link EXCEPT ![transport] = "shutting"] /\ MainGoes("shutting")
     ELSE link' = link /\ MainGoes("shut")
  /\ UNCHANGED <<transport, runtime, made, holder>>

DisposeClosed ==
  /\ main = "shutting"
  /\ link' = [n \in Links |-> IF link[n] = "shutting" THEN "closed" ELSE link[n]]
  /\ MainGoes("shut")
  /\ UNCHANGED <<transport, runtime, made, holder>>

DisposeReleases ==
  /\ main = "shut"
  /\ transport' = 0
  /\ holder' = Released
  /\ MainGoes("disposed")
  /\ UNCHANGED <<runtime, made, link>>

\* Run returns and the process ends: the threads of the calls with it, and the
\* kernel closes every handle.
ProcessEnds ==
  /\ main = "disposed"
  /\ main' = "gone"
  /\ place' = [c \in Calls |-> "idle"]
  /\ gate' = Nobody
  /\ holder' = IF holder = "rival" THEN "rival" ELSE "free"
  /\ transport' = 0 /\ runtime' = 0
  /\ link' = [n \in Links |-> IF n <= made THEN "closed" ELSE "none"]
  /\ UNCHANGED <<tool, reply, made, graceOver>>

MainStep ==
  \/ Unregisters \/ NativeStops \/ GraceMet \/ GraceExpires
  \/ DisposeBegins \/ DisposeCloses \/ DisposeClosed \/ DisposeReleases \/ ProcessEnds

------------------------------------------------------------------------------
(* The world: the link fails by itself, another rttsh takes and leaves the *)
(* target, a leaked handle is collected.                                   *)

LinkFails(n) ==
  /\ link[n] = "open"
  /\ link' = [link EXCEPT ![n] = "failed"]
  /\ UNCHANGED <<callVars, transport, runtime, made, holder, main, graceOver>>

HolderBecomes(from, to) ==
  /\ holder = from
  /\ holder' = to
  /\ UNCHANGED <<callVars, transport, runtime, made, link, main, graceOver>>

RivalAcquires == HolderBecomes("free", "rival")
RivalReleases == HolderBecomes("rival", "free")
HandleCollected == HolderBecomes("leaked", "free")

World == (\E n \in Links : LinkFails(n)) \/ RivalAcquires \/ RivalReleases \/ HandleCollected

------------------------------------------------------------------------------
CallStep(c) == Enters(c) \/ ConnectStep(c) \/ DisconnectStep(c) \/ UseStep(c)

Next ==
  \/ \E c \in Calls : (\E t \in Tools : Arrives(c, t)) \/ CallStep(c)
  \/ DoneSet \/ MainStep
  \/ World

Spec == Init /\ [][Next]_vars

(***************************************************************************)
(* Fairness.  The main thread keeps running.  That calls make progress and *)
(* get the gate in turn is assumed only where a property says so: an       *)
(* expect may wait for hours.                                              *)
(***************************************************************************)
FairSpec == Spec /\ WF_vars(MainStep)

CallsProgress == \A c \in Calls : WF_vars(CallStep(c)) /\ SF_vars(Enters(c))

------------------------------------------------------------------------------
(* Safety.  Each holds as long as shutdown has not overtaken a call.       *)

\* A link that uses, or is about to use, the debug probe.
Live(n) == link[n] \in {"opening", "open", "closing", "shutting"}

\* The probe is never used without the target's lock: the lock is taken before
\* Open and released after Close, on every path.
LockCoversLink == graceOver \/ \A n \in Links : Live(n) => holder = "ours"

\* One session at a time: at most one link is live, and it is the one that the
\* host knows or that its current call is opening.
OneLink ==
  graceOver \/
    \A n \in Links : Live(n) =>
      /\ n = made
      /\ transport = n \/ (gate # Nobody /\ place[gate] \in {"opening", "opened"})

\* Between calls the tools act on the session or on nothing: the runtime is
\* wired to the transport that the host will close, whether or not its link
\* has failed.
RuntimeBound ==
  graceOver \/ (gate = Nobody /\ main \in Serving => runtime = transport)

\* Between calls the lock is ours exactly while there is a session: neither a
\* failed connect nor a disconnect after a link failure leaves it behind.
LockIffSession == graceOver \/ (gate = Nobody => (holder = "ours" <=> transport # 0))

\* Between calls the host has all of a session or none of it: transport, runtime
\* and lock come and go together on every path of connect and disconnect.
SessionWhole == RuntimeBound /\ LockIffSession

\* A shutdown that did not have to cut a call off leaves no live link and no lock.
CleanShutdown ==
  main \in {"disposed", "gone"} =>
    graceOver \/ (holder # "ours" /\ \A n \in Links : ~Live(n))

\* The host between the steps of the call that is inside.
SessionState ==
  /\ transport \in {0, made}
  /\ holder = "ours" <=> transport # 0 \/ \E c \in Calls : place[c] \in {"locked", "opening", "opened"}
  /\ gate = Nobody /\ main \in Serving => runtime = transport
  /\ transport # 0 => link[transport] \in {"open", "failed", "closing", "shutting", "closed"}
  /\ \A n \in Links :
       /\ Live(n) => n = made
       /\ link[n] = "opening" => \E c \in Calls : place[c] = "opening"
       /\ link[n] = "open" => transport = n \/ \E c \in Calls : place[c] = "opened"
       /\ link[n] = "closing" => transport = n /\ \E c \in Calls : place[c] = "joining"
       /\ link[n] = "shutting" => transport = n /\ main = "shutting"
       /\ link[n] = "closed" /\ transport = n =>
            main = "shut" \/ \E c \in Calls : place[c] = "closed"
  /\ \A c \in Calls :
       /\ place[c] \in {"locked", "opening", "opened"} => transport = 0
       /\ place[c] \in {"entered", "locked", "using"} => runtime = transport
       /\ place[c] \in {"opening", "opened"} => made > 0 /\ runtime = made
       /\ place[c] = "opening" => link[made] = "opening"
       /\ place[c] = "opened" => link[made] \in {"open", "failed"}
       /\ place[c] \in {"closing", "joining", "closed"} => transport # 0 /\ runtime = 0
       /\ place[c] = "closing" => link[transport] \in {"open", "failed"}
       /\ place[c] = "joining" => link[transport] = "closing"
       /\ place[c] = "closed" => ~Live(transport)
  /\ main \notin Serving => runtime = 0
  /\ main = "shutting" => transport # 0 /\ link[transport] = "shutting"
  /\ main = "shut" => transport = 0 \/ ~Live(transport)
  /\ main \in {"disposed", "gone"} => transport = 0

\* How calls, main thread and host state move together: the part of the
\* inductive invariant that the properties above do not already state.
Bookkeeping ==
  /\ \A c \in Calls : place[c] \notin {"idle", "waiting"} <=> gate = c
  /\ \A n \in Links : link[n] = "none" <=> n > made
  /\ graceOver => main \notin {"running", "flushing", "stopping", "draining"}
  /\ graceOver \/ main \in {"running", "flushing", "stopping", "draining"} \/ Quiet
  /\ graceOver \/ SessionState

IInv == TypeOK /\ Bookkeeping

------------------------------------------------------------------------------
(* Liveness.                                                               *)

\* Shutdown ends, even when a tool call never returns.
ShutdownEnds == main # "running" ~> main = "gone"

\* Every tool call is answered, or the process ends, if the tools themselves
\* return: no path through the host keeps the gate.
CallsAnswered == CallsProgress => \A c \in Calls : place[c] # "idle" ~> place[c] = "idle"

------------------------------------------------------------------------------
(* What a comment says that the code does not do.                          *)

\* "then the host closes the transport and releases the target lock".
ShutdownCloses == main = "disposed" => holder # "ours" /\ \A n \in Links : ~Live(n)
==============================================================================
