---------------------------- MODULE RttTransport -----------------------------
(***************************************************************************)
(* JLinkRttTransport (src/RttSh/JLinkRttTransport.cs): one J-Link link     *)
(* shared by                                                               *)
(*   - the poll thread of the current session, which reads the up-channel, *)
(*     runs DataReceived, watches for a stalled core and closes the link   *)
(*     itself when it fails;                                               *)
(*   - the owner, which calls Open, Close and Dispose one after the other  *)
(*     (the contract of IRttTransport: callers serialize Open and Close);  *)
(*   - the workers, threads that write and halt or resume the core.        *)
(* Every native call is made under _nativeLock.  A section of code that    *)
(* holds the lock from its first to its last statement without sleeping or *)
(* calling back is one action, enabled while the lock is free; Open, Write *)
(* and the stalled-core failure keep it across steps, so the lock is       *)
(* explicit.                                                               *)
(*                                                                         *)
(* The J-Link DLL, the probe and the target core are modelled from how the *)
(* code uses them: how far the DLL is open, whether the probe answers, who *)
(* halted the core, and how many chunks wait in the up-buffer.             *)
(***************************************************************************)
EXTENDS Integers

CONSTANTS
  Workers,       \* threads that use the open link
  Opener,        \* the owner's thread while it keeps the lock
  Nobody,        \* the lock is free
  MaxOpens,      \* bound: successful Open calls on one transport
  MaxUp,         \* bound: chunks waiting in the target's up-buffer
  IdlePolls,     \* IdlePollsPerHaltCheck
  WriteSize,     \* bound: units in the largest payload
  WriteBudget    \* attempts without progress before Write gives up

ASSUME TransportAssumption ==
  /\ MaxOpens \in Nat \ {0}
  /\ MaxUp \in Nat \ {0}
  /\ IdlePolls \in Nat \ {0}
  /\ WriteSize \in Nat \ {0}
  /\ WriteBudget \in Nat \ {0}
  /\ Nobody \notin Workers \union {Opener} /\ Opener \notin Workers
  /\ \A g \in 1 .. MaxOpens : g # Nobody /\ g # Opener /\ g \notin Workers

\* The poll thread of the g-th session is identified by g.
Sessions == 1 .. MaxOpens

VARIABLES
  nativeLock,    \* who keeps _nativeLock between steps
  open,          \* _open
  scriptHalted,  \* _scriptHalted
  opens,         \* sessions opened so far; _pollThread is the thread of this one
  poll,          \* where each session's poll thread is
  idlePolls,     \* PollLoop's local: quiet reads since the last halt check
  owner,         \* where the owner is
  resumeOwed,    \* Close's local: _scriptHalted when it was captured
  left,          \* Write's local, per worker: units still to write (0: not writing)
  budget,        \* Write's local, per worker: attempts left without progress
  dll,           \* the DLL: "closed", "opened", "started" (RTT runs), "freed"
  connected,     \* JLinkConnection._open
  probe,         \* the probe still answers
  core,          \* "running", or halted by the "script" or by something "external"
  up,            \* chunks waiting in the target's up-buffer
  teardowns,     \* history: how often each session's DLL state was torn down
  ended          \* history: how each session ended: "live", "closed" or "failed"

hostVars  == <<nativeLock, open, scriptHalted>>
ownerVars == <<owner, resumeOwed, opens>>
writeVars == <<left, budget>>
dllVars   == <<dll, connected>>
histVars  == <<teardowns, ended>>
vars == <<nativeLock, open, scriptHalted, opens, poll, idlePolls, owner, resumeOwed,
          left, budget, dll, connected, probe, core, up, teardowns, ended>>

LockFree == nativeLock = Nobody

\* Where a poll thread can be: not started; about to read; in DataReceived;
\* about to check for a halted core; about to call FailLink; in Error after
\* FailLink; in Error with the lock still held (the stalled-core path); ended.
PollPlaces == {"unborn", "read", "data", "check", "fail", "error", "stalled", "done"}

\* The owner: outside a session (before Open or after Close), inside one, in
\* Close's Join, between Join and the teardown, after Dispose; in Open with the
\* DLL open and no target yet, or with a target and no RTT yet.
Opening == {"connecting", "starting"}
OwnerPlaces == {"out", "in", "join", "teardown", "disposed"} \union Opening

TypeOK ==
  /\ nativeLock \in Workers \union Sessions \union {Nobody, Opener}
  /\ open \in BOOLEAN
  /\ scriptHalted \in BOOLEAN
  /\ opens \in 0 .. MaxOpens
  /\ poll \in [Sessions -> PollPlaces]
  /\ idlePolls \in 0 .. IdlePolls - 1
  /\ owner \in OwnerPlaces
  /\ resumeOwed \in BOOLEAN
  /\ left \in [Workers -> 0 .. WriteSize]
  /\ budget \in [Workers -> 0 .. WriteBudget]
  /\ dll \in {"closed", "opened", "started", "freed"}
  /\ connected \in BOOLEAN
  /\ probe \in BOOLEAN
  /\ core \in {"running", "script", "external"}
  /\ up \in 0 .. MaxUp
  /\ teardowns \in [Sessions -> Nat]
  /\ ended \in [Sessions -> {"live", "closed", "failed"}]

Init ==
  /\ nativeLock = Nobody
  /\ open = FALSE
  /\ scriptHalted = FALSE
  /\ opens = 0
  /\ poll = [g \in Sessions |-> "unborn"]
  /\ idlePolls = 0
  /\ owner = "out"
  /\ resumeOwed = FALSE
  /\ left = [w \in Workers |-> 0]
  /\ budget = [w \in Workers |-> 0]
  /\ dll = "closed"
  /\ connected = FALSE
  /\ probe = TRUE
  /\ core \in {"running", "external"}
  /\ up = 0
  /\ teardowns = [g \in Sessions |-> 0]
  /\ ended = [g \in Sessions |-> "live"]

------------------------------------------------------------------------------
(* The owner.                                                              *)

\* JLinkConnection.Close: it closes the DLL if JLinkConnection.Open came to its
\* end, and does nothing otherwise.
ConnectionCloses ==
  /\ dll' = IF connected THEN "closed" ELSE dll
  /\ connected' = FALSE

\* Open, under the lock: the probe is there and the DLL opens.  Where that
\* fails Open throws and nothing has changed.
OpenBegins ==
  /\ owner \in {"out", "in"}
  /\ LockFree
  /\ ~open
  /\ probe
  /\ nativeLock' = Opener
  /\ owner' = "connecting"
  /\ dll' = "opened"
  /\ UNCHANGED <<open, scriptHalted, opens, resumeOwed, poll, idlePolls, writeVars, connected,
                 probe, core, up, histVars>>

\* JLinkConnection.Open comes to its end: the target is connected.  With
\* ResetOnConnect the core is running afterwards, else it is as it was.
OpenConnects ==
  /\ owner = "connecting"
  /\ probe
  /\ core' \in {core, "running"}
  /\ connected' = TRUE
  /\ owner' = "starting"
  /\ UNCHANGED <<hostVars, opens, resumeOwed, poll, idlePolls, writeVars, dll, probe, up, histVars>>

\* RTT starts, and with it the session and its poll thread.  _scriptHalted
\* keeps its value.
OpenSucceeds ==
  /\ owner = "starting"
  /\ probe
  /\ opens < MaxOpens
  /\ open' = TRUE
  /\ opens' = opens + 1
  /\ poll' = [poll EXCEPT ![opens + 1] = "read"]
  /\ idlePolls' = 0
  /\ owner' = "in"
  /\ nativeLock' = Nobody
  /\ dll' = "started"
  /\ UNCHANGED <<scriptHalted, resumeOwed, writeVars, connected, probe, core, up, histVars>>

\* Open throws at the given place and leaves the lock; its Close, if it is
\* called, finds a closed link.
OpenThrows(place) ==
  /\ owner = place
  /\ owner' = "out"
  /\ nativeLock' = Nobody
  /\ UNCHANGED <<open, scriptHalted, opens, resumeOwed, poll, idlePolls, writeVars,
                 probe, core, up, histVars>>

\* Slip: the catch of JLinkConnection.Open is missing; the transport's own
\* catch closes only what came to its end.
ConnectFailsHalfOpen == OpenThrows("connecting") /\ ConnectionCloses

\* The device is unknown or the target does not connect: JLinkConnection.Open
\* closes the DLL itself, for the transport's catch would not.
ConnectFails ==
  /\ OpenThrows("connecting")
  /\ dll' = "closed"
  /\ UNCHANGED connected

\* RTT START is refused: the transport's catch closes the connection.
StartFails == OpenThrows("starting") /\ ConnectionCloses

\* What Close's first section does; where it may run and what it captures
\* are told apart for the slips below.
CloseStarts(captured, flag, holder) ==
  /\ owner = "in"
  /\ open
  /\ open' = FALSE
  /\ resumeOwed' = captured
  /\ scriptHalted' = flag
  /\ owner' = "join"
  /\ ended' = [ended EXCEPT ![opens] = "closed"]
  /\ nativeLock' = holder
  /\ UNCHANGED <<opens, poll, idlePolls, writeVars, dllVars, probe, core, up, teardowns>>

\* Slips: Close does not take the lock; clears the flag before it captures it;
\* joins with the lock held.
CloseOpenUnlocked     == CloseStarts(scriptHalted, FALSE, nativeLock)
CloseOpenClearsFirst  == LockFree /\ CloseStarts(FALSE, FALSE, nativeLock)
CloseOpenJoinsLocked  == LockFree /\ CloseStarts(scriptHalted, FALSE, opens)

\* Close, first lock section, on an open link.
CloseOpen == LockFree /\ CloseStarts(scriptHalted, FALSE, nativeLock)

\* Close when the link has already closed itself: it returns at once.
CloseClosed ==
  /\ owner = "in"
  /\ LockFree
  /\ ~open
  /\ owner' = "out"
  /\ UNCHANGED <<hostVars, resumeOwed, opens, poll, idlePolls, writeVars, dllVars, probe, core, up, histVars>>

\* Slip: Close does not wait for the poll thread.
CloseJoinsAtOnce ==
  /\ owner = "join"
  /\ owner' = "teardown"
  /\ UNCHANGED <<hostVars, resumeOwed, opens, poll, idlePolls, writeVars, dllVars, probe, core, up, histVars>>

\* thread.Join() returns.
CloseJoins ==
  /\ owner = "join"
  /\ poll[opens] = "done"
  /\ owner' = "teardown"
  /\ UNCHANGED <<hostVars, resumeOwed, opens, poll, idlePolls, writeVars, dllVars, probe, core, up, histVars>>

\* Close, second lock section: best-effort resume, then TeardownDll.
CloseTearsDown ==
  /\ owner = "teardown"
  /\ LockFree
  /\ core' = IF resumeOwed /\ probe THEN "running" ELSE core
  /\ ConnectionCloses
  /\ teardowns' = [teardowns EXCEPT ![opens] = @ + 1]
  /\ owner' = "out"
  /\ UNCHANGED <<hostVars, resumeOwed, opens, poll, idlePolls, writeVars, probe, up, ended>>

\* Dispose after its Close: the connection closes and the library is freed.
Dispose ==
  /\ owner = "out"
  /\ LockFree
  /\ dll' = "freed"
  /\ connected' = FALSE
  /\ owner' = "disposed"
  /\ UNCHANGED <<hostVars, resumeOwed, opens, poll, idlePolls, writeVars, probe, core, up, histVars>>

------------------------------------------------------------------------------
(* The poll thread of session g.                                           *)

\* Sections of the poll thread that change where it is and nothing else.
PollGoes(g, place) ==
  /\ poll' = [poll EXCEPT ![g] = place]
  /\ UNCHANGED <<hostVars, ownerVars, writeVars, dllVars, probe, core, histVars>>

\* The read section finds the link closed by Close: the thread ends.
PollEnds(g) ==
  /\ poll[g] = "read"
  /\ LockFree
  /\ ~open
  /\ PollGoes(g, "done")
  /\ UNCHANGED <<idlePolls, up>>

\* Slip: a negative read is taken for an empty one.
PollReadFailsIgnored(g) ==
  /\ poll[g] = "read" /\ LockFree /\ open
  /\ PollGoes(g, "read")
  /\ UNCHANGED <<idlePolls, up>>

\* JLINK_RTTERMINAL_Read returns a negative code: always when the probe is
\* gone, and possibly on a live one (control block lost, low power ...).
PollReadFails(g) ==
  /\ poll[g] = "read"
  /\ LockFree
  /\ open
  /\ PollGoes(g, "fail")
  /\ UNCHANGED <<idlePolls, up>>

\* A read returns bytes: the quiet counter restarts, DataReceived runs.
PollReads(g) ==
  /\ poll[g] = "read"
  /\ LockFree
  /\ open
  /\ probe
  /\ up > 0
  /\ up' \in 0 .. up - 1
  /\ idlePolls' = 0
  /\ PollGoes(g, "data")

\* A read returns nothing: the quiet counter becomes n, and the thread goes on
\* to the given place.
PollIsQuiet(g, n, place) ==
  /\ poll[g] = "read"
  /\ LockFree
  /\ open
  /\ probe
  /\ up = 0
  /\ idlePolls' = n
  /\ PollGoes(g, place)
  /\ UNCHANGED up

\* Slips: the counter is not reset when a halt check is due; the check that is
\* due is forgotten.
PollQuietUnreset(g) ==
  PollIsQuiet(g, idlePolls + 1, IF idlePolls + 1 >= IdlePolls THEN "check" ELSE "read")
PollQuietForgets(g) == PollIsQuiet(g, (idlePolls + 1) % IdlePolls, "read")

\* Every IdlePolls-th quiet read in a row is followed by the halt check.
PollQuiet(g) ==
  PollIsQuiet(g, (idlePolls + 1) % IdlePolls,
              IF idlePolls + 1 >= IdlePolls THEN "check" ELSE "read")

\* Slip: an exception of a subscriber ends the thread.
DataReceivedUncaught(g) ==
  /\ poll[g] = "data"
  /\ \E place \in {"read", "done"} : PollGoes(g, place)
  /\ UNCHANGED <<idlePolls, up>>

\* The subscribers of DataReceived return, or one throws.
DataReceived(g) ==
  /\ poll[g] = "data"
  /\ \E place \in {"read", "fail"} : PollGoes(g, place)
  /\ UNCHANGED <<idlePolls, up>>

\* FailLink and TeardownDll, on a link that is open.
LinkDown(g) ==
  /\ open' = FALSE
  /\ ConnectionCloses
  /\ teardowns' = [teardowns EXCEPT ![g] = @ + 1]
  /\ ended' = [ended EXCEPT ![g] = "failed"]
  /\ UNCHANGED <<scriptHalted, ownerVars, idlePolls, writeVars, probe, core, up>>

\* Slip: FailLink does not look whether Close has won.
FailLinkUnchecked(g) ==
  /\ poll[g] = "fail"
  /\ LockFree
  /\ poll' = [poll EXCEPT ![g] = "error"]
  /\ LinkDown(g)
  /\ UNCHANGED nativeLock

\* FailLink from the read and data paths; Error is raised after the lock.
FailLink(g) ==
  /\ poll[g] = "fail"
  /\ LockFree
  /\ open
  /\ poll' = [poll EXCEPT ![g] = "error"]
  /\ LinkDown(g)
  /\ UNCHANGED nativeLock

\* Slip: Error is raised although Close has won.
FailLinkLostRaises(g) ==
  /\ poll[g] = "fail" /\ LockFree /\ ~open
  /\ PollGoes(g, "error")
  /\ UNCHANGED <<idlePolls, up>>

\* FailLink finds that an external Close won the race.
FailLinkLost(g) ==
  /\ poll[g] = "fail"
  /\ LockFree
  /\ ~open
  /\ PollGoes(g, "done")
  /\ UNCHANGED <<idlePolls, up>>

\* FailLink inside the section of the halt check.
FailStalled(g) ==
  /\ poll[g] = "check"
  /\ LockFree
  /\ open /\ probe /\ core # "running"
  /\ poll' = [poll EXCEPT ![g] = "stalled"]
  /\ nativeLock' = g
  /\ LinkDown(g)

\* Slip: the check does not stand down for a script's halt.
CheckStalledAlways(g) == FailStalled(g)

\* The halt check sees a halted core that no script halted: FailLink runs
\* inside the section, so Error is raised with the lock held.
CheckStalled(g) == ~scriptHalted /\ FailStalled(g)

\* The halt check stands down.
CheckPasses(g) ==
  /\ poll[g] = "check"
  /\ LockFree
  /\ ~(open /\ ~scriptHalted /\ probe /\ core # "running")
  /\ PollGoes(g, "read")
  /\ UNCHANGED <<idlePolls, up>>

\* The Error subscribers have returned and the thread ends.
ErrorHandled(g) ==
  /\ poll[g] \in {"error", "stalled"}
  /\ poll' = [poll EXCEPT ![g] = "done"]
  /\ nativeLock' = IF poll[g] = "stalled" THEN Nobody ELSE nativeLock
  /\ UNCHANGED <<open, scriptHalted, ownerVars, idlePolls, writeVars, dllVars, probe, core, up, histVars>>

PollStep(g) ==
  \/ PollEnds(g) \/ PollReadFails(g) \/ PollReads(g) \/ PollQuiet(g)
  \/ DataReceived(g) \/ FailLink(g) \/ FailLinkLost(g)
  \/ CheckStalled(g) \/ CheckPasses(g) \/ ErrorHandled(g)

------------------------------------------------------------------------------
(* The workers.  A call on a closed link throws and changes nothing.       *)

\* Write takes the lock and keeps it over its whole retry loop.
WriteBegins(w) ==
  /\ left[w] = 0
  /\ LockFree
  /\ open
  /\ nativeLock' = w
  /\ \E size \in 1 .. WriteSize : left' = [left EXCEPT ![w] = size]
  /\ budget' = [budget EXCEPT ![w] = WriteBudget]
  /\ UNCHANGED <<open, scriptHalted, ownerVars, poll, idlePolls, dllVars, probe, core, up, histVars>>

\* One JLINK_RTTERMINAL_Write that accepts n units: done, or a fresh budget.
WriteAccepts(w) ==
  /\ left[w] > 0
  /\ probe
  /\ \E n \in 1 .. left[w] :
       /\ left' = [left EXCEPT ![w] = @ - n]
       /\ nativeLock' = IF n = left[w] THEN Nobody ELSE nativeLock
  /\ budget' = [budget EXCEPT ![w] = WriteBudget]
  /\ UNCHANGED <<open, scriptHalted, ownerVars, poll, idlePolls, dllVars, probe, core, up, histVars>>

\* Slip: the deadline restarts after an attempt without progress as well.
WriteRetriesRefreshed(w) ==
  /\ left[w] > 0 /\ probe
  /\ budget' = [budget EXCEPT ![w] = IF @ = WriteBudget THEN @ - 1 ELSE WriteBudget]
  /\ UNCHANGED <<hostVars, ownerVars, poll, idlePolls, left, dllVars, probe, core, up, histVars>>

\* The down-buffer is full: the worker sleeps with the lock held.
WriteRetries(w) ==
  /\ left[w] > 0
  /\ probe
  /\ budget[w] > 0
  /\ budget' = [budget EXCEPT ![w] = @ - 1]
  /\ UNCHANGED <<hostVars, ownerVars, poll, idlePolls, left, dllVars, probe, core, up, histVars>>

\* Write throws; holder is who has the lock afterwards.
WriteGivesUp(w, holder) ==
  /\ left[w] > 0
  /\ left' = [left EXCEPT ![w] = 0]
  /\ nativeLock' = holder
  /\ UNCHANGED <<open, scriptHalted, ownerVars, poll, idlePolls, budget, dllVars, probe, core, up, histVars>>

\* Write throws without having written everything; the lock is released.
WriteAborts(w) == WriteGivesUp(w, Nobody)

\* JLINK_RTTERMINAL_Write returns a negative code.
WriteFails(w) == WriteAborts(w)

\* The down-buffer is still full when the budget is spent.
WriteTimesOut(w) == budget[w] = 0 /\ probe /\ WriteAborts(w)

WriteStep(w) ==
  \/ WriteAccepts(w) \/ WriteRetries(w) \/ WriteFails(w) \/ WriteTimesOut(w)

\* The core halts and the flag takes the given value, in one section.
HaltSets(w, flag) ==
  /\ left[w] = 0
  /\ LockFree
  /\ open
  /\ probe
  /\ core' = IF core = "running" THEN "script" ELSE core
  /\ scriptHalted' = flag
  /\ UNCHANGED <<nativeLock, open, ownerVars, poll, idlePolls, writeVars, dllVars, probe, up, histVars>>

Halt(w) == HaltSets(w, TRUE)

\* Resume: JLINKARM_Go's result is unused, so the flag clears either way.
Resume(w) ==
  /\ left[w] = 0
  /\ LockFree
  /\ open
  /\ core' = IF probe THEN "running" ELSE core
  /\ scriptHalted' = FALSE
  /\ UNCHANGED <<nativeLock, open, ownerVars, poll, idlePolls, writeVars, dllVars, probe, up, histVars>>

------------------------------------------------------------------------------
(* The world: the probe is unplugged, the firmware prints, a debugger or a *)
(* fault halts the core, a debugger resumes it.                            *)

ProbeLost ==
  /\ probe
  /\ probe' = FALSE
  /\ UNCHANGED <<hostVars, ownerVars, poll, idlePolls, writeVars, dllVars, core, up, histVars>>

TargetPrints ==
  /\ core = "running"
  /\ up < MaxUp
  /\ up' = up + 1
  /\ UNCHANGED <<hostVars, ownerVars, poll, idlePolls, writeVars, dllVars, probe, core, histVars>>

CoreHalts ==
  /\ core = "running"
  /\ core' = "external"
  /\ UNCHANGED <<hostVars, ownerVars, poll, idlePolls, writeVars, dllVars, probe, up, histVars>>

CoreResumes ==
  /\ core # "running"
  /\ core' = "running"
  /\ UNCHANGED <<hostVars, ownerVars, poll, idlePolls, writeVars, dllVars, probe, up, histVars>>

World == ProbeLost \/ TargetPrints \/ CoreHalts \/ CoreResumes

------------------------------------------------------------------------------
OwnerStep ==
  \/ OpenBegins \/ OpenConnects \/ OpenSucceeds \/ ConnectFails \/ StartFails
  \/ CloseOpen \/ CloseClosed
  \/ CloseJoins \/ CloseTearsDown \/ Dispose

Next ==
  \/ OwnerStep
  \/ \E g \in Sessions : PollStep(g)
  \/ \E w \in Workers : WriteBegins(w) \/ WriteStep(w) \/ Halt(w) \/ Resume(w)
  \/ World

Spec == Init /\ [][Next]_vars

(***************************************************************************)
(* Fairness.  The poll thread, the writer and Close are ordinary threads   *)
(* and keep running; subscribers of DataReceived and Error return.  The    *)
(* poll thread contends for _nativeLock with writers that may come back    *)
(* for ever, and gets it eventually (strong fairness): writers sleep       *)
(* between calls and a Monitor wakes the thread that waits.  Nothing makes *)
(* the owner close, a worker write, or the world act.                      *)
(***************************************************************************)
Fairness ==
  /\ \A g \in Sessions : SF_vars(PollStep(g))
  /\ \A w \in Workers : WF_vars(WriteStep(w))
  /\ WF_vars(CloseJoins) /\ WF_vars(CloseTearsDown)

FairSpec == Spec /\ Fairness

------------------------------------------------------------------------------
(* Safety.                                                                 *)

\* A poll thread that may still read, deliver, check or fail the link.
Polling == {"read", "data", "check", "fail"}

\* The lock is kept between steps by Open, by a Write in its retry loop or by a
\* poll thread raising the stalled-core Error, and by nobody else.
LockOK ==
  /\ owner \in Opening <=> nativeLock = Opener
  /\ \A w \in Workers : left[w] > 0 <=> nativeLock = w
  /\ \A g \in Sessions : poll[g] = "stalled" <=> nativeLock = g

\* Every native call reaches a DLL that is there: RTT runs while the link is
\* open, and from Close's first section to its teardown ("the link is still open
\* here, so Go reaches the core").  Outside of sessions and of Open the DLL is
\* closed, whichever step of Open threw: JLinkConnection._open, by which its
\* Close decides, says of every other moment whether there is something to
\* close.
DllOK ==
  /\ dll = "started" <=> open \/ owner \in {"join", "teardown"}
  /\ dll = "opened" <=> owner \in Opening
  /\ dll = "freed" <=> owner = "disposed"
  /\ connected <=> dll = "started" \/ owner = "starting"

\* A Write sleeping in its retry loop never has the link closed, reopened or
\* torn down under it, by Close or by the poll thread failing the link: the
\* _open test inside the loop never fires.
WriteKeepsLink ==
  \A w \in Workers : left[w] > 0 => open /\ dll = "started" /\ nativeLock = w

\* Only the current session's thread polls, so the shared receive buffer has
\* one user, and an open link always has a live poll thread ("the poll thread
\* must never die").
OnePoller ==
  /\ \A g \in Sessions : poll[g] \in Polling => g = opens
  /\ open => poll[opens] \in Polling

\* Close and FailLink race, yet each session is torn down exactly once: never
\* while it is open, once it has ended and its owner is not closing it.
OneTeardown ==
  \A g \in Sessions :
    teardowns[g] = IF \/ g > opens
                      \/ g = opens /\ (open \/ owner \in {"join", "teardown"})
                   THEN 0 ELSE 1

\* After Close has returned, or Open has thrown at whichever step, no thread
\* reads, delivers data, checks the core or holds the lock, and the DLL is not
\* half open: what may still run is only the Error of a link that closed itself.
\* After Dispose the freed DLL has no user.
QuietAfterClose ==
  owner \in {"out", "disposed"} =>
    /\ LockFree
    /\ dll \in {"closed", "freed"}
    /\ \A g \in Sessions : poll[g] \notin Polling

\* A core that a script halted is never forgotten while its probe answers:
\* _scriptHalted says so, or Close has captured the flag and will resume it.
HaltTracked ==
  core = "script" /\ probe =>
    scriptHalted \/ (owner \in {"join", "teardown"} /\ resumeOwed)

\* A session ended by Close does not leave the core halted by its script.
CloseReleasesCore ==
  (owner \in {"out", "disposed"} /\ opens > 0 /\ probe) =>
     (ended[opens] = "closed" => core # "script")

\* How owner, sessions and poll threads move together: the part of the
\* inductive invariant that the properties above do not already state.
Bookkeeping ==
  /\ open => owner = "in"
  /\ owner = "in" => opens > 0 /\ (open \/ ended[opens] = "failed")
  /\ owner \in {"join", "teardown"} => opens > 0 /\ ~scriptHalted /\ ended[opens] = "closed"
  /\ owner = "teardown" => poll[opens] = "done"
  /\ opens > 0 /\ ended[opens] = "closed" => ~scriptHalted
  /\ \A g \in Sessions :
       /\ poll[g] = "unborn" <=> g > opens
       /\ ended[g] = "live" <=> g > opens \/ (g = opens /\ open)
       /\ poll[g] \in {"error", "stalled"} => ended[g] = "failed"
       /\ ended[g] = "failed" => poll[g] \in {"error", "stalled", "done"}
       /\ poll[g] = "stalled" => g = opens /\ owner = "in" /\ ~open
       /\ poll[g] \in Polling => open \/ owner = "join"

Safety ==
  /\ LockOK /\ DllOK /\ WriteKeepsLink /\ OnePoller /\ OneTeardown
  /\ QuietAfterClose /\ HaltTracked /\ CloseReleasesCore

\* The inductive invariant.
IInv == TypeOK /\ Safety /\ Bookkeeping

\* The stalled-core failure is never raised for a core that a script halted:
\* Halt, Resume and the check are atomic against each other.
NoFalseStall ==
  [][\A g \in Sessions :
       poll[g] # "stalled" /\ poll'[g] = "stalled" => core = "external"]_vars

------------------------------------------------------------------------------
(* Refinement: RttTransport implements the IRttTransport contract.         *)

Contract == INSTANCE RttLink WITH
  link    <- IF open THEN "open"
             ELSE IF owner \in {"join", "teardown"} THEN "closing" ELSE "closed",
  session <- opens,
  inData  <- \E g \in Sessions : poll[g] = "data",
  owed    <- {g \in Sessions : poll[g] \in {"error", "stalled"}},
  raised  <- {g \in Sessions : poll[g] = "done" /\ ended[g] = "failed"}

\* Error at most once per session, only for a session that closed itself and
\* only after it did; data only between Open and the return of Close.
LinkContract == Contract!LinkSpec

------------------------------------------------------------------------------
(* Liveness.                                                               *)

\* Close returns: Join does not wait for ever, whatever the poll thread and a
\* Write in progress are doing when it starts.
CloseCompletes == owner \in {"join", "teardown"} ~> owner = "out"

\* A quiet link does not stay open on a dead end for ever: not without its
\* probe, even when nobody closes it, and not on a core that stays halted from
\* outside, unless a script holds it.
FaultsSurface ==
  /\ (open /\ ~probe) ~> ~open
  /\ []<>~(open /\ probe /\ core = "external" /\ ~scriptHalted)

\* Write returns or throws: the budget is spent or the payload ends.
WriteEnds == \A w \in Workers : left[w] > 0 ~> left[w] = 0

------------------------------------------------------------------------------
(* What a comment says that the code does not do.                          *)

\* "the core would otherwise stay halted after the session": after Close the
\* core is not left halted by a script, however the session ended.
CoreReleasedAfterClose ==
  (owner \in {"out", "disposed"} /\ opens > 0 /\ probe) => core # "script"
==============================================================================
