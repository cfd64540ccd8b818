---------------------------- MODULE McpHostProofs ----------------------------
(***************************************************************************)
(* Theorems about McpHost, for any number of calls and connects: as long   *)
(* as shutdown has not cut a call off, the host has at most one link, a    *)
(* link never outlives the target's lock, and both are gone when the host  *)
(* has been disposed.  They follow from one inductive invariant, IInv.     *)
(***************************************************************************)
EXTENDS McpHost, TLAPS

USE DEF Links

\* The initial states satisfy the inductive invariant.
LEMMA InitIInv == Init => IInv
<1> SUFFICES ASSUME Init PROVE IInv
  OBVIOUS
<1> USE HostAssumption DEF Init
<1>1. TypeOK
  <2>1. /\ place \in [Calls -> Places] /\ tool \in [Calls -> Tools]
        /\ main \in MainPlaces
    BY DEF Places, Tools, MainPlaces
  <2>2. reply \in [Calls -> {"none", "ok", "failed", "held", "refused", "connected",
                              "disconnected", "invalid"}]
    OBVIOUS
  <2>3. link \in [Links -> {"none", "opening", "open", "failed", "closing", "shutting", "closed"}]
    OBVIOUS
  <2>4. 0 \in 0 .. MaxConnects
    OBVIOUS
  <2>5. /\ gate \in Calls \union {Nobody}
        /\ transport \in 0 .. MaxConnects
        /\ runtime \in 0 .. MaxConnects
        /\ made \in 0 .. MaxConnects
    BY <2>4, ZenonT(30)
  <2>6. /\ holder \in {"free", "ours", "leaked", "rival"}
        /\ graceOver \in BOOLEAN
    BY Zenon
  <2> HIDE DEF Init
  <2> QED BY <2>1, <2>2, <2>3, <2>5, <2>6 DEF TypeOK
<1>2. Bookkeeping
  <2>1. /\ \A c \in Calls : place[c] \notin {"idle", "waiting"} <=> gate = c
        /\ \A n \in Links : link[n] = "none" <=> n > made
    OBVIOUS
  <2>2. SessionState
    BY DEF SessionState, Live, Serving
  <2> QED BY <2>1, <2>2 DEF Bookkeeping
<1> QED BY <1>1, <1>2 DEF IInv

\* The variables keep their types.
LEMMA TypeStep == TypeOK /\ [Next]_vars => TypeOK'
<1> SUFFICES ASSUME TypeOK, [Next]_vars PROVE TypeOK'
  OBVIOUS
<1> USE HostAssumption DEF TypeOK, Places, MainPlaces, Tools, hostVars, callVars, Goes, Answers, MainGoes, Released
<1>1. ASSUME NEW c \in Calls, NEW t \in Tools, Arrives(c, t) PROVE TypeOK'
  BY <1>1 DEF Arrives
<1>2. ASSUME NEW c \in Calls, CallStep(c) PROVE TypeOK'
  <2>1. CASE Enters(c)
    BY <2>1 DEF Enters
  <2>2. CASE ConnectStep(c)
    <3>1. CASE ConnectRefused(c)
      BY <3>1 DEF ConnectRefused, Asks
    <3>2. CASE ConnectHeld(c)
      BY <3>2 DEF ConnectHeld, Asks
    <3>3. CASE LockFileFails(c)
      BY <3>3 DEF LockFileFails, Asks
    <3>4. CASE NoteFails(c)
      BY <3>4 DEF NoteFails, Asks
    <3>5. CASE ConnectLocks(c)
      BY <3>5 DEF ConnectLocks, Asks
    <3>6. CASE ConnectOpens(c)
      BY <3>6 DEF ConnectOpens, Constructs
    <3>7. CASE OpenSucceeds(c)
      BY <3>7 DEF OpenSucceeds
    <3>8. CASE OpenFails(c)
      <4>1. link' \in [Links -> {"none", "opening", "open", "failed", "closing", "shutting", "closed"}]
        BY <3>8 DEF OpenFails, OpenThrows
      <4>2. holder' \in {"free", "ours", "leaked", "rival"}
        BY <3>8 DEF OpenFails, OpenThrows
      <4>3. /\ gate' \in Calls \union {Nobody} /\ place' \in [Calls -> Places]
            /\ reply' \in [Calls -> {"none", "ok", "failed", "held", "refused", "connected",
                                   "disconnected", "invalid"}]
        BY <3>8 DEF OpenFails, OpenThrows
      <4> QED BY <3>8, <4>1, <4>2, <4>3 DEF OpenFails, OpenThrows
    <3>9. CASE ConnectPublishes(c)
      BY <3>9 DEF ConnectPublishes
    <3> QED BY <2>2, <3>1, <3>2, <3>3, <3>4, <3>5, <3>6, <3>7, <3>8, <3>9 DEF ConnectStep
  <2>3. CASE DisconnectStep(c)
    <3>1. CASE DisconnectIdle(c)
      BY <3>1 DEF DisconnectIdle, Asks
    <3>2. CASE DisconnectBegins(c)
      BY <3>2 DEF DisconnectBegins, Asks
    <3>3. CASE DisconnectCloses(c)
      BY <3>3 DEF DisconnectCloses
    <3>4. CASE DisconnectFaults(c)
      BY <3>4 DEF DisconnectFaults
    <3>5. CASE DisconnectClosed(c)
      BY <3>5 DEF DisconnectClosed
    <3>6. CASE DisconnectReleases(c)
      BY <3>6 DEF DisconnectReleases
    <3> QED BY <2>3, <3>1, <3>2, <3>3, <3>4, <3>5, <3>6 DEF DisconnectStep
  <2>4. CASE UseStep(c)
    <3>1. CASE GetStatus(c)
      BY <3>1 DEF GetStatus, Asks
    <3>2. CASE UseRefused(c)
      BY <3>2 DEF UseRefused, Asks
    <3>3. CASE UseBegins(c)
      BY <3>3 DEF UseBegins, Asks
    <3>4. CASE UseEnds(c)
      BY <3>4 DEF UseEnds
    <3> QED BY <2>4, <3>1, <3>2, <3>3, <3>4 DEF UseStep
  <2> QED BY <1>2, <2>1, <2>2, <2>3, <2>4 DEF CallStep
<1>3. CASE DoneSet
  BY <1>3 DEF DoneSet
<1>4. CASE MainStep
  <2>1. CASE Unregisters
    BY <2>1 DEF Unregisters
  <2>2. CASE NativeStops
    BY <2>2 DEF NativeStops
  <2>3. CASE GraceMet
    BY <2>3 DEF GraceMet
  <2>4. CASE GraceExpires
    BY <2>4 DEF GraceExpires
  <2>5. CASE DisposeBegins
    BY <2>5 DEF DisposeBegins
  <2>6. CASE DisposeCloses
    BY <2>6 DEF DisposeCloses
  <2>7. CASE DisposeClosed
    BY <2>7 DEF DisposeClosed
  <2>8. CASE DisposeReleases
    BY <2>8 DEF DisposeReleases
  <2>9. CASE ProcessEnds
    BY <2>9 DEF ProcessEnds
  <2> QED BY <1>4, <2>1, <2>2, <2>3, <2>4, <2>5, <2>6, <2>7, <2>8, <2>9 DEF MainStep
<1>5. CASE World
  <2>1. ASSUME NEW n \in Links, LinkFails(n) PROVE TypeOK'
    BY <2>1 DEF LinkFails
  <2>2. CASE RivalAcquires
    BY <2>2 DEF RivalAcquires, HolderBecomes
  <2>3. CASE RivalReleases
    BY <2>3 DEF RivalReleases, HolderBecomes
  <2>4. CASE HandleCollected
    BY <2>4 DEF HandleCollected, HolderBecomes
  <2> QED BY <1>5, <2>1, <2>2, <2>3, <2>4 DEF World
<1>6. CASE UNCHANGED vars
  BY <1>6 DEF vars
<1> QED BY <1>1, <1>2, <1>3, <1>4, <1>5, <1>6 DEF Next

\* The bookkeeping is kept.
LEMMA BookStep == IInv /\ [Next]_vars => Bookkeeping'
<1> SUFFICES ASSUME IInv, [Next]_vars PROVE Bookkeeping'
  OBVIOUS
<1> USE HostAssumption DEF IInv, TypeOK, Bookkeeping, SessionState, Live, Quiet, Serving, hostVars, callVars, Goes, Answers, MainGoes, Released
<1>1. ASSUME NEW c \in Calls, NEW t \in Tools, Arrives(c, t) PROVE Bookkeeping'
  BY <1>1 DEF Arrives
<1>2. ASSUME NEW c \in Calls, CallStep(c) PROVE Bookkeeping'
  <2>1. CASE Enters(c)
    BY <2>1 DEF Enters
  <2>2. CASE ConnectStep(c)
    <3>1. CASE ConnectRefused(c)
      BY <3>1 DEF ConnectRefused, Asks
    <3>2. CASE ConnectHeld(c)
      BY <3>2 DEF ConnectHeld, Asks
    <3>3. CASE LockFileFails(c)
      BY <3>3 DEF LockFileFails, Asks
    <3>4. CASE NoteFails(c)
      BY <3>4 DEF NoteFails, Asks
    <3>5. CASE ConnectLocks(c)
      BY <3>5 DEF ConnectLocks, Asks
    <3>6. CASE ConnectOpens(c)
      BY <3>6 DEF ConnectOpens, Constructs
    <3>7. CASE OpenSucceeds(c)
      BY <3>7 DEF OpenSucceeds
    <3>8. CASE OpenFails(c)
      BY <3>8 DEF OpenFails, OpenThrows
    <3>9. CASE ConnectPublishes(c)
      BY <3>9 DEF ConnectPublishes
    <3> QED BY <2>2, <3>1, <3>2, <3>3, <3>4, <3>5, <3>6, <3>7, <3>8, <3>9 DEF ConnectStep
  <2>3. CASE DisconnectStep(c)
    <3>1. CASE DisconnectIdle(c)
      BY <3>1 DEF DisconnectIdle, Asks
    <3>2. CASE DisconnectBegins(c)
      <4>1. /\ place' = [place EXCEPT ![c] = "closing"] /\ gate = c /\ transport # 0 /\ runtime' = 0
            /\ place[c] = "entered"
            /\ UNCHANGED <<gate, transport, made, link, holder, main, graceOver>>
        BY <3>2 DEF DisconnectBegins, Asks
      <4>2. \A x \in Calls : x # c => place'[x] = place[x] /\ place[x] \in {"idle", "waiting"}
        BY <4>1
      <4>3. place'[c] = "closing"
        BY <4>1
      <4>4. ASSUME ~graceOver, NEW n \in Links PROVE link[n] \notin {"opening", "closing", "shutting"}
        BY <4>1, <4>2, <4>4
      <4>5. ~graceOver => link[transport] \in {"open", "failed"}
        BY <4>1, <4>4
      <4>6. graceOver \/ SessionState'
        BY <4>1, <4>2, <4>3, <4>4, <4>5
      <4> QED BY <4>1, <4>2, <4>3, <4>6
    <3>3. CASE DisconnectCloses(c)
      BY <3>3 DEF DisconnectCloses
    <3>4. CASE DisconnectFaults(c)
      BY <3>4 DEF DisconnectFaults
    <3>5. CASE DisconnectClosed(c)
      BY <3>5 DEF DisconnectClosed
    <3>6. CASE DisconnectReleases(c)
      BY <3>6 DEF DisconnectReleases
    <3> QED BY <2>3, <3>1, <3>2, <3>3, <3>4, <3>5, <3>6 DEF DisconnectStep
  <2>4. CASE UseStep(c)
    <3>1. CASE GetStatus(c)
      BY <3>1 DEF GetStatus, Asks
    <3>2. CASE UseRefused(c)
      BY <3>2 DEF UseRefused, Asks
    <3>3. CASE UseBegins(c)
      BY <3>3 DEF UseBegins, Asks
    <3>4. CASE UseEnds(c)
      BY <3>4 DEF UseEnds
    <3> QED BY <2>4, <3>1, <3>2, <3>3, <3>4 DEF UseStep
  <2> QED BY <1>2, <2>1, <2>2, <2>3, <2>4 DEF CallStep
<1>3. CASE DoneSet
  BY <1>3 DEF DoneSet
<1>4. CASE MainStep
  <2>1. CASE Unregisters
    BY <2>1 DEF Unregisters
  <2>2. CASE NativeStops
    BY <2>2 DEF NativeStops
  <2>3. CASE GraceMet
    BY <2>3 DEF GraceMet
  <2>4. CASE GraceExpires
    BY <2>4 DEF GraceExpires
  <2>5. CASE DisposeBegins
    BY <2>5 DEF DisposeBegins
  <2>6. CASE DisposeCloses
    BY <2>6 DEF DisposeCloses
  <2>7. CASE DisposeClosed
    BY <2>7 DEF DisposeClosed
  <2>8. CASE DisposeReleases
    BY <2>8 DEF DisposeReleases
  <2>9. CASE ProcessEnds
    BY <2>9 DEF ProcessEnds
  <2> QED BY <1>4, <2>1, <2>2, <2>3, <2>4, <2>5, <2>6, <2>7, <2>8, <2>9 DEF MainStep
<1>5. CASE World
  <2>1. ASSUME NEW n \in Links, LinkFails(n) PROVE Bookkeeping'
    BY <2>1 DEF LinkFails
  <2>2. CASE RivalAcquires
    BY <2>2 DEF RivalAcquires, HolderBecomes
  <2>3. CASE RivalReleases
    BY <2>3 DEF RivalReleases, HolderBecomes
  <2>4. CASE HandleCollected
    BY <2>4 DEF HandleCollected, HolderBecomes
  <2> QED BY <1>5, <2>1, <2>2, <2>3, <2>4 DEF World
<1>6. CASE UNCHANGED vars
  BY <1>6 DEF vars
<1> QED BY <1>1, <1>2, <1>3, <1>4, <1>5, <1>6 DEF Next

(***************************************************************************)
(* The theorems.  Each property is a consequence of IInv: Bookkeeping says *)
(* where every call, the main thread and every link are relative to each   *)
(* other, as long as the grace period has not cut a call off.              *)
(***************************************************************************)

\* The inductive invariant holds in every reachable state.
THEOREM Invariance == Spec => []IInv
<1>1. IInv /\ [Next]_vars => IInv'
  BY TypeStep, BookStep DEF IInv
<1> QED BY InitIInv, <1>1, PTL DEF Spec

\* The state of the host is well typed in every behaviour (McpToolHost's fields,
\* the gate, the places of calls and main thread).
THEOREM TypeCorrect == Spec => []TypeOK
<1>1. IInv => TypeOK
  BY DEF IInv
<1> QED BY Invariance, <1>1, PTL

\* Connect, Disconnect and Dispose keep the target's lock around every use of the
\* probe: a link is opened after TryAcquire and closed before the release.
THEOREM ProbeCovered == Spec => []LockCoversLink
<1>1. IInv => LockCoversLink
  <2> SUFFICES ASSUME IInv, ~graceOver, NEW n \in Links, Live(n) PROVE holder = "ours"
    BY DEF LockCoversLink
  <2>1. SessionState
    BY DEF IInv, Bookkeeping
  <2>2. transport = n \/ \E c \in Calls : place[c] \in {"opening", "opened"}
    BY <2>1 DEF SessionState, Live
  <2>3. n # 0
    BY HostAssumption
  <2> QED BY <2>1, <2>2, <2>3 DEF SessionState
<1> QED BY Invariance, <1>1, PTL

\* "One session at a time": at most one link is live, and the host either has it
\* in _transport or its current call is opening it.
THEOREM SingleLink == Spec => []OneLink
<1>1. IInv => OneLink
  <2> SUFFICES ASSUME IInv, ~graceOver, NEW n \in Links, Live(n)
               PROVE  /\ n = made
                      /\ transport = n \/ (gate # Nobody /\ place[gate] \in {"opening", "opened"})
    BY DEF OneLink
  <2>1. /\ SessionState
        /\ \A c \in Calls : place[c] \notin {"idle", "waiting"} <=> gate = c
    BY DEF IInv, Bookkeeping
  <2>2. n = made
    BY <2>1 DEF SessionState
  <2>3. transport = n \/ \E c \in Calls : place[c] \in {"opening", "opened"}
    BY <2>1 DEF SessionState, Live
  <2>4. ASSUME NEW c \in Calls, place[c] \in {"opening", "opened"}
        PROVE  gate # Nobody /\ place[gate] \in {"opening", "opened"}
    BY <2>1, <2>4, HostAssumption
  <2> QED BY <2>2, <2>3, <2>4
<1> QED BY Invariance, <1>1, PTL

\* Between calls _runtime is wired to the transport in _transport, or both are
\* null: no tool talks to a link that the host has given up.
THEOREM RuntimeFollows == Spec => []RuntimeBound
<1>1. IInv => RuntimeBound
  BY DEF IInv, Bookkeeping, SessionState, RuntimeBound
<1> QED BY Invariance, <1>1, PTL

\* Between calls _lock is held exactly while there is a session: no early return
\* and no failed Open of Connect leaves it behind.
THEOREM LockFollows == Spec => []LockIffSession
<1>1. IInv => LockIffSession
  <2> SUFFICES ASSUME IInv, ~graceOver, gate = Nobody PROVE holder = "ours" <=> transport # 0
    BY DEF LockIffSession
  <2>1. /\ SessionState
        /\ \A c \in Calls : place[c] \notin {"idle", "waiting"} <=> gate = c
    BY DEF IInv, Bookkeeping
  <2>2. \A c \in Calls : place[c] \in {"idle", "waiting"}
    BY <2>1, HostAssumption
  <2> QED BY <2>1, <2>2 DEF SessionState
<1> QED BY Invariance, <1>1, PTL

\* Between calls transport, runtime and lock make a session, or there is none.
THEOREM SessionIsWhole == Spec => []SessionWhole
<1>1. SessionWhole <=> RuntimeBound /\ LockIffSession
  BY DEF SessionWhole
<1> QED BY <1>1, RuntimeFollows, LockFollows, PTL

\* When the grace period was long enough, Dispose leaves no live link and no lock.
THEOREM ShutdownClean == Spec => []CleanShutdown
<1>1. IInv => CleanShutdown
  <2> SUFFICES ASSUME IInv, ~graceOver, main \in {"disposed", "gone"}
               PROVE  holder # "ours" /\ \A n \in Links : ~Live(n)
    BY DEF CleanShutdown
  <2>1. SessionState /\ Quiet
    BY DEF IInv, Bookkeeping
  <2>2. transport = 0 /\ \A c \in Calls : place[c] = "idle"
    BY <2>1 DEF SessionState, Quiet
  <2>3. holder # "ours"
    BY <2>1, <2>2 DEF SessionState
  <2>4. ASSUME NEW n \in Links, Live(n) PROVE FALSE
    <3>1. n # 0
      BY HostAssumption
    <3> QED BY <2>1, <2>2, <2>4, <3>1 DEF SessionState, Live
  <2> QED BY <2>3, <2>4
<1> QED BY Invariance, <1>1, PTL

------------------------------------------------------------------------------
(* The gate, with and without the grace period.                            *)

Inside(c) == place[c] \notin {"idle", "waiting"}

\* The gate is taken exactly while its holder is inside a tool.
GateHolds == \A c \in Calls : Inside(c) <=> gate = c

\* What the host knows of its session changes inside the gate, or in Dispose.
SessionChangesInside ==
  [][UNCHANGED <<transport, runtime, made>> \/ gate # Nobody \/ main' \notin Serving]_vars

\* _dispatchGate lets one call into McpToolHost at a time and every return and
\* throw gives it back, also while a call outlives the grace period.
THEOREM OneCallInside == Spec => []GateHolds
<1>1. IInv => GateHolds
  BY DEF IInv, Bookkeeping, GateHolds, Inside
<1> QED BY Invariance, <1>1, PTL

\* Outside the gate nobody touches _transport and _runtime until Dispose, which
\* does not take it: neither the main thread before, nor an early return.
THEOREM SessionGated == Spec => SessionChangesInside
<1> DEFINE Gated == UNCHANGED <<transport, runtime, made>> \/ gate # Nobody \/ main' \notin Serving
<1>1. ASSUME IInv, Next PROVE Gated
  <2>1. ASSUME NEW c \in Calls, CallStep(c) PROVE Gated
    <3>1. CASE Inside(c)
      <4>1. gate = c
        BY <1>1, <3>1 DEF IInv, Bookkeeping, Inside
      <4> QED BY <4>1, HostAssumption
    <3>2. CASE ~Inside(c)
      <4>1. Enters(c)
        BY <2>1, <3>2
           DEF Inside, CallStep, ConnectStep, DisconnectStep, UseStep, Asks, ConnectRefused,
             ConnectHeld, LockFileFails, NoteFails, ConnectLocks, ConnectOpens, Constructs,
             OpenSucceeds, OpenFails, OpenThrows, ConnectPublishes, DisconnectIdle,
             DisconnectBegins, DisconnectCloses, DisconnectFaults, DisconnectClosed,
             DisconnectReleases, GetStatus, UseRefused, UseBegins, UseEnds
      <4> QED BY <4>1 DEF Enters, hostVars
    <3> QED BY <3>1, <3>2
  <2>2. ASSUME NEW c \in Calls, NEW t \in Tools, Arrives(c, t) PROVE Gated
    BY <2>2 DEF Arrives, hostVars
  <2>3. CASE DoneSet \/ Unregisters \/ NativeStops \/ GraceMet \/ GraceExpires
    BY <2>3 DEF DoneSet, Unregisters, NativeStops, GraceMet, GraceExpires, MainGoes, hostVars
  <2>4. CASE DisposeCloses \/ DisposeClosed \/ DisposeReleases \/ ProcessEnds
    BY <2>4 DEF DisposeCloses, DisposeClosed, DisposeReleases, ProcessEnds, MainGoes, Serving
  <2>5. CASE DisposeBegins
    BY <2>5 DEF DisposeBegins, MainGoes, Serving
  <2>6. CASE World
    BY <2>6 DEF World, LinkFails, RivalAcquires, RivalReleases, HandleCollected, HolderBecomes
  <2> QED BY <1>1, <2>1, <2>2, <2>3, <2>4, <2>5, <2>6 DEF Next, MainStep
<1>2. IInv /\ [Next]_vars => [Gated]_vars
  BY <1>1
<1> QED BY Invariance, <1>2, PTL DEF Spec, SessionChangesInside

------------------------------------------------------------------------------
(* The holder that McpHost knows is one that TargetLock promises.          *)

Held == INSTANCE HeldTarget WITH
  Owners <- {"ours", "leaked", "rival"}, holders <- {holder} \ {"free"}

\* The target passes from one holder to another only through "free".
LEMMA HolderMoves ==
  ASSUME TypeOK, Next
  PROVE  holder' = holder \/ holder = "free" \/ holder' = "free"
<1>1. ASSUME NEW c \in Calls, ConnectStep(c) PROVE holder' = holder \/ holder = "free" \/ holder' = "free"
  BY <1>1
     DEF ConnectStep, ConnectRefused, ConnectHeld, LockFileFails, NoteFails, ConnectLocks,
       ConnectOpens, Constructs, OpenSucceeds, OpenFails, OpenThrows, ConnectPublishes, Released,
       Goes, Answers, hostVars
<1>2. ASSUME NEW c \in Calls, DisconnectStep(c) \/ UseStep(c) \/ Enters(c)
      PROVE  holder' = holder \/ holder' = "free"
  BY <1>2
     DEF DisconnectStep, DisconnectIdle, DisconnectBegins, DisconnectCloses, DisconnectFaults,
       DisconnectClosed, DisconnectReleases, UseStep, GetStatus, UseRefused, UseBegins, UseEnds,
       Enters, Released, hostVars
<1>3. ASSUME NEW c \in Calls, NEW t \in Tools, Arrives(c, t) PROVE holder' = holder
  BY <1>3 DEF Arrives, hostVars
<1>4. CASE DoneSet \/ MainStep
  BY <1>4
     DEF DoneSet, MainStep, Unregisters, NativeStops, GraceMet, GraceExpires, DisposeBegins,
       DisposeCloses, DisposeClosed, DisposeReleases, ProcessEnds, Released, TypeOK, hostVars
<1>5. CASE World
  BY <1>5 DEF World, LinkFails, RivalAcquires, RivalReleases, HandleCollected, HolderBecomes
<1> QED BY <1>1, <1>2, <1>3, <1>4, <1>5 DEF Next, CallStep

\* What the host does with the target's lock, shutdown over a call in flight and
\* the end of the process included, and what it believes of other processes,
\* is what HeldTarget allows.  Instances shows the same of the lock file.
THEOREM HostKeepsLockContract == Spec => Held!HeldSpec
<1>1. Init => Held!HeldInit
  BY DEF Init, Held!HeldInit
<1>2. ASSUME IInv, Next PROVE Held!HeldNext \/ holder' = holder
  <2>1. TypeOK /\ TypeOK'
    BY <1>2, TypeStep DEF IInv
  <2>2. CASE holder = "free"
    <3>1. holder' = holder \/ Held!Take(holder')
      BY <2>2 DEF Held!Take
    <3>2. holder' = holder \/ holder' \in {"ours", "leaked", "rival"}
      BY <2>1, <2>2 DEF TypeOK
    <3> QED BY <3>1, <3>2 DEF Held!HeldNext
  <2>3. CASE holder' = "free"
    <3>1. holder' = holder \/ Held!Give(holder)
      BY <2>3 DEF Held!Give
    <3>2. holder' = holder \/ holder \in {"ours", "leaked", "rival"}
      BY <2>1, <2>3 DEF TypeOK
    <3> QED BY <3>1, <3>2 DEF Held!HeldNext
  <2> QED BY <1>2, <2>1, <2>2, <2>3, HolderMoves
<1>3. IInv /\ [Next]_vars => [Held!HeldNext]_({holder} \ {"free"})
  <2>1. ASSUME IInv, Next PROVE [Held!HeldNext]_({holder} \ {"free"})
    BY <1>2, <2>1
  <2>2. ASSUME UNCHANGED vars PROVE [Held!HeldNext]_({holder} \ {"free"})
    BY <2>2 DEF vars
  <2> QED BY <2>1, <2>2
<1> QED BY Invariance, <1>1, <1>3, PTL DEF Spec, Held!HeldSpec
==============================================================================
