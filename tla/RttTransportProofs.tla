------------------------- MODULE RttTransportProofs --------------------------
(***************************************************************************)
(* For every number of workers, sessions, poll intervals and budgets: the  *)
(* inductive invariant of RttTransport, the safety properties it implies,  *)
(* and the refinement of RttLink.                                          *)
(***************************************************************************)
EXTENDS RttTransport, TLAPS

USE DEF Sessions

\* The initial states satisfy the inductive invariant.
LEMMA InitIInv == Init => IInv
<1> SUFFICES ASSUME Init PROVE IInv
  OBVIOUS
<1> USE TransportAssumption DEF Init
<1>1. TypeOK
  <2>1. idlePolls \in 0 .. IdlePolls - 1 /\ up \in 0 .. MaxUp /\ opens \in 0 .. MaxOpens
    OBVIOUS
  <2>2. left \in [Workers -> 0 .. WriteSize] /\ budget \in [Workers -> 0 .. WriteBudget]
    OBVIOUS
  <2>3. poll \in [Sessions -> PollPlaces] /\ owner \in OwnerPlaces
    BY DEF PollPlaces, OwnerPlaces, Opening
  <2>4. /\ teardowns \in [Sessions -> Nat]
        /\ ended \in [Sessions -> {"live", "closed", "failed"}]
    OBVIOUS
  <2> QED BY <2>1, <2>2, <2>3, <2>4 DEF TypeOK
<1>2. LockOK /\ DllOK /\ WriteKeepsLink /\ OnePoller /\ OneTeardown
  BY DEF LockOK, DllOK, WriteKeepsLink, OnePoller, OneTeardown, Polling, Opening
<1>3. QuietAfterClose /\ HaltTracked /\ CloseReleasesCore
  BY DEF QuietAfterClose, HaltTracked, CloseReleasesCore, Polling, LockFree
<1>4. Bookkeeping
  BY DEF Bookkeeping, Polling
<1> QED BY <1>1, <1>2, <1>3, <1>4 DEF IInv, Safety

\* Tearing a session down keeps the types.
LEMMA LinkDownType ==
  ASSUME TypeOK, NEW g \in Sessions, LinkDown(g),
         poll' \in [Sessions -> PollPlaces],
         nativeLock' \in Workers \union Sessions \union {Nobody, Opener}
  PROVE  TypeOK'
<1>1. teardowns' \in [Sessions -> Nat]
  BY DEF TypeOK, LinkDown
<1>2. ended' \in [Sessions -> {"live", "closed", "failed"}]
  BY DEF TypeOK, LinkDown
<1> QED BY <1>1, <1>2 DEF TypeOK, LinkDown, ConnectionCloses, ownerVars, writeVars

\* The variables keep their types.
LEMMA TypeStep == TypeOK /\ Bookkeeping /\ [Next]_vars => TypeOK'
<1> SUFFICES ASSUME TypeOK, Bookkeeping, [Next]_vars PROVE TypeOK'
  OBVIOUS
<1> USE TransportAssumption DEF TypeOK, PollPlaces, OwnerPlaces, Opening, hostVars, ownerVars, writeVars, dllVars, histVars
<1>1. CASE OwnerStep
  <2>1. CASE OpenSucceeds BY <2>1 DEF OpenSucceeds
  <2>2. CASE OpenBegins \/ OpenConnects BY <2>2 DEF OpenBegins, OpenConnects
  <2>3. CASE ConnectFails \/ StartFails
    BY <2>3 DEF ConnectFails, StartFails, OpenThrows, ConnectionCloses
  <2>4. CASE CloseOpen BY <2>4 DEF CloseOpen, CloseStarts
  <2>5. CASE CloseClosed BY <2>5 DEF CloseClosed
  <2>6. CASE CloseJoins BY <2>6 DEF CloseJoins
  <2>7. CASE CloseTearsDown
    <3>1. opens \in Sessions
      BY <2>7 DEF CloseTearsDown, Bookkeeping
    <3>2. teardowns' \in [Sessions -> Nat]
      BY <2>7, <3>1 DEF CloseTearsDown
    <3> QED BY <2>7, <3>2 DEF CloseTearsDown, ConnectionCloses
  <2>8. CASE Dispose BY <2>8 DEF Dispose
  <2> QED BY <1>1, <2>1, <2>2, <2>3, <2>4, <2>5, <2>6, <2>7, <2>8 DEF OwnerStep
<1>2. ASSUME NEW g \in Sessions, PollStep(g) PROVE TypeOK'
  <2>1. CASE PollEnds(g) BY <2>1 DEF PollEnds, PollGoes
  <2>2. CASE PollReadFails(g) BY <2>2 DEF PollReadFails, PollGoes
  <2>3. CASE PollReads(g) BY <2>3 DEF PollReads, PollGoes
  <2>4. CASE PollQuiet(g)
    <3>1. idlePolls' \in 0 .. IdlePolls - 1
      BY <2>4 DEF PollQuiet, PollIsQuiet
    <3>2. poll' \in [Sessions -> PollPlaces]
      BY <2>4 DEF PollQuiet, PollIsQuiet, PollGoes
    <3> QED BY <2>4, <3>1, <3>2 DEF PollQuiet, PollIsQuiet, PollGoes
  <2>5. CASE DataReceived(g) BY <2>5 DEF DataReceived, PollGoes
  <2>6. CASE FailLink(g) BY <2>6, LinkDownType DEF FailLink
  <2>7. CASE FailLinkLost(g) BY <2>7 DEF FailLinkLost, PollGoes
  <2>8. CASE CheckStalled(g) BY <2>8, LinkDownType DEF CheckStalled, FailStalled
  <2>9. CASE CheckPasses(g) BY <2>9 DEF CheckPasses, PollGoes
  <2>10. CASE ErrorHandled(g) BY <2>10 DEF ErrorHandled
  <2> QED BY <1>2, <2>1, <2>2, <2>3, <2>4, <2>5, <2>6, <2>7, <2>8, <2>9, <2>10 DEF PollStep
<1>3. ASSUME NEW w \in Workers, WriteBegins(w) \/ WriteStep(w) \/ Halt(w) \/ Resume(w) PROVE TypeOK'
  <2>1. CASE WriteBegins(w) BY <2>1 DEF WriteBegins
  <2>2. CASE WriteAccepts(w) BY <2>2 DEF WriteAccepts
  <2>3. CASE WriteRetries(w) BY <2>3 DEF WriteRetries
  <2>4. CASE WriteAborts(w) BY <2>4 DEF WriteAborts, WriteGivesUp
  <2>5. CASE Halt(w) BY <2>5 DEF Halt, HaltSets
  <2>6. CASE Resume(w) BY <2>6 DEF Resume
  <2> QED BY <1>3, <2>1, <2>2, <2>3, <2>4, <2>5, <2>6 DEF WriteStep, WriteFails, WriteTimesOut
<1>4. CASE World
  <2>1. CASE ProbeLost
    <3>1. probe' \in BOOLEAN BY <2>1 DEF ProbeLost
    <3>2. UNCHANGED <<nativeLock, open, scriptHalted, opens, poll, idlePolls, owner, resumeOwed,
                      left, budget, dll, connected, core, up, teardowns, ended>>
      BY <2>1 DEF ProbeLost
    <3> QED BY <3>1, <3>2
  <2>2. CASE TargetPrints
    <3>1. up' \in 0 .. MaxUp BY <2>2 DEF TargetPrints
    <3> QED BY <2>2, <3>1 DEF TargetPrints
  <2>3. CASE CoreHalts BY <2>3 DEF CoreHalts
  <2>4. CASE CoreResumes BY <2>4 DEF CoreResumes
  <2> QED BY <1>4, <2>1, <2>2, <2>3, <2>4 DEF World
<1>5. CASE UNCHANGED vars
  BY <1>5 DEF vars
<1> QED BY <1>1, <1>2, <1>3, <1>4, <1>5 DEF Next

\* Open, Close and Dispose preserve the invariant.
LEMMA OwnerStepSafe ==
  ASSUME IInv, OwnerStep
  PROVE  (Safety /\ Bookkeeping)'
<1> USE TransportAssumption
    DEF IInv, Safety, LockOK, DllOK, WriteKeepsLink, OnePoller, OneTeardown,
       QuietAfterClose, HaltTracked, CloseReleasesCore, Bookkeeping, Polling, LockFree,
       TypeOK, PollPlaces, OwnerPlaces, Opening, hostVars, ownerVars, writeVars, dllVars, histVars
<1>1. CASE OpenSucceeds
  BY <1>1 DEF OpenSucceeds
<1>2. CASE OpenBegins
  BY <1>2 DEF OpenBegins
<1>3. CASE OpenConnects
  BY <1>3 DEF OpenConnects
\* JLinkConnection._open is not set yet: the inner catch has closed the DLL.
<1>4. CASE ConnectFails
  BY <1>4 DEF ConnectFails, OpenThrows
\* JLinkConnection._open is set: its Close closes the DLL.
<1>5. CASE StartFails
  BY <1>5 DEF StartFails, OpenThrows, ConnectionCloses
<1>6. CASE CloseOpen
  BY <1>6 DEF CloseOpen, CloseStarts
<1>7. CASE CloseClosed
  BY <1>7 DEF CloseClosed
<1>8. CASE CloseJoins
  BY <1>8 DEF CloseJoins
<1>9. CASE CloseTearsDown
  <2>1. opens \in Sessions /\ poll[opens] = "done" /\ ~scriptHalted
    BY <1>9 DEF CloseTearsDown, ConnectionCloses
  \* Nobody keeps the lock and no thread polls: the owner may report.
  <2>2. (LockOK /\ WriteKeepsLink /\ OnePoller /\ QuietAfterClose)'
    BY <1>9, <2>1 DEF CloseTearsDown, ConnectionCloses
  \* FailLink did not tear this session down, and nobody will again.
  <2>3. (OneTeardown /\ DllOK)'
    BY <1>9, <2>1 DEF CloseTearsDown, ConnectionCloses
  \* A core still halted by the script had its flag captured: it was resumed.
  <2>4. (HaltTracked /\ CloseReleasesCore)'
    BY <1>9, <2>1 DEF CloseTearsDown, ConnectionCloses
  <2>5. Bookkeeping'
    BY <1>9, <2>1 DEF CloseTearsDown, ConnectionCloses
  <2> QED BY <2>2, <2>3, <2>4, <2>5
<1>10. CASE Dispose
  BY <1>10 DEF Dispose
<1> QED BY <1>1, <1>2, <1>3, <1>4, <1>5, <1>6, <1>7, <1>8, <1>9, <1>10 DEF OwnerStep

\* A step of a poll thread preserves the invariant.
LEMMA PollStepSafe ==
  ASSUME IInv, NEW g \in Sessions, PollStep(g)
  PROVE  (Safety /\ Bookkeeping)'
<1> USE TransportAssumption
    DEF IInv, Safety, LockOK, DllOK, WriteKeepsLink, OnePoller, OneTeardown,
       QuietAfterClose, HaltTracked, CloseReleasesCore, Bookkeeping, Polling, LockFree,
       TypeOK, PollPlaces, OwnerPlaces, Opening, hostVars, ownerVars, writeVars, dllVars, histVars
<1>1. CASE PollEnds(g)
  BY <1>1 DEF PollEnds, PollGoes
<1>2. CASE PollReadFails(g)
  BY <1>2 DEF PollReadFails, PollGoes
<1>3. CASE PollReads(g)
  BY <1>3 DEF PollReads, PollGoes
<1>4. CASE PollQuiet(g)
  BY <1>4 DEF PollQuiet, PollIsQuiet, PollGoes
<1>5. CASE DataReceived(g)
  BY <1>5 DEF DataReceived, PollGoes
<1>6. CASE FailLink(g)
  \* Only the current session polls, so it is this one that goes down ...
  <2>1. g = opens /\ owner = "in" /\ teardowns[g] = 0
    BY <1>6 DEF FailLink
  \* ... with no Write in its retry loop, because the lock is free.
  <2>2. \A w \in Workers : left[w] = 0
    BY <1>6 DEF FailLink
  <2>3. (LockOK /\ WriteKeepsLink /\ DllOK /\ OnePoller)'
    BY <1>6, <2>1, <2>2 DEF FailLink, LinkDown, ConnectionCloses
  <2>4. (OneTeardown /\ QuietAfterClose /\ HaltTracked /\ CloseReleasesCore)'
    BY <1>6, <2>1, <2>2 DEF FailLink, LinkDown, ConnectionCloses
  <2>5. Bookkeeping'
    BY <1>6, <2>1 DEF FailLink, LinkDown, ConnectionCloses
  <2> QED BY <2>3, <2>4, <2>5
<1>7. CASE FailLinkLost(g)
  BY <1>7 DEF FailLinkLost, PollGoes
<1>8. CASE CheckStalled(g)
  \* Only the current session polls, so it is this one that goes down ...
  <2>1. g = opens /\ owner = "in" /\ teardowns[g] = 0
    BY <1>8 DEF CheckStalled, FailStalled
  \* ... with no Write in its retry loop, because the lock is free.
  <2>2. \A w \in Workers : left[w] = 0
    BY <1>8 DEF CheckStalled, FailStalled
  <2>3. (LockOK /\ WriteKeepsLink /\ DllOK /\ OnePoller)'
    BY <1>8, <2>1, <2>2 DEF CheckStalled, FailStalled, LinkDown, ConnectionCloses
  <2>4. (OneTeardown /\ QuietAfterClose /\ HaltTracked /\ CloseReleasesCore)'
    BY <1>8, <2>1, <2>2 DEF CheckStalled, FailStalled, LinkDown, ConnectionCloses
  <2>5. Bookkeeping'
    BY <1>8, <2>1 DEF CheckStalled, FailStalled, LinkDown, ConnectionCloses
  <2> QED BY <2>3, <2>4, <2>5
<1>9. CASE CheckPasses(g)
  BY <1>9 DEF CheckPasses, PollGoes
<1>10. CASE ErrorHandled(g)
  BY <1>10 DEF ErrorHandled
<1> QED BY <1>1, <1>2, <1>3, <1>4, <1>5, <1>6, <1>7, <1>8, <1>9, <1>10 DEF PollStep

\* Write, Halt and Resume preserve the invariant.
LEMMA WorkerStepSafe ==
  ASSUME IInv, NEW w \in Workers,
         WriteBegins(w) \/ WriteStep(w) \/ Halt(w) \/ Resume(w)
  PROVE  (Safety /\ Bookkeeping)'
<1> USE TransportAssumption
    DEF IInv, Safety, LockOK, DllOK, WriteKeepsLink, OnePoller, OneTeardown,
       QuietAfterClose, HaltTracked, CloseReleasesCore, Bookkeeping, Polling, LockFree,
       TypeOK, PollPlaces, OwnerPlaces, Opening, hostVars, ownerVars, writeVars, dllVars, histVars
<1>1. CASE WriteBegins(w)
  BY <1>1 DEF WriteBegins
<1>2. CASE WriteAccepts(w)
  BY <1>2 DEF WriteAccepts
<1>3. CASE WriteRetries(w)
  BY <1>3 DEF WriteRetries
<1>4. CASE WriteAborts(w)
  BY <1>4 DEF WriteAborts, WriteGivesUp
<1>5. CASE Halt(w)
  BY <1>5 DEF Halt, HaltSets
<1>6. CASE Resume(w)
  BY <1>6 DEF Resume
<1> QED BY <1>1, <1>2, <1>3, <1>4, <1>5, <1>6 DEF WriteStep, WriteFails, WriteTimesOut

\* The world disturbs nothing but who halted the core.
LEMMA WorldSafe ==
  ASSUME IInv, World
  PROVE  (Safety /\ Bookkeeping)'
<1> USE TransportAssumption
    DEF IInv, Safety, LockOK, DllOK, WriteKeepsLink, OnePoller, OneTeardown,
       QuietAfterClose, HaltTracked, CloseReleasesCore, Bookkeeping, Polling, LockFree,
       TypeOK, PollPlaces, OwnerPlaces, Opening, hostVars, ownerVars, writeVars, dllVars, histVars
<1>1. CASE ProbeLost
  BY <1>1 DEF ProbeLost
<1>2. CASE TargetPrints
  BY <1>2 DEF TargetPrints
<1>3. CASE CoreHalts
  BY <1>3 DEF CoreHalts
<1>4. CASE CoreResumes
  BY <1>4 DEF CoreResumes
<1> QED BY <1>1, <1>2, <1>3, <1>4 DEF World

\* No step leaves the inductive invariant.
LEMMA NextIInv == IInv /\ [Next]_vars => IInv'
<1> SUFFICES ASSUME IInv, [Next]_vars PROVE IInv'
  OBVIOUS
<1>1. TypeOK'
  BY TypeStep DEF IInv
<1>2. (Safety /\ Bookkeeping)'
  <2>1. CASE OwnerStep BY <2>1, OwnerStepSafe
  <2>2. CASE \E g \in Sessions : PollStep(g) BY <2>2, PollStepSafe
  <2>3. CASE \E w \in Workers : WriteBegins(w) \/ WriteStep(w) \/ Halt(w) \/ Resume(w)
    BY <2>3, WorkerStepSafe
  <2>4. CASE World BY <2>4, WorldSafe
  <2>5. CASE UNCHANGED vars
    BY <2>5 DEF vars, IInv, Safety, LockOK, DllOK, WriteKeepsLink, OnePoller, OneTeardown,
                QuietAfterClose, HaltTracked, CloseReleasesCore, Bookkeeping, LockFree
  <2> QED BY <2>1, <2>2, <2>3, <2>4, <2>5 DEF Next
<1> QED BY <1>1, <1>2 DEF IInv

\* The inductive invariant holds in every reachable state.
THEOREM Invariance == Spec => []IInv
BY InitIInv, NextIInv, PTL DEF Spec

\* Every variable keeps its type.
THEOREM TypeCorrect == Spec => []TypeOK
<1>1. IInv => TypeOK BY DEF IInv
<1> QED BY Invariance, <1>1, PTL

\* A Write in its retry loop keeps the link it started on.
THEOREM WriteSafe == Spec => []WriteKeepsLink
<1>1. IInv => WriteKeepsLink BY DEF IInv, Safety
<1> QED BY Invariance, <1>1, PTL

\* An open link has exactly one live poll thread: the current session's.
THEOREM PollerUnique == Spec => []OnePoller
<1>1. IInv => OnePoller BY DEF IInv, Safety
<1> QED BY Invariance, <1>1, PTL

\* Close and FailLink together tear each session down exactly once.
THEOREM TornDownOnce == Spec => []OneTeardown
<1>1. IInv => OneTeardown BY DEF IInv, Safety
<1> QED BY Invariance, <1>1, PTL

\* When Close has returned nothing reads, delivers or holds the lock.
THEOREM CloseIsQuiet == Spec => []QuietAfterClose
<1>1. IInv => QuietAfterClose BY DEF IInv, Safety
<1> QED BY Invariance, <1>1, PTL

\* A session ended by Close does not leave its core halted by the script.
THEOREM CloseReleases == Spec => []CloseReleasesCore
<1>1. IInv => CloseReleasesCore BY DEF IInv, Safety
<1> QED BY Invariance, <1>1, PTL

\* A core halted by a script never trips the stalled-core failure.
THEOREM StallIsGenuine == Spec => NoFalseStall
<1> DEFINE Genuine == \A g \in Sessions :
             poll[g] # "stalled" /\ poll'[g] = "stalled" => core = "external"
<1>1. IInv /\ [Next]_vars => [Genuine]_vars
  <2> SUFFICES ASSUME IInv, Next, NEW g \in Sessions,
                      poll[g] # "stalled", poll'[g] = "stalled"
               PROVE  core = "external"
    OBVIOUS
  <2>1. CheckStalled(g)
    BY DEF IInv, TypeOK, Next, OwnerStep, OpenBegins, OpenConnects, OpenSucceeds, ConnectFails, StartFails,
           OpenThrows, CloseOpen, CloseStarts, CloseClosed, CloseJoins,
           CloseTearsDown, Dispose, PollStep, PollEnds, PollReadFails, PollReads, PollQuiet, PollIsQuiet,
           DataReceived, FailLink, FailLinkLost, CheckStalled, FailStalled, CheckPasses, ErrorHandled,
           PollGoes, WriteBegins, WriteStep, WriteAccepts, WriteRetries, WriteFails,
           WriteTimesOut, WriteAborts, WriteGivesUp, Halt, HaltSets, Resume, World, ProbeLost, TargetPrints,
           CoreHalts, CoreResumes
  <2>2. open /\ ~scriptHalted /\ probe /\ core # "running"
    BY <2>1 DEF CheckStalled, FailStalled
  <2> QED BY <2>2 DEF IInv, TypeOK, Safety, HaltTracked, DllOK, Bookkeeping
<1> QED BY Invariance, <1>1, PTL DEF Spec, NoFalseStall

\* Whichever step of Open throws, whoever ends the session and in whatever order,
\* JLinkConnection._open and the DLL agree: no Open begins on a DLL that is half
\* open, no Close misses one that is open, and RTT calls find it running.
THEOREM DllFollowsConnection == Spec => []DllOK
<1>1. IInv => DllOK BY DEF IInv, Safety
<1> QED BY Invariance, <1>1, PTL

\* _nativeLock is kept between steps by Open, by a Write in its retry loop or by a
\* poll thread in its stalled-core Error, and by nobody else.
THEOREM LockAccounted == Spec => []LockOK
<1>1. IInv => LockOK BY DEF IInv, Safety
<1> QED BY Invariance, <1>1, PTL

\* A core that a script halted is remembered as long as its probe answers, in
\* _scriptHalted or in what Close captured.
THEOREM HaltRemembered == Spec => []HaltTracked
<1>1. IInv => HaltTracked BY DEF IInv, Safety
<1> QED BY Invariance, <1>1, PTL

------------------------------------------------------------------------------
(* Progress: what CloseCompletes and WriteEnds add to these is fairness.    *)

\* While Close joins the poll thread and until it has torn the DLL down, nobody
\* keeps _nativeLock from that thread or from Close, and the thread is not in
\* a handler of Error, which might itself call Close.
JoinUnblocked ==
  owner \in {"join", "teardown"} => LockFree /\ poll[opens] \in Polling \union {"done"}

\* How far the poll thread is from its end once the link is closed.
Ahead(place) ==
  IF place = "data" THEN 3 ELSE IF place = "check" THEN 2
  ELSE IF place \in {"read", "fail"} THEN 1 ELSE 0

\* While Close joins, every step of the thread it waits for brings that thread
\* nearer to its end: at most three of them remain.
JoinAdvances ==
  [][owner = "join" =>
       poll'[opens] = poll[opens] \/ Ahead(poll'[opens]) < Ahead(poll[opens])]_vars

\* A Write that runs spends its budget or its payload and never gets any of its
\* payload back: at most WriteSize * (WriteBudget + 1) attempts remain to it.
WriteAdvances ==
  [][\A w \in Workers : left[w] > 0 =>
       \/ UNCHANGED <<left[w], budget[w]>>
       \/ left'[w] < left[w]
       \/ left'[w] = left[w] /\ budget'[w] < budget[w]]_vars

\* Join waits for nobody but the poll thread.
THEOREM JoinIsUnblocked == Spec => []JoinUnblocked
<1>1. IInv => JoinUnblocked
  <2> SUFFICES ASSUME IInv, owner \in {"join", "teardown"}
               PROVE  LockFree /\ poll[opens] \in Polling \union {"done"}
    BY DEF JoinUnblocked
  <2>1. ~open /\ owner # "in" /\ opens \in Sessions
    BY DEF IInv, Bookkeeping, TypeOK
  \* No Write is in its retry loop and no thread is in the stalled-core Error.
  <2>2. \A w \in Workers : nativeLock # w
    BY <2>1 DEF IInv, Safety, LockOK, WriteKeepsLink
  <2>3. \A g \in Sessions : nativeLock # g
    BY <2>1 DEF IInv, Safety, LockOK, Bookkeeping
  <2>4. LockFree
    BY <2>1, <2>2, <2>3 DEF IInv, Safety, LockOK, Opening, TypeOK, LockFree
  <2>5. poll[opens] \notin {"unborn", "error", "stalled"}
    BY <2>1 DEF IInv, Bookkeeping, TypeOK
  <2>6. poll[opens] \in PollPlaces
    BY <2>1 DEF IInv, TypeOK
  <2> QED BY <2>4, <2>5, <2>6 DEF Polling, PollPlaces
<1> QED BY Invariance, <1>1, PTL

\* Close's Join comes to its end.
THEOREM JoinComesNearer == Spec => JoinAdvances
<1>1. ASSUME IInv, Next, owner = "join"
      PROVE  poll'[opens] = poll[opens] \/ Ahead(poll'[opens]) < Ahead(poll[opens])
  <2>1. ~open /\ opens \in Sessions /\ poll \in [Sessions -> PollPlaces]
    BY <1>1 DEF IInv, Bookkeeping, TypeOK
  <2>2. CASE OwnerStep
    <3>1. poll' = poll
      BY <1>1, <2>2 DEF OwnerStep, OpenBegins, OpenConnects, OpenSucceeds, ConnectFails, StartFails,
           OpenThrows, CloseOpen, CloseStarts, CloseClosed, CloseJoins,
                        CloseTearsDown, Dispose
    <3> QED BY <3>1
  <2>3. ASSUME NEW g \in Sessions, PollStep(g)
        PROVE  poll'[opens] = poll[opens] \/ Ahead(poll'[opens]) < Ahead(poll[opens])
    <3>1. CASE g # opens
      <4>1. poll'[opens] = poll[opens]
        BY <2>1, <2>3, <3>1
           DEF PollStep, PollEnds, PollReadFails, PollReads, PollQuiet, PollIsQuiet, DataReceived,
               FailLink, FailLinkLost, CheckStalled, FailStalled, CheckPasses, ErrorHandled,
               PollGoes
      <4> QED BY <4>1
    <3>2. CASE g = opens
      <4>1. poll[g] \notin {"error", "stalled"}
        BY <1>1, <2>1, <3>2 DEF IInv, Bookkeeping
      <4>2. PollEnds(g) \/ DataReceived(g) \/ FailLinkLost(g) \/ CheckPasses(g)
        BY <2>1, <2>3, <4>1
           DEF PollStep, PollReadFails, PollReads, PollQuiet, PollIsQuiet, FailLink,
               CheckStalled, FailStalled, ErrorHandled
      <4>3. \/ poll[g] = "read" /\ poll'[g] = "done"
            \/ poll[g] = "data" /\ poll'[g] \in {"read", "fail"}
            \/ poll[g] = "fail" /\ poll'[g] = "done"
            \/ poll[g] = "check" /\ poll'[g] = "read"
        BY <2>1, <4>2 DEF PollEnds, DataReceived, FailLinkLost, CheckPasses, PollGoes
      <4> QED BY <3>2, <4>3 DEF Ahead
    <3> QED BY <3>1, <3>2
  <2>4. ASSUME NEW w \in Workers, WriteBegins(w) \/ WriteStep(w) \/ Halt(w) \/ Resume(w)
        PROVE  poll' = poll
    BY <2>4 DEF WriteBegins, WriteStep, WriteAccepts, WriteRetries, WriteFails, WriteTimesOut,
                WriteAborts, WriteGivesUp, Halt, HaltSets, Resume
  <2>5. World => poll' = poll
    BY DEF World, ProbeLost, TargetPrints, CoreHalts, CoreResumes
  <2> QED BY <1>1, <2>2, <2>3, <2>4, <2>5 DEF Next
<1>2. IInv /\ [Next]_vars =>
        [owner = "join" =>
           poll'[opens] = poll[opens] \/ Ahead(poll'[opens]) < Ahead(poll[opens])]_vars
  BY <1>1
<1> QED BY Invariance, <1>2, PTL DEF Spec, JoinAdvances

\* Write comes to its end, with progress or without.
THEOREM WriteComesNearer == Spec => WriteAdvances
<1>1. ASSUME TypeOK, Next, NEW w \in Workers, left[w] > 0
      PROVE  \/ UNCHANGED <<left[w], budget[w]>>
             \/ left'[w] < left[w]
             \/ left'[w] = left[w] /\ budget'[w] < budget[w]
  <2>1. left[w] \in Nat /\ budget[w] \in Nat
    BY <1>1, TransportAssumption DEF TypeOK
  <2>2. CASE UNCHANGED writeVars
    BY <2>2 DEF writeVars
  <2>3. ASSUME NEW v \in Workers, WriteBegins(v) \/ WriteStep(v)
        PROVE  \/ UNCHANGED <<left[w], budget[w]>>
               \/ left'[w] < left[w]
               \/ left'[w] = left[w] /\ budget'[w] < budget[w]
    <3>1. CASE v # w
      BY <1>1, <2>3, <3>1 DEF TypeOK, WriteBegins, WriteStep, WriteAccepts, WriteRetries, WriteFails,
                              WriteTimesOut, WriteAborts, WriteGivesUp
    <3>2. CASE WriteAccepts(w)
      <4>1. PICK n \in 1 .. left[w] : left' = [left EXCEPT ![w] = @ - n]
        BY <3>2 DEF WriteAccepts
      <4>2. left'[w] = left[w] - n
        BY <1>1, <4>1 DEF TypeOK
      <4> QED BY <2>1, <4>2
    <3>3. CASE WriteRetries(w)
      BY <1>1, <2>1, <3>3 DEF TypeOK, WriteRetries
    <3>4. CASE WriteAborts(w)
      BY <1>1, <2>1, <3>4 DEF TypeOK, WriteAborts, WriteGivesUp
    <3>5. ~WriteBegins(w)
      BY <1>1, <2>1 DEF WriteBegins
    <3> QED BY <2>3, <3>1, <3>2, <3>3, <3>4, <3>5 DEF WriteStep, WriteFails, WriteTimesOut
  <2>4. CASE OwnerStep
    BY <2>2, <2>4 DEF OwnerStep, OpenBegins, OpenConnects, OpenSucceeds, ConnectFails, StartFails,
           OpenThrows, CloseOpen, CloseStarts, CloseClosed, CloseJoins,
                      CloseTearsDown, Dispose
  <2>5. CASE \E g \in Sessions : PollStep(g)
    BY <2>2, <2>5 DEF PollStep, PollEnds, PollReadFails, PollReads, PollQuiet, PollIsQuiet,
                      DataReceived, FailLink, FailLinkLost, CheckStalled, FailStalled, LinkDown,
                      CheckPasses, ErrorHandled, PollGoes
  <2>6. CASE \E v \in Workers : Halt(v) \/ Resume(v)
    BY <2>2, <2>6 DEF Halt, HaltSets, Resume
  <2>7. CASE World
    BY <2>2, <2>7 DEF World, ProbeLost, TargetPrints, CoreHalts, CoreResumes
  <2> QED BY <1>1, <2>3, <2>4, <2>5, <2>6, <2>7 DEF Next
<1>2. TypeOK /\ [Next]_vars =>
        [\A w \in Workers : left[w] > 0 =>
           \/ UNCHANGED <<left[w], budget[w]>>
           \/ left'[w] < left[w]
           \/ left'[w] = left[w] /\ budget'[w] < budget[w]]_vars
  BY <1>1
<1> QED BY TypeCorrect, <1>2, PTL DEF Spec, WriteAdvances

------------------------------------------------------------------------------
(* The refinement: each action is a step of RttLink or leaves its state.   *)

\* The sessions whose Error runs, and those whose Error has returned.
OwedErrors == {g \in Sessions : poll[g] \in {"error", "stalled"}}
RaisedErrors == {g \in Sessions : poll[g] = "done" /\ ended[g] = "failed"}

\* A step of a poll thread to a place that is neither in DataReceived nor in
\* Error, by a session that did not fail, is invisible.
LEMMA InvisiblePollStep ==
  ASSUME IInv, NEW g \in Sessions, NEW place \in {"read", "check", "fail", "done"},
         poll[g] \in {"read", "check", "fail"}, place = "done" => ~open,
         PollGoes(g, place)
  PROVE  UNCHANGED Contract!linkVars
<1>1. ended[g] # "failed" /\ UNCHANGED <<open, owner, opens, ended>>
  BY DEF PollGoes, IInv, TypeOK, Bookkeeping, hostVars, ownerVars, histVars
<1>2. poll' = [poll EXCEPT ![g] = place]
  BY DEF PollGoes
<1>3. OwedErrors' = OwedErrors /\ RaisedErrors' = RaisedErrors
  BY <1>1, <1>2 DEF OwedErrors, RaisedErrors, IInv, TypeOK
<1>4. (\E h \in Sessions : poll[h] = "data")' <=> (\E h \in Sessions : poll[h] = "data")
  BY <1>1, <1>2 DEF IInv, TypeOK
<1> QED BY <1>1, <1>3, <1>4 DEF Contract!linkVars, OwedErrors, RaisedErrors

\* What a step that moves no poll thread and ends no session leaves alone.
LEMMA InvisibleElsewhere ==
  ASSUME UNCHANGED <<poll, ended>>
  PROVE  /\ OwedErrors' = OwedErrors /\ RaisedErrors' = RaisedErrors
         /\ (\E h \in Sessions : poll[h] = "data")' <=> (\E h \in Sessions : poll[h] = "data")
BY DEF OwedErrors, RaisedErrors

\* The owner's steps open, begin to close, and return from Close.
LEMMA OwnerStepMaps ==
  ASSUME IInv, OwnerStep
  PROVE  [Contract!LinkNext]_(Contract!linkVars)
<1> USE DEF hostVars, ownerVars, histVars
<1>1. CASE OpenSucceeds
  <2>1. ~\E h \in Sessions : poll[h] = "data"
    BY <1>1 DEF OpenSucceeds, IInv, Safety, OnePoller, Bookkeeping, Polling
  <2>2. opens + 1 \in Sessions /\ poll[opens + 1] = "unborn" /\ ended[opens + 1] = "live"
    BY <1>1, TransportAssumption DEF OpenSucceeds, IInv, TypeOK, Bookkeeping
  <2>3. OwedErrors' = OwedErrors /\ RaisedErrors' = RaisedErrors
    BY <1>1, <2>2 DEF OpenSucceeds, OwedErrors, RaisedErrors, IInv, TypeOK
  <2>4. ~(\E h \in Sessions : poll[h] = "data")'
    BY <1>1, <2>1, <2>2 DEF OpenSucceeds, IInv, TypeOK
  <2>5. ~open
    BY <1>1 DEF OpenSucceeds, IInv, Bookkeeping
  <2>6. Contract!LinkOpen
    BY <1>1, <2>1, <2>3, <2>4, <2>5 DEF OpenSucceeds, Contract!LinkOpen, OwedErrors, RaisedErrors
  <2> QED BY <2>6 DEF Contract!LinkNext
<1>2. CASE OpenBegins \/ OpenConnects \/ ConnectFails \/ StartFails
  <2>1. UNCHANGED <<open, opens, poll, ended>>
    BY <1>2 DEF OpenBegins, OpenConnects, ConnectFails, StartFails, OpenThrows
  <2>2. owner \notin {"join", "teardown"} /\ owner' \notin {"join", "teardown"}
    BY <1>2 DEF OpenBegins, OpenConnects, ConnectFails, StartFails, OpenThrows
  <2> QED BY <2>1, <2>2, InvisibleElsewhere DEF Contract!linkVars, OwedErrors, RaisedErrors
<1>3. CASE CloseOpen
  <2>1. opens \in Sessions /\ poll[opens] \notin {"done"}
    BY <1>3 DEF CloseOpen, CloseStarts, IInv, TypeOK, Safety, OnePoller, Polling, Bookkeeping
  <2>2. RaisedErrors' = RaisedErrors
    BY <1>3, <2>1 DEF CloseOpen, CloseStarts, RaisedErrors, IInv, TypeOK
  <2>3. Contract!CloseBegins
    BY <1>3, <2>2 DEF CloseOpen, CloseStarts, Contract!CloseBegins, RaisedErrors
  <2> QED BY <2>3 DEF Contract!LinkNext
<1>4. CASE CloseClosed
  BY <1>4, InvisibleElsewhere DEF CloseClosed, Contract!linkVars, OwedErrors, RaisedErrors
<1>5. CASE CloseJoins
  BY <1>5, InvisibleElsewhere DEF CloseJoins, Contract!linkVars, OwedErrors, RaisedErrors
<1>6. CASE CloseTearsDown
  <2>1. ~open /\ ~\E h \in Sessions : poll[h] = "data"
    BY <1>6 DEF CloseTearsDown, IInv, Safety, OnePoller, Bookkeeping, Polling
  <2>2. Contract!CloseReturns
    BY <1>6, <2>1, InvisibleElsewhere
       DEF CloseTearsDown, Contract!CloseReturns, OwedErrors, RaisedErrors
  <2> QED BY <2>2 DEF Contract!LinkNext
<1>7. CASE Dispose
  BY <1>7, InvisibleElsewhere DEF Dispose, Contract!linkVars, OwedErrors, RaisedErrors
<1> QED BY <1>1, <1>2, <1>3, <1>4, <1>5, <1>6, <1>7 DEF OwnerStep

\* A poll thread delivers, fails its link, and raises the Error it owes.
LEMMA PollStepMaps ==
  ASSUME IInv, NEW g \in Sessions, PollStep(g)
  PROVE  [Contract!LinkNext]_(Contract!linkVars)
<1> USE DEF hostVars, ownerVars, histVars
<1>1. CASE PollEnds(g)
  BY <1>1, InvisiblePollStep DEF PollEnds
<1>2. CASE PollReadFails(g)
  BY <1>2, InvisiblePollStep DEF PollReadFails
<1>3. CASE PollReads(g)
  <2>1. g = opens /\ ~\E h \in Sessions : poll[h] = "data"
    BY <1>3 DEF PollReads, IInv, Safety, OnePoller, Polling
  <2>2. OwedErrors' = OwedErrors /\ RaisedErrors' = RaisedErrors
    BY <1>3 DEF PollReads, PollGoes, OwedErrors, RaisedErrors, IInv, TypeOK
  <2>3. Contract!DataBegins
    BY <1>3, <2>1, <2>2 DEF PollReads, PollGoes, Contract!DataBegins, OwedErrors, RaisedErrors, IInv, TypeOK
  <2> QED BY <2>3 DEF Contract!LinkNext
<1>4. CASE PollQuiet(g)
  BY <1>4, InvisiblePollStep DEF PollQuiet, PollIsQuiet
<1>5. CASE DataReceived(g)
  <2>1. g = opens /\ \A h \in Sessions : poll[h] = "data" => h = g
    BY <1>5 DEF DataReceived, IInv, Safety, OnePoller, Polling
  <2>2. ~(\E h \in Sessions : poll[h] = "data")'
    BY <1>5, <2>1 DEF DataReceived, PollGoes, IInv, TypeOK
  <2>3. OwedErrors' = OwedErrors /\ RaisedErrors' = RaisedErrors
    BY <1>5 DEF DataReceived, PollGoes, OwedErrors, RaisedErrors, IInv, TypeOK
  <2>4. Contract!DataEnds
    BY <1>5, <2>2, <2>3 DEF DataReceived, PollGoes, Contract!DataEnds, OwedErrors, RaisedErrors
  <2> QED BY <2>4 DEF Contract!LinkNext
<1>6. ASSUME FailLink(g) \/ CheckStalled(g) PROVE Contract!LinkFails
  <2>1. g = opens /\ open /\ ~\E h \in Sessions : poll[h] = "data"
    BY <1>6 DEF FailLink, CheckStalled, FailStalled, IInv, Safety, OnePoller, Polling
  <2>2. owner = "in" /\ ended[g] = "live" /\ poll[g] # "done"
    BY <1>6, <2>1 DEF FailLink, CheckStalled, FailStalled, IInv, Bookkeeping, TypeOK
  <2>3. poll' = [poll EXCEPT ![g] = "error"] \/ poll' = [poll EXCEPT ![g] = "stalled"]
    BY <1>6 DEF FailLink, CheckStalled, FailStalled
  <2>4. OwedErrors' = OwedErrors \union {opens}
    BY <2>1, <2>3 DEF OwedErrors, IInv, TypeOK
  <2>5. RaisedErrors' = RaisedErrors
    <3>1. ended' = [ended EXCEPT ![g] = "failed"]
      BY <1>6 DEF FailLink, CheckStalled, FailStalled, LinkDown
    <3> QED BY <2>2, <2>3, <3>1 DEF RaisedErrors, IInv, TypeOK
  <2>6. ~(\E h \in Sessions : poll[h] = "data")'
    BY <2>1, <2>3 DEF IInv, TypeOK
  <2>7. open' = FALSE /\ UNCHANGED <<owner, opens>>
    BY <1>6 DEF FailLink, CheckStalled, FailStalled, LinkDown
  <2> QED BY <2>1, <2>2, <2>4, <2>5, <2>6, <2>7 DEF Contract!LinkFails, OwedErrors, RaisedErrors
<1>7. CASE FailLinkLost(g)
  BY <1>7, InvisiblePollStep DEF FailLinkLost
<1>8. CASE CheckPasses(g)
  BY <1>8, InvisiblePollStep DEF CheckPasses
<1>9. CASE ErrorHandled(g)
  <2>1. ended[g] = "failed" /\ g \in OwedErrors /\ g \notin RaisedErrors
    BY <1>9 DEF ErrorHandled, OwedErrors, RaisedErrors, IInv, Bookkeeping
  <2>2. OwedErrors' = OwedErrors \ {g} /\ RaisedErrors' = RaisedErrors \union {g}
    BY <1>9, <2>1 DEF ErrorHandled, OwedErrors, RaisedErrors, IInv, TypeOK
  <2>3. (\E h \in Sessions : poll[h] = "data")' <=> (\E h \in Sessions : poll[h] = "data")
    BY <1>9 DEF ErrorHandled, IInv, TypeOK
  <2>4. UNCHANGED <<open, owner, opens>>
    BY <1>9 DEF ErrorHandled
  <2>5. Contract!ErrorRaised(g)
    BY <2>1, <2>2, <2>3, <2>4 DEF Contract!ErrorRaised, OwedErrors, RaisedErrors
  <2> QED BY <2>5 DEF Contract!LinkNext, Contract!Sessions
<1> QED BY <1>1, <1>2, <1>3, <1>4, <1>5, <1>6, <1>7, <1>8, <1>9 DEF PollStep, Contract!LinkNext

\* RttTransport keeps the promises of IRttTransport.
THEOREM ImplementsContract == Spec => LinkContract
<1>1. Init => Contract!LinkInit
  BY DEF Init, Contract!LinkInit
<1>2. IInv /\ [Next]_vars => [Contract!LinkNext]_(Contract!linkVars)
  <2> SUFFICES ASSUME IInv, [Next]_vars
               PROVE  [Contract!LinkNext]_(Contract!linkVars)
    OBVIOUS
  <2>1. CASE OwnerStep BY <2>1, OwnerStepMaps
  <2>2. CASE \E g \in Sessions : PollStep(g) BY <2>2, PollStepMaps
  <2>3. ASSUME NEW w \in Workers, WriteBegins(w) \/ WriteStep(w) \/ Halt(w) \/ Resume(w)
        PROVE  UNCHANGED <<open, owner, opens, poll, ended>>
    BY <2>3 DEF WriteBegins, WriteStep, WriteAccepts, WriteRetries, WriteFails, WriteTimesOut,
                WriteAborts, WriteGivesUp, Halt, HaltSets, Resume, hostVars, ownerVars, histVars
  <2>4. CASE World
    <3>1. UNCHANGED <<open, owner, opens, poll, ended>>
      BY <2>4 DEF World, ProbeLost, TargetPrints, CoreHalts, CoreResumes, hostVars, ownerVars, histVars
    <3> QED BY <3>1, InvisibleElsewhere DEF Contract!linkVars, OwedErrors, RaisedErrors
  <2>5. CASE UNCHANGED vars
    BY <2>5, InvisibleElsewhere DEF vars, Contract!linkVars, OwedErrors, RaisedErrors
  <2>6. CASE \E w \in Workers : WriteBegins(w) \/ WriteStep(w) \/ Halt(w) \/ Resume(w)
    BY <2>6, <2>3, InvisibleElsewhere DEF Contract!linkVars, OwedErrors, RaisedErrors
  <2> QED BY <2>1, <2>2, <2>4, <2>5, <2>6 DEF Next
<1> QED BY <1>1, <1>2, Invariance, PTL DEF Spec, LinkContract, Contract!LinkSpec
==============================================================================
