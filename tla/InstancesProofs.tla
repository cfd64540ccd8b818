--------------------------- MODULE InstancesProofs ---------------------------
(***************************************************************************)
(* The safety of Instances for any number of processes and targets.  What  *)
(* OneHolder and HistoryWhole lack to be inductive: a process that has its *)
(* target has opened the lock file and not closed it, no two processes     *)
(* have made the same name, what a process is about to move is its own     *)
(* save to the end, and the history file is never torn.                    *)
(***************************************************************************)
EXTENDS Instances, TLAPS

\* From the open of the lock file to its Dispose.
Holding == {"opened", "emptied", "noted", "running", "saving", "moving", "saved"}

HandleFits ==
  \A p \in Processes :
    /\ handle[p] = "lock" <=> at[p] \in Holding
    /\ handle[p] = "note" <=> at[p] = "asking"

\* No two processes have made the same name.
NamesDiffer ==
  \A p, q \in Processes : name[p] = name[q] /\ name[p] # NoName => p = q

\* Who writes or is about to move has made a name, and what is about to be
\* moved into place is the mover's own save, written to the end.
TempFits ==
  \A p \in Processes :
    /\ at[p] \in {"saving", "moving"} => name[p] # NoName
    /\ at[p] = "moving" => temp[name[p]] = p

SavesFit == HistoryWhole /\ NamesDiffer /\ TempFits /\ file # Torn

IInv == TypeOK /\ OneHolder /\ HandleFits /\ SavesFit

\* Two locks on one file never fit each other.
LEMMA LockExcludes ==
  ASSUME NEW p \in Processes, NEW q \in Processes, p # q, CanOpen(p, "lock"),
         target[q] = target[p]
  PROVE  handle[q] # "lock"
BY DEF CanOpen, Access, Share

LEMMA InitEstablishes == Init => IInv
BY InstancesAssumption
   DEF Init, IInv, TypeOK, OneHolder, HandleFits, SavesFit, HistoryWhole, NamesDiffer, TempFits,
       Content, Holding, Gone

\* A step that leaves names and files alone, and begins no write and no move,
\* leaves the saves as they fit.
LEMMA SavesUntouched ==
  ASSUME SavesFit, TypeOK, UNCHANGED historyVars,
         \A p \in Processes : at'[p] \in {"saving", "moving"} => at'[p] = at[p]
  PROVE  SavesFit'
BY DEF SavesFit, HistoryWhole, NamesDiffer, TempFits, TypeOK, historyVars

\* A step of p inside its session leaves the lock file and its handles alone.
LEMMA LockUntouched ==
  ASSUME TypeOK, OneHolder, HandleFits, UNCHANGED <<target, handle, note>>,
         NEW p \in Processes,
         at[p] \in {"noted", "running", "saving", "moving"},
         NEW to \in {"running", "saving", "moving", "saved"}, at' = [at EXCEPT ![p] = to]
  PROVE  OneHolder' /\ HandleFits'
BY DEF OneHolder, HandleFits, Holding, TypeOK

LEMMA HistoryStepPreserves ==
  ASSUME IInv, NEW p \in Processes, HistoryStep(p)
  PROVE  IInv'
<1> USE InstancesAssumption DEF Moves, lockVars, historyVars
<1>1. OneHolder' /\ HandleFits'
  <2>1. /\ UNCHANGED <<target, handle, note>>
        /\ at[p] \in {"noted", "running", "saving", "moving"}
        /\ \E to \in {"running", "saving", "moving", "saved"} : at' = [at EXCEPT ![p] = to]
    BY DEF HistoryStep, Loads, SaveBegins, SaveWrites, SaveMoves, SaveFails
  <2> QED BY <2>1, LockUntouched DEF IInv
<1>2. CASE Loads(p)
  <2>1. TypeOK'
    BY <1>2 DEF IInv, TypeOK, Gone, Loads
  <2>2. SavesFit'
    BY <1>2 DEF IInv, TypeOK, SavesFit, HistoryWhole, NamesDiffer, TempFits, Loads
  <2> QED BY <1>1, <2>1, <2>2 DEF IInv
<1>3. CASE SaveBegins(p)
  <2>1. PICK n \in Names :
          /\ \A q \in Processes : name[q] # n
          /\ name' = [name EXCEPT ![p] = n]
          /\ temp' = [temp EXCEPT ![n] = Torn]
    BY <1>3 DEF SaveBegins, NewGuid
  <2>2. TypeOK'
    BY <1>3, <2>1 DEF IInv, TypeOK, Content, Gone, SaveBegins
  <2>3. NamesDiffer'
    BY <2>1 DEF IInv, TypeOK, SavesFit, NamesDiffer
  \* The file that another process is about to move has another name.
  <2>4. TempFits'
    <3>1. ASSUME NEW q \in Processes, at'[q] = "moving" PROVE temp'[name'[q]] = q
      <4>1. q # p /\ at[q] = "moving"
        BY <1>3, <3>1 DEF SaveBegins, IInv, TypeOK
      <4>2. name'[q] = name[q] /\ name[q] \in Names /\ name[q] # n
        BY <2>1, <4>1 DEF IInv, TypeOK, SavesFit, TempFits
      <4> QED BY <2>1, <4>1, <4>2 DEF IInv, TypeOK, SavesFit, TempFits
    <3>2. ASSUME NEW q \in Processes, at'[q] \in {"saving", "moving"} PROVE name'[q] # NoName
      BY <1>3, <2>1, <3>2 DEF SaveBegins, IInv, TypeOK, SavesFit, TempFits
    <3> QED BY <3>1, <3>2 DEF TempFits
  <2>5. HistoryWhole' /\ file' # Torn
    BY <1>3 DEF SaveBegins, IInv, SavesFit, HistoryWhole
  <2> QED BY <1>1, <2>2, <2>3, <2>4, <2>5 DEF IInv, SavesFit
<1>4. CASE SaveWrites(p)
  <2>1. name[p] \in Names /\ at[p] = "saving"
    BY <1>4 DEF SaveWrites, IInv, TypeOK, SavesFit, TempFits
  <2>2. TypeOK'
    BY <1>4, <2>1 DEF IInv, TypeOK, Content, Gone, SaveWrites
  <2>3. TempFits'
    <3>1. ASSUME NEW q \in Processes, at'[q] = "moving" PROVE temp'[name'[q]] = q
      <4>1. CASE q = p
        BY <1>4, <2>1, <4>1 DEF SaveWrites, IInv, TypeOK
      <4>2. CASE q # p
        <5>1. at[q] = "moving" /\ name[q] \in Names /\ name[q] # NoName
          BY <1>4, <3>1, <4>2 DEF SaveWrites, IInv, TypeOK, SavesFit, TempFits
        <5>2. name[q] # name[p]
          BY <4>2, <5>1 DEF IInv, SavesFit, NamesDiffer
        <5> QED BY <1>4, <5>1, <5>2 DEF SaveWrites, IInv, TypeOK, SavesFit, TempFits
      <4> QED BY <4>1, <4>2
    <3>2. ASSUME NEW q \in Processes, at'[q] \in {"saving", "moving"} PROVE name'[q] # NoName
      BY <1>4, <3>2 DEF SaveWrites, IInv, TypeOK, SavesFit, TempFits
    <3> QED BY <3>1, <3>2 DEF TempFits
  <2>4. HistoryWhole' /\ NamesDiffer' /\ file' # Torn
    BY <1>4 DEF SaveWrites, IInv, SavesFit, HistoryWhole, NamesDiffer
  <2> QED BY <1>1, <2>2, <2>3, <2>4 DEF IInv, SavesFit
<1>5. CASE SaveMoves(p)
  <2>1. at[p] = "moving" /\ name[p] \in Names /\ name[p] # NoName /\ temp[name[p]] = p
    BY <1>5 DEF SaveMoves, IInv, TypeOK, SavesFit, TempFits
  <2>2. TypeOK'
    BY <1>5, <2>1 DEF IInv, TypeOK, Content, Gone, SaveMoves
  <2>3. TempFits'
    <3>1. ASSUME NEW q \in Processes, at'[q] = "moving" PROVE temp'[name'[q]] = q
      <4>1. q # p /\ at[q] = "moving" /\ name[q] \in Names /\ name[q] # NoName
        BY <1>5, <3>1 DEF SaveMoves, IInv, TypeOK, SavesFit, TempFits
      <4>2. name[q] # name[p]
        BY <4>1 DEF IInv, SavesFit, NamesDiffer
      <4> QED BY <1>5, <4>1, <4>2 DEF SaveMoves, IInv, TypeOK, SavesFit, TempFits
    <3>2. ASSUME NEW q \in Processes, at'[q] \in {"saving", "moving"} PROVE name'[q] # NoName
      BY <1>5, <3>2 DEF SaveMoves, IInv, TypeOK, SavesFit, TempFits
    <3> QED BY <3>1, <3>2 DEF TempFits
  <2>4. file' = p /\ HistoryWhole' /\ NamesDiffer'
    BY <1>5, <2>1 DEF SaveMoves, IInv, SavesFit, HistoryWhole, NamesDiffer
  <2> QED BY <1>1, <2>2, <2>3, <2>4 DEF IInv, SavesFit
<1>6. CASE SaveFails(p)
  <2>1. TypeOK'
    BY <1>6 DEF IInv, TypeOK, Gone, SaveFails
  <2>2. SavesFit'
    BY <1>6, SavesUntouched DEF IInv, TypeOK, SaveFails
  <2> QED BY <1>1, <2>1, <2>2 DEF IInv
<1> QED BY <1>2, <1>3, <1>4, <1>5, <1>6 DEF HistoryStep

LEMMA LockStepPreserves ==
  ASSUME IInv, NEW p \in Processes, LockStep(p)
  PROVE  IInv'
<1> USE InstancesAssumption DEF Moves, lockVars, historyVars
<1>0. SavesFit'
  <2>1. UNCHANGED historyVars
    BY DEF LockStep, Opens, Refused, OpenFails, Empties, Notes, Asks, AsksInVain, Tells, Disposes
  <2>2. \A q \in Processes : at'[q] \in {"saving", "moving"} => at'[q] = at[q]
    BY DEF LockStep, Opens, Refused, OpenFails, Empties, Notes, Asks, AsksInVain, Tells, Disposes,
           IInv, TypeOK
  <2> QED BY <2>1, <2>2, SavesUntouched DEF IInv
<1> SUFFICES TypeOK' /\ OneHolder' /\ HandleFits'
  BY <1>0 DEF IInv
<1>1. CASE Opens(p)
  <2>1. TypeOK' /\ HandleFits'
    BY <1>1 DEF IInv, TypeOK, HandleFits, Holding, Gone, Opens
  <2>2. \A q \in Processes \ {p} : target[q] = target[p] => handle[q] # "lock"
    BY <1>1, LockExcludes DEF Opens
  <2>3. OneHolder'
    BY <1>1, <2>2 DEF IInv, TypeOK, OneHolder, Opens
  <2> QED BY <2>1, <2>3
<1>2. CASE Refused(p)
  BY <1>2 DEF IInv, TypeOK, OneHolder, HandleFits, Holding, Gone, Refused
<1>3. CASE OpenFails(p)
  BY <1>3 DEF IInv, TypeOK, OneHolder, HandleFits, Holding, Gone, OpenFails
<1>4. CASE Empties(p)
  BY <1>4 DEF IInv, TypeOK, OneHolder, HandleFits, Holding, Gone, Empties
<1>5. CASE Notes(p)
  BY <1>5 DEF IInv, TypeOK, OneHolder, HandleFits, Holding, Gone, Notes
<1>6. CASE Asks(p)
  BY <1>6 DEF IInv, TypeOK, OneHolder, HandleFits, Holding, Gone, Asks
<1>7. CASE AsksInVain(p)
  BY <1>7 DEF IInv, TypeOK, OneHolder, HandleFits, Holding, Gone, AsksInVain
<1>8. CASE Tells(p)
  BY <1>8 DEF IInv, TypeOK, OneHolder, HandleFits, Holding, Gone, Tells
<1>9. CASE Disposes(p)
  BY <1>9 DEF IInv, TypeOK, OneHolder, HandleFits, Holding, Gone, Disposes
<1> QED
  BY <1>1, <1>2, <1>3, <1>4, <1>5, <1>6, <1>7, <1>8, <1>9 DEF LockStep

\* A death closes the handle wherever it happens, and leaves a temporary file
\* as it is.
LEMMA DeathPreserves ==
  ASSUME IInv, NEW p \in Processes, Dies(p)
  PROVE  IInv'
<1> USE DEF historyVars
<1>1. TypeOK' /\ OneHolder' /\ HandleFits'
  BY DEF IInv, TypeOK, OneHolder, HandleFits, Holding, Gone, Dies
<1>2. SavesFit'
  BY SavesUntouched DEF IInv, TypeOK, Dies
<1> QED BY <1>1, <1>2 DEF IInv

LEMMA StepPreserves == IInv /\ [Next]_vars => IInv'
<1>1. ASSUME IInv, Next PROVE IInv'
  BY <1>1, LockStepPreserves, HistoryStepPreserves, DeathPreserves DEF Next
<1>2. ASSUME IInv, UNCHANGED vars PROVE IInv'
  BY <1>2 DEF vars, IInv, TypeOK, OneHolder, HandleFits, SavesFit, HistoryWhole, NamesDiffer, TempFits
<1> QED BY <1>1, <1>2

\* Whatever processes do, and wherever they die, the invariant holds.
THEOREM Invariance == Spec => []IInv
BY InitEstablishes, StepPreserves, PTL DEF Spec

\* The state of locks, notes and history files is well typed, and nobody who
\* has gone, or has been refused, has a handle.
THEOREM TypeCorrect == Spec => []TypeOK
<1>1. IInv => TypeOK BY DEF IInv
<1> QED BY Invariance, <1>1, PTL

\* However many processes are started for a target, one at most has it, and the
\* lock file names it.
THEOREM HolderUnique == Spec => []OneHolder
<1>1. IInv => OneHolder BY DEF IInv
<1> QED BY Invariance, <1>1, PTL

\* Temporary files with names of their own and an atomic move: whatever other
\* processes write, leave half written or move meanwhile, no process loads a
\* history that was not written to the end.
THEOREM HistoryNeverTorn == Spec => []HistoryWhole
<1>1. IInv => HistoryWhole BY DEF IInv, SavesFit
<1> QED BY Invariance, <1>1, PTL

\* A leftover lock file, and a process that only reads the note, refuse nobody:
\* who does not fit next to another handle does not fit next to a lock.
THEOREM RefusalGenuine == Spec => RefusalIsReal
<1> DEFINE Real(p) == \E q \in Processes \ {p} : target[q] = target[p] /\ handle[q] = "lock"
<1>1. ASSUME IInv, NEW p \in Processes, ~CanOpen(p, "lock") PROVE Real(p)
  <2>1. PICK q \in Processes \ {p} :
          /\ target[q] = target[p] /\ handle[q] # "none"
          /\ ~(Access("lock") \subseteq Share(handle[q]) /\ Access(handle[q]) \subseteq Share("lock"))
    BY <1>1 DEF CanOpen
  <2>2. handle[q] \in {"lock", "note"}
    BY <1>1, <2>1 DEF IInv, TypeOK
  <2>3. handle[q] # "note"
    BY <2>1 DEF Access, Share
  <2> QED BY <2>1, <2>2, <2>3
<1>2. ASSUME IInv, NEW q \in Processes, LockStep(q), NEW p \in Processes,
             at[p] = "started", at'[p] = "refused"
      PROVE  p = q /\ ~CanOpen(p, "lock")
  BY <1>2 DEF IInv, TypeOK, LockStep, Opens, Refused, OpenFails, Empties, Notes, Asks, AsksInVain,
              Tells, Disposes, Moves
<1>3. ASSUME IInv, NEW q \in Processes, HistoryStep(q) \/ Dies(q), NEW p \in Processes,
             at[p] = "started", at'[p] = "refused"
      PROVE  FALSE
  BY <1>3 DEF IInv, TypeOK, HistoryStep, Loads, SaveBegins, SaveWrites, SaveMoves, SaveFails,
              Dies, Moves
<1>4. ASSUME IInv, [Next]_vars
      PROVE  [\A p \in Processes : at[p] = "started" /\ at'[p] = "refused" => Real(p)]_vars
  BY <1>1, <1>2, <1>3, <1>4 DEF Next
<1> QED BY Invariance, <1>4, PTL DEF Spec, RefusalIsReal

------------------------------------------------------------------------------
(* What processes leave behind for others: the note, the name a refused    *)
(* process is told, the history file and what is loaded from it.  Where a  *)
(* process has been is told by two history variables, which no step reads. *)

VARIABLES
  had,     \* the processes that have had their target's lock
  kept     \* the processes that have moved their temporary file into place

histVars == <<vars, had, kept>>

HistInit == Init /\ had = {} /\ kept = {}

HistNext ==
  /\ Next
  /\ had' = had \union {p \in Processes : handle'[p] = "lock"}
  /\ kept' = kept \union {p \in Processes : SaveMoves(p)}

HistSpec == HistInit /\ [][HistNext]_histVars

\* The note of a target names a process that was started for it and got it.
NoteTrue == \A t \in Targets : note[t] # NoPid => note[t] \in had /\ target[note[t]] = t

\* A refused process blames another one, and one that did have the target.
ToldTrue ==
  \A p \in Processes : told[p] # NoPid =>
    told[p] \in had \ {p} /\ target[told[p]] = target[p]

\* The history file is the whole save of a process, and so is every history
\* that another one started from.
FileTrue == file # NoFile => file \in kept
LoadTrue == \A p \in Processes : loaded[p] # NoFile => loaded[p] \in kept \ {p}

\* Nobody goes back behind its lock or its save.
PastKept ==
  /\ \A p \in Processes : handle[p] = "lock" => p \in had
  /\ \A p \in had : p \in Processes /\ at[p] \in Holding \union Gone
  /\ \A p \in kept : p \in Processes /\ at[p] \in {"saved"} \union Gone

Legacies == PastKept /\ NoteTrue /\ ToldTrue /\ FileTrue /\ LoadTrue

LEMMA LegaciesStart == HistInit => Legacies
BY DEF HistInit, Init, Legacies, PastKept, NoteTrue, ToldTrue, FileTrue, LoadTrue

\* Where the places and handles of one step can go.
LEMMA PlacesMove ==
  ASSUME IInv, Next, NEW q \in Processes
  PROVE  /\ target'[q] = target[q]
         /\ at[q] \in Holding \union Gone => at'[q] \in Holding \union Gone
         /\ at[q] \in {"saved"} \union Gone => at'[q] \in {"saved"} \union Gone
<1>1. PICK p \in Processes : LockStep(p) \/ HistoryStep(p) \/ Dies(p)
  BY DEF Next
<1> USE DEF Moves, IInv, TypeOK, Holding, Gone, historyVars
<1>2. CASE LockStep(p)
  BY <1>2 DEF LockStep, Opens, Refused, OpenFails, Empties, Notes, Asks, AsksInVain, Tells, Disposes
<1>3. CASE HistoryStep(p)
  BY <1>3 DEF HistoryStep, Loads, SaveBegins, SaveWrites, SaveMoves, SaveFails
<1>4. CASE Dies(p)
  BY <1>4 DEF Dies
<1> QED BY <1>1, <1>2, <1>3, <1>4

LEMMA PastStaysKept ==
  ASSUME IInv, PastKept, HistNext
  PROVE  PastKept'
<1>1. IInv'
  BY StepPreserves DEF HistNext
<1>2. ASSUME NEW p \in had' PROVE p \in Processes /\ at'[p] \in Holding \union Gone
  <2>1. p \in had \/ (p \in Processes /\ handle'[p] = "lock")
    BY <1>2 DEF HistNext
  <2>2. CASE p \in had
    BY <2>2, PlacesMove DEF PastKept, HistNext
  <2>3. CASE p \in Processes /\ handle'[p] = "lock"
    BY <1>1, <2>3 DEF IInv, HandleFits
  <2> QED BY <2>1, <2>2, <2>3
<1>3. ASSUME NEW p \in kept' PROVE p \in Processes /\ at'[p] \in {"saved"} \union Gone
  <2>1. p \in kept \/ (p \in Processes /\ SaveMoves(p))
    BY <1>3 DEF HistNext
  <2>2. CASE p \in kept
    BY <2>2, PlacesMove DEF PastKept, HistNext
  <2>3. CASE p \in Processes /\ SaveMoves(p)
    BY <2>3 DEF SaveMoves, Moves, IInv, TypeOK
  <2> QED BY <2>1, <2>2, <2>3
<1> QED BY <1>2, <1>3 DEF PastKept, HistNext

LEMMA NotesStayTrue ==
  ASSUME IInv, PastKept, NoteTrue, ToldTrue, HistNext
  PROVE  NoteTrue' /\ ToldTrue'
<1>1. PICK p \in Processes : LockStep(p) \/ HistoryStep(p) \/ Dies(p)
  BY DEF HistNext, Next
<1> had \subseteq had' /\ \A q \in Processes : target'[q] = target[q]
  BY PlacesMove DEF HistNext
<1> \A q \in had : q \in Processes
  BY DEF PastKept
<1>2. CASE Empties(p)
  <2>1. told' = told /\ \A t \in Targets : note'[t] = note[t] \/ note'[t] = NoPid
    BY <1>2 DEF Empties, IInv, TypeOK
  <2> QED BY <2>1 DEF NoteTrue, ToldTrue
<1>3. CASE Notes(p)
  <2>1. /\ told' = told
        /\ \A t \in Targets : note'[t] = IF t = target[p] THEN p ELSE note[t]
    BY <1>3 DEF Notes, IInv, TypeOK
  <2>2. p \in had
    BY <1>3 DEF Notes, Moves, IInv, HandleFits, Holding, PastKept
  <2> QED BY <2>1, <2>2 DEF NoteTrue, ToldTrue
<1>4. CASE Tells(p)
  <2>1. /\ note' = note /\ at[p] = "asking" /\ target[p] \in Targets
        /\ \A q \in Processes : told'[q] = IF q = p THEN note[target[p]] ELSE told[q]
    BY <1>4 DEF Tells, Moves, IInv, TypeOK
  <2>2. p \notin had
    BY <2>1 DEF PastKept, Holding, Gone
  <2>3. note[target[p]] # NoPid => note[target[p]] \in had \ {p}
                                   /\ target[note[target[p]]] = target[p]
    BY <2>1, <2>2 DEF NoteTrue
  <2> QED BY <2>1, <2>3 DEF NoteTrue, ToldTrue
<1>5. CASE ~(Empties(p) \/ Notes(p) \/ Tells(p))
  <2>1. note' = note /\ told' = told
    BY <1>1, <1>5
       DEF LockStep, Opens, Refused, OpenFails, Asks, AsksInVain, Disposes, HistoryStep,
           Loads, SaveBegins, SaveWrites, SaveMoves, SaveFails, Dies, lockVars
  <2> QED BY <2>1 DEF NoteTrue, ToldTrue
<1> QED BY <1>2, <1>3, <1>4, <1>5

LEMMA SavesStayTrue ==
  ASSUME IInv, PastKept, FileTrue, LoadTrue, HistNext
  PROVE  FileTrue' /\ LoadTrue'
<1>1. PICK p \in Processes : LockStep(p) \/ HistoryStep(p) \/ Dies(p)
  BY DEF HistNext, Next
<1> kept \subseteq kept'
  BY DEF HistNext
<1>2. CASE Loads(p)
  <2>1. /\ file' = file /\ at[p] = "noted"
        /\ \A q \in Processes : loaded'[q] = IF q = p THEN file ELSE loaded[q]
    BY <1>2 DEF Loads, Moves, IInv, TypeOK
  <2>2. p \notin kept
    BY <2>1 DEF PastKept, Gone
  <2> QED BY <2>1, <2>2 DEF FileTrue, LoadTrue
<1>3. CASE SaveMoves(p)
  <2>1. file' = temp[name[p]] /\ loaded' = loaded
    BY <1>3 DEF SaveMoves
  \* What p moves is its own save.
  <2>2. temp[name[p]] = p
    BY <1>3 DEF SaveMoves, Moves, IInv, SavesFit, TempFits
  <2> QED BY <1>3, <2>1, <2>2 DEF FileTrue, LoadTrue, HistNext
<1>4. CASE ~(Loads(p) \/ SaveMoves(p))
  <2>1. file' = file /\ loaded' = loaded
    BY <1>1, <1>4
       DEF LockStep, Opens, Refused, OpenFails, Empties, Notes, Asks, AsksInVain, Tells, Disposes,
           HistoryStep, SaveBegins, SaveWrites, SaveFails, Dies, historyVars
  <2> QED BY <2>1 DEF FileTrue, LoadTrue
<1> QED BY <1>2, <1>3, <1>4

LEMMA HistInvariance == HistSpec => [](IInv /\ Legacies)
<1>1. IInv /\ Legacies /\ [HistNext]_histVars => (IInv /\ Legacies)'
  <2>1. ASSUME IInv, Legacies, HistNext PROVE IInv' /\ Legacies'
    BY <2>1, StepPreserves, PastStaysKept, NotesStayTrue, SavesStayTrue DEF Legacies, HistNext
  <2>2. ASSUME IInv, Legacies, UNCHANGED histVars PROVE IInv' /\ Legacies'
    <3>1. IInv'
      BY <2>2, StepPreserves DEF histVars
    <3>2. Legacies'
      BY <2>2 DEF histVars, vars, Legacies, PastKept, NoteTrue, ToldTrue, FileTrue, LoadTrue
    <3> QED BY <3>1, <3>2
  <2> QED BY <2>1, <2>2
<1>2. HistInit => IInv
  BY InitEstablishes DEF HistInit
<1> QED BY LegaciesStart, <1>1, <1>2, PTL DEF HistSpec

\* "is already held by another rttsh (PID ...)" names neither the refused process
\* itself nor a stranger: the PID is that of a process that was started for the
\* same target and had its lock.  It may be gone by then; from the SetLength of
\* its successor to the new note the PID is unknown.
THEOREM WarningTrue == HistSpec => [](NoteTrue /\ ToldTrue)
BY HistInvariance, PTL DEF Legacies

\* The history file, and every history a process starts from, is what another
\* process wrote to the end and moved into place, also when that one died right
\* after or saves and loads of other processes fell in between.
THEOREM HistoryIsASave == HistSpec => [](FileTrue /\ LoadTrue)
BY HistInvariance, PTL DEF Legacies

------------------------------------------------------------------------------
(* The lock file implements HeldTarget, for each target.                   *)

Having(t) == {p \in Processes : target[p] = t /\ handle[p] = "lock"}

Held(t) == INSTANCE HeldTarget WITH Owners <- Processes, holders <- Having(t)

LEMMA HeldStarts ==
  ASSUME NEW t \in Targets, Init
  PROVE  Held(t)!HeldInit
BY DEF Init, Held!HeldInit, Having

LEMMA HeldSteps ==
  ASSUME NEW t \in Targets, IInv, Next
  PROVE  Held(t)!HeldNext \/ UNCHANGED Having(t)
<1>1. PICK p \in Processes : LockStep(p) \/ HistoryStep(p) \/ Dies(p)
  BY DEF Next
<1> target' = target
  BY <1>1 DEF LockStep, HistoryStep, Opens, Refused, OpenFails, Empties, Notes, Asks, AsksInVain,
       Tells, Disposes, Loads, SaveBegins, SaveWrites, SaveMoves, SaveFails, Dies, Moves
<1>2. CASE target[p] = t /\ handle[p] # "lock" /\ handle'[p] = "lock"
  <2>1. Opens(p)
    BY <1>1, <1>2
       DEF LockStep, HistoryStep, Refused, OpenFails, Empties, Notes, Asks, AsksInVain, Tells,
           Disposes, Loads, SaveBegins, SaveWrites, SaveMoves, SaveFails, Dies, lockVars, IInv, TypeOK
  <2>2. \A q \in Processes \ {p} : target[q] = target[p] => handle[q] # "lock"
    BY <2>1, LockExcludes DEF Opens
  <2>3. Having(t) = {}
    BY <1>2, <2>2 DEF Having
  <2>4. Having(t)' = {p}
    BY <1>2, <2>1, <2>2 DEF Having, Opens, IInv, TypeOK
  <2>5. Held(t)!Take(p)
    BY <2>3, <2>4 DEF Held!Take
  <2> QED BY <2>5 DEF Held!HeldNext
<1>3. CASE target[p] = t /\ handle[p] = "lock" /\ handle'[p] # "lock"
  <2>1. \A q \in Processes \ {p} : target[q] = t => handle[q] # "lock"
    BY <1>3 DEF IInv, OneHolder
  <2>2. Having(t) = {p}
    BY <1>3, <2>1 DEF Having
  <2>3. \A q \in Processes \ {p} : handle'[q] = handle[q]
    BY <1>1
       DEF LockStep, HistoryStep, Opens, Refused, OpenFails, Empties, Notes, Asks, AsksInVain, Tells,
           Disposes, Loads, SaveBegins, SaveWrites, SaveMoves, SaveFails, Dies, lockVars, IInv, TypeOK
  <2>4. Having(t)' = {}
    BY <1>3, <2>1, <2>3 DEF Having
  <2>5. Held(t)!Give(p)
    BY <2>2, <2>4 DEF Held!Give
  <2> QED BY <2>5 DEF Held!HeldNext
<1>4. CASE target[p] = t => (handle[p] = "lock" <=> handle'[p] = "lock")
  <2>1. \A q \in Processes \ {p} : handle'[q] = handle[q]
    BY <1>1
       DEF LockStep, HistoryStep, Opens, Refused, OpenFails, Empties, Notes, Asks, AsksInVain, Tells,
           Disposes, Loads, SaveBegins, SaveWrites, SaveMoves, SaveFails, Dies, lockVars, IInv, TypeOK
  <2> QED BY <1>4, <2>1 DEF Having
<1> QED BY <1>2, <1>3, <1>4

\* Every open, refusal, Dispose and death keeps TargetLock's promise for each
\* target: taken from nobody, given back by the one who has it.
THEOREM LockImplementsHeld ==
  ASSUME NEW t \in Targets
  PROVE  Spec => Held(t)!HeldSpec
<1>1. Init => Held(t)!HeldInit
  BY HeldStarts
<1>2. ASSUME IInv, [Next]_vars PROVE [Held(t)!HeldNext]_(Having(t))
  <2>1. CASE Next
    BY <1>2, <2>1, HeldSteps
  <2>2. CASE UNCHANGED vars
    BY <2>2 DEF vars, Having
  <2> QED BY <1>2, <2>1, <2>2
<1>3. IInv /\ [Next]_vars => [Held(t)!HeldNext]_(Having(t))
  BY <1>2
<1> QED BY Invariance, <1>1, <1>3, PTL DEF Spec, Held!HeldSpec
==============================================================================
