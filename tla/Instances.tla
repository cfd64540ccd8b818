------------------------------ MODULE Instances ------------------------------
(***************************************************************************)
(* What rttsh processes on one machine share: the lock file of each target *)
(* (TargetLock.cs), whose content is only the holder's PID, and the input  *)
(* history of a directory (TuiHistoryFile.cs).  A process may die at every *)
(* step; the kernel then closes its handles and nothing else is undone.    *)
(*                                                                         *)
(* The lock is the sharing rule of the file system: an open succeeds when  *)
(* what it wants and what it allows fit every handle that is open already. *)
(* A process stands for one run of the program and for its PID.            *)
(***************************************************************************)
EXTENDS FiniteSets

CONSTANTS
  Processes,   \* runs of the program, each with a PID of its own
  Targets,     \* chip, interface, probe and channel: the lock's name
  NoPid,       \* an empty note, or "PID unknown"
  Names,       \* bound: the names NewGuid can make for temporary files
  NoName,      \* no name has been made yet
  NoFile,      \* there is no such file
  Torn         \* a file whose writing was begun and not finished

ASSUME InstancesAssumption ==
  /\ NoPid \notin Processes
  /\ NoName \notin Names
  /\ NoFile \notin Processes /\ Torn \notin Processes /\ NoFile # Torn

VARIABLES
  target,    \* the target each process was started for
  at,        \* where each process is
  handle,    \* its handle on its target's lock file: "none", "lock" or "note"
  note,      \* the content of each target's lock file
  told,      \* whom a refused process named as the holder
  name,      \* the name it made for its temporary history file
  temp,      \* the temporary files, by name: whose save each holds
  file,      \* the history file: whose save it holds
  loaded     \* the history each process started from

vars == <<target, at, handle, note, told, name, temp, file, loaded>>

lockVars    == <<handle, note, told>>
historyVars == <<name, temp, file, loaded>>

Gone == {"ended", "dead"}

\* What a history file, temporary or not, may hold.
Content == Processes \union {NoFile, Torn}

TypeOK ==
  /\ target \in [Processes -> Targets]
  /\ at \in [Processes -> {"started", "opened", "emptied", "noted", "running", "saving",
                           "moving", "saved", "refused", "asking"} \union Gone]
  /\ handle \in [Processes -> {"none", "lock", "note"}]
  /\ note \in [Targets -> Processes \union {NoPid}]
  /\ told \in [Processes -> Processes \union {NoPid}]
  /\ name \in [Processes -> Names \union {NoName}]
  /\ temp \in [Names -> Content]
  /\ file \in Content
  /\ loaded \in [Processes -> Content]
  /\ \A p \in Processes : at[p] \in Gone \union {"started", "refused"} => handle[p] = "none"

Init ==
  /\ target \in [Processes -> Targets]
  /\ at = [p \in Processes |-> "started"]
  /\ handle = [p \in Processes |-> "none"]
  /\ note = [t \in Targets |-> NoPid]
  /\ told = [p \in Processes |-> NoPid]
  /\ name = [p \in Processes |-> NoName]
  /\ temp = [n \in Names |-> NoFile]
  /\ file = NoFile
  /\ loaded = [p \in Processes |-> NoFile]

Moves(p, from, to) ==
  /\ at[p] = from
  /\ at' = [at EXCEPT ![p] = to]
  /\ UNCHANGED target

------------------------------------------------------------------------------
(* TargetLock.                                                             *)

\* What a handle does with the file, and what it lets others do meanwhile.
Access(kind) == IF kind = "lock" THEN {"read", "write"} ELSE {"read"}

\* Slips: the lock lets others write; the reader of the note keeps writers out.
ShareAll(kind) == {"read", "write"}
ShareRead(kind) == {"read"}

Share(kind) == IF kind = "lock" THEN {"read"} ELSE {"read", "write"}

\* Process p can open its target's lock file.
CanOpen(p, kind) ==
  \A q \in Processes \ {p} :
    target[q] = target[p] /\ handle[q] # "none" =>
      Access(kind) \subseteq Share(handle[q]) /\ Access(handle[q]) \subseteq Share(kind)

Opens(p) ==
  /\ CanOpen(p, "lock")
  /\ Moves(p, "started", "opened")
  /\ handle' = [handle EXCEPT ![p] = "lock"]
  /\ UNCHANGED <<note, told, historyVars>>

\* ERROR_SHARING_VIOLATION: the target is held by another rttsh.
Refused(p) ==
  /\ ~CanOpen(p, "lock")
  /\ Moves(p, "started", "refused")
  /\ UNCHANGED <<lockVars, historyVars>>

\* Any other failure claims nothing about a holder.
OpenFails(p) ==
  /\ Moves(p, "started", "ended")
  /\ UNCHANGED <<lockVars, historyVars>>

\* SetLength(0): the note of the previous holder is gone.
Empties(p) ==
  /\ Moves(p, "opened", "emptied")
  /\ note' = [note EXCEPT ![target[p]] = NoPid]
  /\ UNCHANGED <<handle, told, historyVars>>

\* The PID is written and flushed.
Notes(p) ==
  /\ Moves(p, "emptied", "noted")
  /\ note' = [note EXCEPT ![target[p]] = p]
  /\ UNCHANGED <<handle, told, historyVars>>

\* ReadHolderPid: the note is opened, or cannot be: "PID unknown".
Asks(p) ==
  /\ CanOpen(p, "note")
  /\ Moves(p, "refused", "asking")
  /\ handle' = [handle EXCEPT ![p] = "note"]
  /\ UNCHANGED <<note, told, historyVars>>

AsksInVain(p) ==
  /\ Moves(p, "refused", "ended")
  /\ UNCHANGED <<lockVars, historyVars>>

\* Slip: the stream of the note is not closed.
TellsUnclosed(p) ==
  /\ Moves(p, "asking", "ended")
  /\ told' = [told EXCEPT ![p] = note[target[p]]]
  /\ UNCHANGED <<handle, note, historyVars>>

\* The note is read, named in the warning, and closed.
Tells(p) ==
  /\ Moves(p, "asking", "ended")
  /\ told' = [told EXCEPT ![p] = note[target[p]]]
  /\ handle' = [handle EXCEPT ![p] = "none"]
  /\ UNCHANGED <<note, historyVars>>

\* TargetLock.Dispose, at the end of the session.
Disposes(p) ==
  /\ Moves(p, "saved", "ended")
  /\ handle' = [handle EXCEPT ![p] = "none"]
  /\ UNCHANGED <<note, told, historyVars>>

LockStep(p) ==
  \/ Opens(p) \/ Refused(p) \/ OpenFails(p) \/ Empties(p) \/ Notes(p)
  \/ Asks(p) \/ AsksInVain(p) \/ Tells(p) \/ Disposes(p)

------------------------------------------------------------------------------
(* TuiHistoryFile.                                                         *)

\* A file that is missing or cannot be read is an empty history.
Loads(p) ==
  /\ Moves(p, "noted", "running")
  /\ loaded' = [loaded EXCEPT ![p] = file]
  /\ UNCHANGED <<lockVars, name, temp, file>>

\* Slip: one fixed name for the temporary file of every process.
OneName == {CHOOSE n \in Names : TRUE}

\* What NewGuid may return: a name that no process has made before.
NewGuid == {n \in Names : \A p \in Processes : name[p] # n}

\* No other process is writing the file n, so that p may create or move it.
NotInUse(p, n) == \A q \in Processes \ {p} : at[q] = "saving" => name[q] # n

\* WriteAllBytes creates the temporary file, or truncates one that is there.
SaveBegins(p) ==
  /\ Moves(p, "running", "saving")
  /\ \E n \in NewGuid :
       /\ NotInUse(p, n)
       /\ name' = [name EXCEPT ![p] = n]
       /\ temp' = [temp EXCEPT ![n] = Torn]
  /\ UNCHANGED <<lockVars, file, loaded>>

\* WriteAllBytes has written everything and closed the file.
SaveWrites(p) ==
  /\ Moves(p, "saving", "moving")
  /\ temp' = [temp EXCEPT ![name[p]] = p]
  /\ UNCHANGED <<lockVars, name, file, loaded>>

\* The atomic move of whatever the temporary file holds by now.
SaveMoves(p) ==
  /\ Moves(p, "moving", "saved")
  /\ temp[name[p]] # NoFile
  /\ NotInUse(p, name[p])
  /\ file' = temp[name[p]]
  /\ temp' = [temp EXCEPT ![name[p]] = NoFile]
  /\ UNCHANGED <<lockVars, name, loaded>>

\* An exception at any point of Save is swallowed, and the temporary file stays
\* as it is; other commands than the TUI have no history.
SaveFails(p) ==
  /\ \E from \in {"noted", "running", "saving", "moving"} : Moves(p, from, "saved")
  /\ UNCHANGED <<lockVars, historyVars>>

HistoryStep(p) ==
  Loads(p) \/ SaveBegins(p) \/ SaveWrites(p) \/ SaveMoves(p) \/ SaveFails(p)

------------------------------------------------------------------------------
\* The process is killed, crashes, or leaves by an unhandled exception.
Dies(p) ==
  /\ at[p] \notin Gone
  /\ at' = [at EXCEPT ![p] = "dead"]
  /\ handle' = [handle EXCEPT ![p] = "none"]
  /\ UNCHANGED <<target, note, told, historyVars>>

Next == \E p \in Processes : LockStep(p) \/ HistoryStep(p) \/ Dies(p)

Spec == Init /\ [][Next]_vars

------------------------------------------------------------------------------
(* Safety.                                                                 *)

\* One process has a target, and what the lock file says of it stays true for
\* as long as it does.
OneHolder ==
  \A p \in Processes : handle[p] = "lock" =>
    /\ \A q \in Processes \ {p} : target[q] = target[p] => handle[q] # "lock"
    /\ at[p] \notin {"opened", "emptied"} => note[target[p]] = p

\* A process is refused only while another one has its target: neither the
\* file of a process that died nor a refused process that is still reading the
\* note keeps anybody out.
RefusalIsReal ==
  [][\A p \in Processes : at[p] = "started" /\ at'[p] = "refused" =>
       \E q \in Processes \ {p} : target[q] = target[p] /\ handle[q] = "lock"]_vars

\* However saves, failures, deaths and loads fall, nobody loads a history that
\* was being written: no process creates, truncates or leaves half written the
\* file that another one is about to move into place.
HistoryWhole == \A p \in Processes : loaded[p] # Torn
==============================================================================
