----------------------------- MODULE HeldTarget -----------------------------
(***************************************************************************)
(* What TargetLock promises for one target: those who want it take it when *)
(* nobody has it and give it back, and it passes from one to another only  *)
(* through nobody's hands.  A process that dies gives it back; no file is  *)
(* mentioned, and none can be left behind.                                 *)
(***************************************************************************)

CONSTANT Owners      \* those who may hold the target

VARIABLE holders     \* the set of those who hold it

\* Somebody may have had it before.
HeldInit == holders = {} \/ \E o \in Owners : holders = {o}

\* TryAcquire succeeds.
Take(o) == holders = {} /\ holders' = {o}

\* Dispose, or the end of the process.
Give(o) == holders = {o} /\ holders' = {}

HeldNext == \E o \in Owners : Take(o) \/ Give(o)

HeldSpec == HeldInit /\ [][HeldNext]_holders
==============================================================================
