------------------------------- MODULE RxStream -------------------------------
(***************************************************************************)
(* What ScriptRuntime promises a script about the received stream          *)
(* (ScriptRuntime's class comment and the comments of its operations),     *)
(* without saying how it is buffered:                                      *)
(*   - received output is read in order, each unit once: a taking call     *)
(*     (expect, expect_any, expect_absent on a hit, read) returns a prefix *)
(*     of what is unread and that prefix is gone;                          *)
(*   - wait is a passive tap: it returns a stretch of what is unread and   *)
(*     leaves all of it there;                                             *)
(*   - only flush discards, and a call that fails takes nothing.           *)
(***************************************************************************)
EXTENDS Naturals, Sequences

CONSTANT Symbols   \* units of output

VARIABLES
  unread,   \* received and not yet taken, in order of arrival
  call,     \* "none", or the kind of the call in progress: "take", "tap", "drop"
  reply     \* what the last call returned

rxVars == <<unread, call, reply>>

RxInit == unread = <<>> /\ call = "none" /\ reply = <<>>

Receive == \E x \in Symbols : unread' = Append(unread, x) /\ UNCHANGED <<call, reply>>

Ask ==
  /\ call = "none"
  /\ call' \in {"take", "tap", "drop"}
  /\ reply' = <<>>
  /\ UNCHANGED unread

\* A call that returns nothing: refused, failed, timed out.
Decline == call' = "none" /\ reply' = <<>> /\ UNCHANGED unread

Take ==
  /\ call = "take"
  /\ call' = "none"
  /\ \E n \in 0 .. Len(unread) :
       /\ reply' = SubSeq(unread, 1, n)
       /\ unread' = SubSeq(unread, n + 1, Len(unread))

Tap ==
  /\ call = "tap"
  /\ call' = "none"
  /\ \E m, n \in 0 .. Len(unread) : reply' = SubSeq(unread, m + 1, n)
  /\ UNCHANGED unread

Drop ==
  /\ call = "drop"
  /\ call' = "none"
  /\ reply' = <<>>
  /\ \E n \in 0 .. Len(unread) : unread' = SubSeq(unread, n + 1, Len(unread))

RxNext == Receive \/ Ask \/ Decline \/ Take \/ Tap \/ Drop

RxSpec == RxInit /\ [][RxNext]_rxVars
==============================================================================
