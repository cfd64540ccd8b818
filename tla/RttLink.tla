------------------------------- MODULE RttLink -------------------------------
(***************************************************************************)
(* What the rest of rttsh may rely on when it holds an IRttTransport       *)
(* (src/RttSh.Core/Rtt/IRttTransport.cs): a link that is opened and closed *)
(* by its owner, hands chunks to DataReceived while it is up, may close    *)
(* itself once per session and then raises Error exactly once, after it    *)
(* has closed itself.  Nothing here mentions the J-Link DLL, locks or the  *)
(* poll thread: RttTransport shows that they implement this contract.      *)
(***************************************************************************)
EXTENDS Naturals

CONSTANT MaxOpens     \* bound: successful Open calls on one transport

Sessions == 1 .. MaxOpens

VARIABLES
  link,       \* "closed", "open", or "closing" (Close has begun, not returned)
  session,    \* number of sessions opened so far; the last one is current
  inData,     \* a DataReceived callback is running
  owed,       \* sessions that closed themselves and whose Error has not returned
  raised      \* sessions whose Error callback has returned

linkVars == <<link, session, inData, owed, raised>>

LinkInit ==
  /\ link = "closed"
  /\ session = 0
  /\ inData = FALSE
  /\ owed = {}
  /\ raised = {}

\* Open: only a closed link opens, and never while a callback of data runs.
LinkOpen ==
  /\ link = "closed"
  /\ ~inData
  /\ session < MaxOpens
  /\ link' = "open"
  /\ session' = session + 1
  /\ UNCHANGED <<inData, owed, raised>>

\* DataReceived begins only on an open link: a chunk read before Close began
\* may still be in its callback while Close waits.
DataBegins ==
  /\ link = "open"
  /\ ~inData
  /\ inData' = TRUE
  /\ UNCHANGED <<link, session, owed, raised>>

DataEnds ==
  /\ inData
  /\ inData' = FALSE
  /\ UNCHANGED <<link, session, owed, raised>>

\* The link closes itself: it owes its subscribers one Error.
LinkFails ==
  /\ link = "open"
  /\ ~inData
  /\ link' = "closed"
  /\ owed' = owed \union {session}
  /\ UNCHANGED <<session, inData, raised>>

\* The Error of session s has been handled.
ErrorRaised(s) ==
  /\ s \in owed
  /\ s \notin raised
  /\ owed' = owed \ {s}
  /\ raised' = raised \union {s}
  /\ UNCHANGED <<link, session, inData>>

CloseBegins ==
  /\ link = "open"
  /\ link' = "closing"
  /\ UNCHANGED <<session, inData, owed, raised>>

\* Close returns only when no DataReceived callback is running.
CloseReturns ==
  /\ link = "closing"
  /\ ~inData
  /\ link' = "closed"
  /\ UNCHANGED <<session, inData, owed, raised>>

LinkNext ==
  \/ LinkOpen \/ DataBegins \/ DataEnds \/ LinkFails
  \/ CloseBegins \/ CloseReturns
  \/ \E s \in Sessions : ErrorRaised(s)

LinkSpec == LinkInit /\ [][LinkNext]_linkVars

==============================================================================
