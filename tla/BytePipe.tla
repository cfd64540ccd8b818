------------------------------ MODULE BytePipe ------------------------------
(***************************************************************************)
(* What each direction of the MCP stream promises: frames enter whole and  *)
(* in order, their units leave in that order and once, in pieces of any    *)
(* size.  When the pipe breaks its far end is lost and nothing more        *)
(* enters; what leaves before and after is still a prefix of what entered. *)
(***************************************************************************)
EXTENDS Naturals, Sequences

CONSTANT Frames    \* what may be put in at once: nonempty sequences of units

VARIABLES
  transit,    \* put in and neither delivered nor lost
  delivered,  \* handed over, in order
  open        \* frames still enter

pipeVars == <<transit, delivered, open>>

PipeInit == transit = <<>> /\ delivered = <<>> /\ open = TRUE

UnitsOf(s) == {s[i] : i \in DOMAIN s}

\* A frame enters once: none of its units has been here before.
Put ==
  /\ open
  /\ \E f \in Frames :
       /\ UnitsOf(f) \cap UnitsOf(delivered \o transit) = {}
       /\ transit' = transit \o f
  /\ UNCHANGED <<delivered, open>>

Deliver ==
  /\ \E n \in 1 .. Len(transit) :
       /\ delivered' = delivered \o SubSeq(transit, 1, n)
       /\ transit' = SubSeq(transit, n + 1, Len(transit))
  /\ UNCHANGED open

Breaks ==
  /\ open' = FALSE
  /\ \E n \in 0 .. Len(transit) : transit' = SubSeq(transit, 1, n)
  /\ UNCHANGED delivered

PipeNext == Put \/ Deliver \/ Breaks

PipeSpec == PipeInit /\ [][PipeNext]_pipeVars
==============================================================================
