---------------------------- MODULE ScanContract ----------------------------
(***************************************************************************)
(* What ScanAndFilter (src/workflow.go) promises to its caller, with no    *)
(* channel and no goroutine in sight: one loop that opens the backlog,     *)
(* stores the files that need processing in the order of the walk and      *)
(* closes it.  It may stop anywhere, but then the call fails or has been   *)
(* cancelled; a file is left out only by an error that is just logged, and *)
(* once the backlog is closed the call does not touch it.  This is the     *)
(* scan that BatchCycle takes for granted.                                 *)
(***************************************************************************)
EXTENDS Naturals, Sequences

CONSTANT Stale   \* what the backlog holds before the call

VARIABLES
  phase,      \* "called", "writing", "closed", "ok" or "failed"
  backlog,
  wanted,     \* the numbers of the files that need processing
  lost,       \* those left out because of an error that is only logged
  cancelled

vars == <<phase, backlog, wanted, lost, cancelled>>

Stored == {backlog[i] : i \in DOMAIN backlog}
Left == wanted \ (lost \union Stored)

Init ==
  /\ phase = "called"
  /\ backlog = <<Stale>>
  /\ wanted \subseteq Nat \ {Stale} /\ lost = {}
  /\ cancelled = FALSE

Cancel ==
  /\ ~cancelled
  /\ cancelled' = TRUE
  /\ UNCHANGED <<phase, backlog, wanted, lost>>

Open ==
  /\ phase = "called"
  /\ phase' = "writing"
  /\ backlog' = <<>>
  /\ UNCHANGED <<wanted, lost, cancelled>>

\* The next file, and no other.
Store ==
  /\ phase = "writing"
  /\ \E file \in Left :
       /\ \A other \in Left : file <= other
       /\ backlog' = Append(backlog, file)
  /\ UNCHANGED <<phase, wanted, lost, cancelled>>

\* No longer when the call has succeeded, unless it was cancelled: nobody looks anything
\* up then.
LeaveOut ==
  /\ phase # "ok" \/ cancelled
  /\ lost \subseteq lost' /\ lost' \subseteq lost \union Left
  /\ UNCHANGED <<phase, backlog, wanted, cancelled>>

\* What could not be flushed is cut off and counts as left out.
Close ==
  /\ phase = "writing"
  /\ phase' \in {"closed", "failed"}
  /\ \/ UNCHANGED <<backlog, lost>>
     \/ \E kept \in 0..Len(backlog) :
          /\ backlog' = SubSeq(backlog, 1, kept)
          /\ lost' = lost \union {backlog[i] : i \in (kept + 1)..Len(backlog)}
  /\ UNCHANGED <<wanted, cancelled>>

Return ==
  /\ phase \in {"called", "closed"}
  /\ \/ phase' = "failed"
     \/ phase' = "ok" /\ phase = "closed" /\ (cancelled \/ Left = {})
  /\ UNCHANGED <<backlog, wanted, lost, cancelled>>

Next == Cancel \/ Open \/ Store \/ LeaveOut \/ Close \/ Return

Spec == Init /\ [][Next]_vars
=============================================================================
