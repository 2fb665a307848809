--------------------------- MODULE BatchContract ---------------------------
(***************************************************************************)
(* What ProcessFiles (src/workflow.go) promises to its caller, with no     *)
(* channel and no goroutine in sight.  A call owns a backlog of Total      *)
(* entries.  While it runs it settles entries, each at most once, as "ok"  *)
(* or "failed".  It returns when no entry is left to do, unless it has     *)
(* been excused: the context was cancelled or the backlog reader broke     *)
(* off.  It announces the number of successes on the way out and touches   *)
(* nothing afterwards.  It has room for as many errors as it has workers:  *)
(* with more it never returns, and with twice as many it settles nothing   *)
(* any more.  A call that cannot count or open the backlog aborts before   *)
(* any entry is touched.                                                   *)
(***************************************************************************)
EXTENDS Naturals, FiniteSets

CONSTANTS
  Total,        \* number of entries in the backlog: a natural number
  Concurrency   \* number of workers, and of errors the call has room for

Entry == 1..Total

VARIABLES
  phase,      \* "running", "returned" or "aborted"
  excused,    \* may the call return with entries left to do?
  fate,       \* fate[j]: what became of the j-th backlog entry
  announced   \* the number given to the last progress callback

vars == <<phase, excused, fate, announced>>

Settled(result) == {j \in Entry : fate[j] = result}

Init ==
  /\ phase = "running"
  /\ excused = FALSE
  /\ fate = [j \in Entry |-> "todo"]
  /\ announced = 0

\* The context is cancelled, or reading the backlog stops early.
Excuse ==
  /\ ~excused
  /\ excused' = TRUE
  /\ UNCHANGED <<phase, fate, announced>>

\* An entry gets its one and only outcome, as long as a worker is left: each that has
\* failed beyond the errors there is room for has cost one.
Settle(j) ==
  /\ phase = "running"
  /\ Cardinality(Settled("failed")) < 2 * Concurrency
  /\ fate[j] = "todo"
  /\ \E result \in {"ok", "failed"} : fate' = [fate EXCEPT ![j] = result]
  /\ UNCHANGED <<phase, excused, announced>>

\* The call returns only with all its workers.
Return ==
  /\ phase = "running"
  /\ Cardinality(Settled("failed")) <= Concurrency
  /\ excused \/ Settled("todo") = {}
  /\ phase' = "returned"
  /\ announced' = Cardinality(Settled("ok"))
  /\ UNCHANGED <<excused, fate>>

\* Counting or opening the backlog failed: nothing has been attempted.
Abort ==
  /\ phase = "running"
  /\ Settled("todo") = Entry
  /\ phase' = "aborted"
  /\ UNCHANGED <<excused, fate, announced>>

Next == Excuse \/ (\E j \in Entry : Settle(j)) \/ Return \/ Abort

Spec == Init /\ [][Next]_vars
=============================================================================
