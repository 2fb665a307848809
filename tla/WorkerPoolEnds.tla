--------------------------- MODULE WorkerPoolEnds ---------------------------
(***************************************************************************)
(* Why a call of ProcessFiles ends, or why it does not, without a word of  *)
(* fairness: every step uses up one of a number of steps fixed at the      *)
(* start, so that no goroutine goes round in circles, and the only state   *)
(* in which all of them wait is the one with more errors than errChan has  *)
(* room for.  TLC checks both on MCWorkerPool, WorkerPoolEndsProofs proves *)
(* them.                                                                   *)
(***************************************************************************)
EXTENDS WorkerPoolInv

OneIf(condition) == IF condition THEN 1 ELSE 0

\* What is left to a worker once it waits for the next entry, and before.
StepsAt(place) ==
  CASE place = "busy" -> 4
    [] place \in {"errSend", "report"} -> 3
    [] place \in {"off", "recv"} -> 2
    [] place = "exit" -> 1
    [] OTHER -> 0

AtLeast(n) == {w \in Worker : StepsAt(worker[w]) >= n}

\* The steps of all workers together: each counts once for every step left to it.
WorkerSteps ==
  Cardinality(AtLeast(1)) + Cardinality(AtLeast(2)) + Cardinality(AtLeast(3))
    + Cardinality(AtLeast(4))

\* The caller's own steps, the cancellation, and the ends of reader and feeder.
OtherSteps ==
  (CASE main = "count" -> 3
     [] main = "open" -> 2
     [] main = "wait" -> 1
     [] OTHER -> 0)
    + OneIf(ctx = "live") + OneIf(~RelPathsClosed) + OneIf(feeder # "done")

\* An entry takes six steps: into relPaths, to the feeder, into workerChan, to a worker,
\* to its outcome, and to its error or report.
EntrySteps ==
  6 * (Total + 1 - nextEntry) + 5 * Len(relPaths) + 4 * OneIf(feeder = "send")
    + 3 * Len(workerChan)

StepsLeft == OtherSteps + EntrySteps + WorkerSteps

\* A call takes at most 6 * Total + 2 * Concurrency + 6 steps, cancellation and broken
\* reads included: no loop of the reader, the feeder or a worker turns without an
\* entry, none waits by spinning, and nothing is queued twice (workflow.go:144-173).
StepsRunOut ==
  [][StepsLeft' < StepsLeft /\ {StepsLeft, StepsLeft'} \subseteq Nat]_vars

-----------------------------------------------------------------------------
(* Who can take a step *)

CallerCan == \/ main \in {"count", "open"}
             \/ main = "wait" /\ AllSignalled

ReaderCan ==
  /\ reader = "reading"
  /\ nextEntry > Total \/ ctx = "done" \/ Len(relPaths) < ReadBuffer

FeederCan ==
  \/ feeder = "recv" /\ (relPaths # <<>> \/ RelPathsClosed)
  \/ feeder = "send" /\ (Len(workerChan) < WorkerBuffer \/ ctx = "done")

WorkerCan(w) ==
  \/ worker[w] \in {"busy", "report"}
  \/ worker[w] = "recv" /\ (workerChan # <<>> \/ WorkerChanClosed)
  \/ worker[w] = "errSend" /\ errCount < ErrBuffer
  \/ worker[w] = "exit" /\ main = "wait" /\ doneCount < Concurrency

\* No select, send, receive or loop can go on: everyone waits for someone else.
Stuck == ~CallerCan /\ ~ReaderCan /\ ~FeederCan /\ \A w \in Worker : ~WorkerCan(w)

\* When everyone waits, the call is over and has left no reader behind, or more files
\* have failed than errChan has room for.  No order of closing and no cancellation makes
\* the four goroutines and the channels between them wait for each other in any other way
\* (workflow.go:131-187).
StuckOnlyOnErrors ==
  Stuck =>
    \/ Ended /\ (main = "returned" => RelPathsClosed)
    \/ Cardinality(Outcomes("failed")) > Concurrency
=============================================================================
