----------------------- MODULE ScanPipelineEndsProofs -----------------------
(***************************************************************************)
(* Proofs of what ScanPipelineEnds says, for any tree and options, any     *)
(* buffers and any set of faults.                                          *)
(***************************************************************************)
EXTENDS ScanPipelineEnds, ScanPipelineProofs

-----------------------------------------------------------------------------
(* The steps that are left *)

\* A sum of three goes down when two of its parts change by less than nothing together.
LEMMA SumDecreases ==
  ASSUME NEW a \in Nat, NEW b \in Nat, NEW c \in Nat,
         NEW x \in Nat, NEW y \in Nat,
         NEW i \in Int, NEW j \in Int,
         x <= a + i, y <= b + j, i + j < 0
  PROVE  x + y + c < a + b + c /\ x + c + y < a + c + b
OBVIOUS

\* The parts of the measure are natural numbers.
Natural ==
  /\ FileSteps \in Nat /\ EndSteps \in Nat /\ CallSteps \in Nat
  /\ StepsLeft \in Nat

LEMMA StepsLeftParts == TypeOK => Natural
<1> SUFFICES ASSUME TypeOK PROVE Natural
  OBVIOUS
<1>1. \A condition \in BOOLEAN, n \in Nat : n * OneIf(condition) \in Nat
  BY DEF OneIf
<1>2. /\ Len(Tree) + 1 - next \in Nat
      /\ Len(walkCh) \in Nat /\ Len(relPathCh) \in Nat
  BY TreeAssumption DEF TypeOK
<1>3. FileSteps \in Nat
  <2>1. 4 * OneIf(filter = "send") \in Nat /\ 3 * OneIf(converter = "send") \in Nat
    BY <1>1
  <2>2. 7 * (Len(Tree) + 1 - next) \in Nat /\ 5 * Len(walkCh) \in Nat /\ 2 * Len(relPathCh) \in Nat
    BY <1>2
  <2> QED BY <2>1, <2>2 DEF FileSteps
<1>4. EndSteps \in Nat /\ CallSteps \in Nat BY DEF EndSteps, CallSteps, OneIf
<1> QED BY <1>3, <1>4 DEF Natural, StepsLeft

\* The walker comes nearer to the end of the tree or to its own; what it sends counts
\* for less in walkCh than before.
LEMMA WalkerUsesStep ==
  ASSUME IInv, Natural, Natural', Walker
  PROVE  StepsLeft' < StepsLeft
<1> USE DEF filtering, converting, chosen
<1>0. /\ TypeOK /\ File = 1..Len(Tree) /\ Len(Tree) \in Nat
      /\ next \in 1..(Len(Tree) + 1) /\ walkCh \in Seq(File) /\ Len(walkCh) \in Nat
      /\ Len(relPathCh) \in Nat
  BY TreeAssumption DEF IInv, TypeOK, File
<1>1. CallSteps' = CallSteps
  BY DEF Walker, WalkEntry, WalkSend, WalkFails, WalkEnds, CloseWalk, CallSteps
<1>2. ASSUME NEW i \in Int, NEW j \in Int, i + j < 0,
             FileSteps' <= FileSteps + i, EndSteps' <= EndSteps + j
      PROVE  StepsLeft' < StepsLeft
  <2>1. /\ FileSteps \in Nat /\ EndSteps \in Nat /\ CallSteps \in Nat
        /\ FileSteps' \in Nat /\ EndSteps' \in Nat
    BY DEF Natural
  <2>2. FileSteps' + EndSteps' + CallSteps < FileSteps + EndSteps + CallSteps
    BY <1>2, <2>1, SumDecreases
  <2> QED BY <1>1, <2>2 DEF StepsLeft
<1>3. ASSUME UNCHANGED <<next, walkCh, filter, converter, relPathCh>>,
             EndSteps' <= EndSteps - 1
      PROVE  StepsLeft' < StepsLeft
  <2>1. FileSteps' <= FileSteps + 0 BY <1>3 DEF FileSteps, Natural
  <2>2. EndSteps' <= EndSteps + (-1) BY <1>3 DEF Natural
  <2> QED BY <1>2, <2>1, <2>2
<1>3a. ASSUME next' \in (next + 1)..(Len(Tree) + 1), NEW grown \in {0, 1},
              Len(walkCh') = Len(walkCh) + grown, UNCHANGED <<filter, converter, relPathCh>>
       PROVE  FileSteps' <= FileSteps + (5 * grown - 7)
  <2> DEFINE ahead == 7 * (Len(Tree) + 1 - next)
             filtered == 4 * OneIf(filter = "send")
             converted == 3 * OneIf(converter = "send")
             written == 2 * Len(relPathCh)
  <2>1. filtered \in Int /\ converted \in Int /\ written \in Int BY <1>0 DEF OneIf
  <2>2. filtered' = filtered /\ converted' = converted /\ written' = written BY <1>3a
  <2>3. ahead \in Int /\ ahead' \in Int /\ ahead' <= ahead - 7 BY <1>0, <1>3a
  <2>4. FileSteps = ahead + 5 * Len(walkCh) + filtered + converted + written
    BY DEF FileSteps
  <2>5. FileSteps' = ahead' + 5 * Len(walkCh') + filtered' + converted' + written'
    BY DEF FileSteps
  <2>6. Len(walkCh) \in Int /\ Len(walkCh') = Len(walkCh) + grown /\ grown \in Int
    BY <1>0, <1>3a
  <2> HIDE DEF ahead, filtered, converted, written
  <2> QED BY <2>1, <2>2, <2>3, <2>4, <2>5, <2>6
<1>4. ASSUME next' \in (next + 1)..(Len(Tree) + 1),
             UNCHANGED <<walkCh, filter, converter, relPathCh>>
      PROVE  FileSteps' <= FileSteps + (-7)
  <2>1. Len(walkCh') = Len(walkCh) + 0 BY <1>0, <1>4
  <2>2. FileSteps' <= FileSteps + (5 * 0 - 7) BY <1>3a, <1>4, <2>1
  <2> QED BY <2>2 DEF Natural
<1>5. CASE WalkEntry
  <2>1. next \in File BY <1>0, <1>5 DEF WalkEntry
  <2>2. CASE walk' = "send" /\ UNCHANGED <<next, lost>>
    <3>1. EndSteps' <= EndSteps - 1 BY <1>5, <2>2 DEF WalkEntry, EndSteps, OneIf
    <3> QED BY <1>3, <1>5, <2>2, <3>1 DEF WalkEntry
  <2>3. CASE UNCHANGED walk /\ next' \in (next + 1)..(Len(Tree) + 1)
    <3>1. FileSteps' <= FileSteps + (-7) BY <1>4, <1>5, <2>3 DEF WalkEntry
    <3>2. EndSteps' <= EndSteps + 0 BY <1>5, <2>3 DEF WalkEntry, EndSteps, Natural
    <3> QED BY <1>2, <3>1, <3>2
  <2>4. CASE Pass /\ UNCHANGED <<walk, lost>>
    <3>1. next' \in (next + 1)..(Len(Tree) + 1) BY <1>0, <2>1, <2>4, PassFacts DEF TypeOK
    <3> QED BY <2>3, <2>4, <3>1
  <2>5. CASE next' \in {next + 1, Behind(Tree, next)} /\ UNCHANGED walk
    <3>1. next' \in (next + 1)..(Len(Tree) + 1) BY <1>0, <2>1, <2>5, BehindFacts
    <3> QED BY <2>3, <2>5, <3>1
  <2> QED BY <1>5, <2>2, <2>4, <2>5 DEF WalkEntry
<1>6. CASE WalkSend
  <2>1. next \in File BY <1>6 DEF WalkSend, IInv, EndInOrder
  <2>2. next' \in (next + 1)..(Len(Tree) + 1) BY <1>0, <1>6, <2>1, PassFacts DEF WalkSend, TypeOK
  <2>3. Len(walkCh') = Len(walkCh) + 1 BY <1>0, <1>6, <2>1 DEF WalkSend
  <2>4. FileSteps' <= FileSteps + (-2)
    <3>1. UNCHANGED <<filter, converter, relPathCh>> BY <1>6 DEF WalkSend
    <3>2. FileSteps' <= FileSteps + (5 * 1 - 7) BY <1>3a, <2>2, <2>3, <3>1
    <3> QED BY <3>2 DEF Natural
  <2>5. EndSteps' <= EndSteps + 1 BY <1>6 DEF WalkSend, EndSteps, OneIf
  <2> QED BY <1>2, <2>4, <2>5
<1>7. CASE WalkFails
  <2>1. EndSteps' <= EndSteps - 1 BY <1>7 DEF WalkFails, EndSteps, OneIf
  <2> QED BY <1>3, <1>7, <2>1 DEF WalkFails
<1>8. CASE WalkEnds
  <2>1. EndSteps' <= EndSteps - 1 BY <1>8 DEF WalkEnds, EndSteps, OneIf
  <2> QED BY <1>3, <1>8, <2>1 DEF WalkEnds
<1>9. CASE CloseWalk
  <2>1. EndSteps' <= EndSteps - 1 BY <1>9 DEF CloseWalk, EndSteps, OneIf
  <2> QED BY <1>3, <1>9, <2>1 DEF CloseWalk
<1> QED BY <1>5, <1>6, <1>7, <1>8, <1>9 DEF Walker

\* A file counts for less with each place it comes to, and a goroutine that ends for
\* nothing any more.
LEMMA CarrierUsesStep ==
  ASSUME IInv, Natural, Natural', Filter \/ HandOver \/ Converter
  PROVE  StepsLeft' < StepsLeft
<1> USE DEF walker, filtering, converting, chosen
<1>0. /\ TypeOK /\ walkCh \in Seq(File) /\ Len(walkCh) \in Nat
      /\ relPathCh \in Seq(File) /\ Len(relPathCh) \in Nat
      /\ filter \in {"off", "recv", "send", "done"}
      /\ converter \in {"off", "recv", "send", "done"}
      /\ Len(Tree) \in Nat /\ next \in 1..(Len(Tree) + 1)
  BY TreeAssumption DEF IInv, TypeOK
<1>1. CallSteps' = CallSteps
  BY DEF Filter, FilterRecv, FilterEnds, HandOver, Converter, ConvertSend, ConvertEnds,
         CallSteps
<1>2. ASSUME NEW i \in Int, NEW j \in Int, i + j < 0,
             FileSteps' <= FileSteps + i, EndSteps' <= EndSteps + j
      PROVE  StepsLeft' < StepsLeft
  <2>1. /\ FileSteps \in Nat /\ EndSteps \in Nat /\ CallSteps \in Nat
        /\ FileSteps' \in Nat /\ EndSteps' \in Nat
    BY DEF Natural
  <2>2. FileSteps' + EndSteps' + CallSteps < FileSteps + EndSteps + CallSteps
    BY <1>2, <2>1, SumDecreases
  <2> QED BY <1>1, <2>2 DEF StepsLeft
<1>3. CASE FilterRecv
  <2>1. Len(walkCh') = Len(walkCh) - 1 BY <1>0, <1>3 DEF FilterRecv
  <2>2. filter = "recv" /\ filter' \in {"recv", "send"} BY <1>3 DEF FilterRecv
  <2>3. FileSteps' <= FileSteps + (-1)
    BY <1>0, <1>3, <2>1, <2>2 DEF FilterRecv, FileSteps, OneIf
  <2>4. EndSteps' <= EndSteps + 0
    BY <1>3, <2>2 DEF FilterRecv, EndSteps, OneIf
  <2> QED BY <1>2, <2>3, <2>4
<1>4. CASE FilterEnds
  <2>1. FileSteps' <= FileSteps + 0 BY <1>0, <1>4 DEF FilterEnds, FileSteps, OneIf
  <2>2. EndSteps' <= EndSteps + (-1) BY <1>4 DEF FilterEnds, EndSteps, OneIf
  <2> QED BY <1>2, <2>1, <2>2
<1>5. CASE HandOver
  <2>1. FileSteps' <= FileSteps + (-1) BY <1>0, <1>5 DEF HandOver, FileSteps, OneIf
  <2>2. EndSteps' <= EndSteps + 0 BY <1>5 DEF HandOver, EndSteps, OneIf
  <2> QED BY <1>2, <2>1, <2>2
<1>6. CASE ConvertSend
  <2>1. Len(relPathCh') = Len(relPathCh) + 1 BY <1>0, <1>6 DEF ConvertSend
  <2>2. FileSteps' <= FileSteps + (-1)
    BY <1>0, <1>6, <2>1 DEF ConvertSend, FileSteps, OneIf
  <2>3. EndSteps' <= EndSteps + 0 BY <1>6 DEF ConvertSend, EndSteps, OneIf
  <2> QED BY <1>2, <2>2, <2>3
<1>7. CASE ConvertEnds
  <2>1. FileSteps' <= FileSteps + 0 BY <1>0, <1>7 DEF ConvertEnds, FileSteps, OneIf
  <2>2. EndSteps' <= EndSteps + (-1) BY <1>7 DEF ConvertEnds, EndSteps, OneIf
  <2> QED BY <1>2, <2>1, <2>2
<1> QED BY <1>3, <1>4, <1>5, <1>6, <1>7 DEF Filter, Converter

\* The caller goes on, takes a path out of relPathCh, or cancels.
LEMMA CallerUsesStep ==
  ASSUME IInv, Natural, Natural', Main \/ Cancel
  PROVE  StepsLeft' < StepsLeft
<1> USE DEF walker, filtering, converting, chosen
<1>0. /\ TypeOK /\ walkCh \in Seq(File) /\ Len(walkCh) \in Nat
      /\ relPathCh \in Seq(File) /\ Len(relPathCh) \in Nat
      /\ Len(Tree) \in Nat /\ next \in 1..(Len(Tree) + 1)
  BY TreeAssumption DEF IInv, TypeOK
<1>1. ASSUME NEW i \in Int, NEW k \in Int, i + k < 0,
             FileSteps' <= FileSteps + i, EndSteps' = EndSteps, CallSteps' <= CallSteps + k
      PROVE  StepsLeft' < StepsLeft
  <2>1. /\ FileSteps \in Nat /\ EndSteps \in Nat /\ CallSteps \in Nat
        /\ FileSteps' \in Nat /\ CallSteps' \in Nat
    BY DEF Natural
  <2>2. FileSteps' + EndSteps + CallSteps' < FileSteps + EndSteps + CallSteps
    BY <1>1, <2>1, SumDecreases
  <2> QED BY <1>1, <2>2 DEF StepsLeft
<1>2. ASSUME UNCHANGED <<walk, next, walkCh, filter, converter, relPathCh>>,
             CallSteps' <= CallSteps + (-1)
      PROVE  StepsLeft' < StepsLeft
  <2>1. FileSteps' <= FileSteps + 0 BY <1>2 DEF FileSteps, Natural
  <2>2. EndSteps' = EndSteps BY <1>2 DEF EndSteps
  <2> QED BY <1>1, <1>2, <2>1, <2>2
<1>3. ASSUME UNCHANGED <<walk, next, walkCh, filter, converter>>,
             relPathCh # <<>>, relPathCh' = Tail(relPathCh)
      PROVE  FileSteps' <= FileSteps + (-2) /\ EndSteps' = EndSteps
  <2>1. Len(relPathCh') = Len(relPathCh) - 1 BY <1>0, <1>3
  <2>2. FileSteps' <= FileSteps + (-2) BY <1>0, <1>3, <2>1 DEF FileSteps, OneIf
  <2>3. EndSteps' = EndSteps BY <1>3 DEF EndSteps
  <2> QED BY <2>2, <2>3
<1>4. CASE StartFilter
  <2>1. filter = "off" /\ converter = "off" BY <1>4 DEF StartFilter, IInv, EndInOrder
  <2>2. CallSteps' <= CallSteps + (-1) BY <1>4 DEF StartFilter, CallSteps, OneIf
  <2>3. FileSteps' <= FileSteps + 0
    BY <1>0, <1>4, <2>1 DEF StartFilter, FileSteps, OneIf
  <2>4. EndSteps' = EndSteps BY <1>4, <2>1 DEF StartFilter, EndSteps, OneIf
  <2> QED BY <1>1, <2>2, <2>3, <2>4
<1>5. CASE OpenBacklog
  <2>1. CallSteps' <= CallSteps + (-1) BY <1>5 DEF OpenBacklog, CallSteps, OneIf
  <2> QED BY <1>2, <1>5, <2>1 DEF OpenBacklog
<1>6. CASE WriteEntry
  <2>1. FileSteps' <= FileSteps + (-2) /\ EndSteps' = EndSteps BY <1>3, <1>6 DEF WriteEntry
  <2>2. CallSteps' <= CallSteps + 0 BY <1>6 DEF WriteEntry, CallSteps, Natural
  <2> QED BY <1>1, <2>1, <2>2
<1>7. CASE WriteFails
  <2>1. FileSteps' <= FileSteps + (-2) /\ EndSteps' = EndSteps BY <1>3, <1>7 DEF WriteFails
  <2>2. CallSteps' <= CallSteps + (-1) BY <1>7 DEF WriteFails, CallSteps, OneIf
  <2> QED BY <1>1, <2>1, <2>2
<1>8. CASE WriteEnds
  <2>1. CallSteps' <= CallSteps + (-1) BY <1>8 DEF WriteEnds, CallSteps, OneIf
  <2> QED BY <1>2, <1>8, <2>1 DEF WriteEnds
<1>9. CASE WriteCancelled
  <2>1. CallSteps' <= CallSteps + (-1) BY <1>9 DEF WriteCancelled, CallSteps, OneIf
  <2> QED BY <1>2, <1>9, <2>1 DEF WriteCancelled
<1>10. CASE ScanFails
  <2>1. CallSteps' <= CallSteps + (-1) BY <1>10 DEF ScanFails, CallSteps, OneIf
  <2> QED BY <1>2, <1>10, <2>1 DEF ScanFails
<1>11. CASE CheckWalk
  <2>1. CallSteps' <= CallSteps + (-1) BY <1>11 DEF CheckWalk, CallSteps, OneIf
  <2> QED BY <1>2, <1>11, <2>1 DEF CheckWalk
<1>12. CASE Cancel
  <2>1. CallSteps' <= CallSteps + (-1) BY <1>12 DEF Cancel, CallSteps, OneIf
  <2> QED BY <1>2, <1>12, <2>1 DEF Cancel
<1> QED BY <1>4, <1>5, <1>6, <1>7, <1>8, <1>9, <1>10, <1>11, <1>12 DEF Main

\* A scan takes a bounded number of steps, whatever goes wrong in it (workflow.go:47-86,
\* local.go:103-170, status/memory.go:60-96).
THEOREM StepsRunOutAlways == Spec => StepsRunOut
<1>1. IInv => Natural BY StepsLeftParts DEF IInv
<1>2. IInv /\ Natural /\ Natural' /\ [Next]_vars
        => [StepsLeft' < StepsLeft /\ {StepsLeft, StepsLeft'} \subseteq Nat]_vars
  <2> SUFFICES ASSUME IInv, Natural, Natural', Next
               PROVE  StepsLeft' < StepsLeft /\ {StepsLeft, StepsLeft'} \subseteq Nat
    OBVIOUS
  <2>1. StepsLeft' < StepsLeft BY WalkerUsesStep, CarrierUsesStep, CallerUsesStep DEF Next
  <2> QED BY <2>1 DEF Natural
<1> QED BY <1>1, <1>2, InvariantHolds, PTL DEF Spec, StepsRunOut

-----------------------------------------------------------------------------
(* Who waits for whom *)

\* Cancelled, nobody waits for anybody.
LEMMA NoneStuckCancelled ==
  ASSUME IInv, Stuck, ctx = "done"
  PROVE  main \in {"ok", "failed"} /\ AllEnded
<1>1. TypeOK /\ EndInOrder BY DEF IInv
<1>2. walk = "closed" BY <1>1 DEF TypeOK, Stuck, WalkerCan
<1>3. filter \in {"off", "done"} BY <1>1 DEF TypeOK, Stuck, FilterCan
<1>4. converter \in {"off", "done"}
  BY <1>1, <1>3 DEF TypeOK, EndInOrder, Stuck, ConverterCan
<1>5. main \in {"ok", "failed"} BY <1>1 DEF TypeOK, Stuck, MainCan
<1> QED BY <1>2, <1>3, <1>4, <1>5 DEF AllEnded

\* Under a live context a filter that has been started waits for the converter only, and
\* the converter only for room.
LEMMA StuckBehindConverter ==
  ASSUME IInv, Stuck, ctx = "live", filter # "off"
  PROVE  \/ converter = "send" /\ Len(relPathCh) = PathBuffer
         \/ converter = "done" /\ AllEnded
<1>1. TypeOK /\ EndInOrder BY DEF IInv
<1>2. converter \in {"recv", "send", "done"} BY <1>1 DEF TypeOK, EndInOrder
<1>3. CASE converter = "send"
  <2>1. /\ ~(Len(relPathCh) < PathBuffer) /\ Len(relPathCh) <= PathBuffer
        /\ Len(relPathCh) \in Nat /\ PathBuffer \in Nat
    BY <1>1, <1>3, BufferAssumption DEF TypeOK, Stuck, ConverterCan
  <2> QED BY <1>3, <2>1
<1>4. CASE converter = "recv"
  \* The filter waits for the walker, and there is room in walkCh.
  <2>1. filter = "recv" BY <1>1, <1>4 DEF TypeOK, Stuck, ConverterCan, FilterCan
  <2>2. walkCh = <<>> /\ walk # "closed" BY <2>1 DEF Stuck, FilterCan
  <2>3. walk = "send" BY <1>1, <2>2 DEF TypeOK, Stuck, WalkerCan
  <2>4. Len(walkCh) < WalkBuffer BY <2>2, BufferAssumption
  <2> QED BY <2>3, <2>4 DEF Stuck, WalkerCan
<1>5. CASE converter = "done"
  <2>1. filter = "done" /\ walk = "closed" BY <1>1, <1>5 DEF EndInOrder
  <2> QED BY <1>5, <2>1 DEF AllEnded
<1> QED BY <1>2, <1>3, <1>4, <1>5

\* The goroutines of a scan never wait for each other in a circle: when none can go on the
\* scan has returned, and only after an error under a live context has one stayed, before a
\* channel that is full (workflow.go:42-101).
THEOREM StuckOnlyBehindFullAlways == Spec => []StuckOnlyBehindFull
<1>1. IInv => StuckOnlyBehindFull
  <2> SUFFICES ASSUME IInv, Stuck, ~(main \in {"ok", "failed"} /\ AllEnded)
               PROVE  /\ main = "failed" /\ ctx = "live"
                      /\ \/ converter = "send" /\ Len(relPathCh) = PathBuffer
                         \/ filter = "off" /\ walk = "send" /\ Len(walkCh) = WalkBuffer
    BY DEF StuckOnlyBehindFull
  <2>1. TypeOK /\ EndInOrder BY DEF IInv
  <2>2. ctx = "live" BY <2>1, NoneStuckCancelled DEF TypeOK
  <2>3. main \in {"writing", "ok", "failed"} BY <2>1 DEF TypeOK, Stuck, MainCan
  <2>4. main # "writing"
    <3> SUFFICES ASSUME main = "writing" PROVE FALSE
      OBVIOUS
    <3>1. relPathCh = <<>> /\ converter # "done" BY DEF Stuck, MainCan
    <3>2. filter # "off" BY <2>1 DEF EndInOrder
    <3>3. Len(relPathCh) = PathBuffer BY <2>2, <3>1, <3>2, StuckBehindConverter
    <3> QED BY <3>1, <3>3, BufferAssumption
  <2>5. main # "ok"
    <3> SUFFICES ASSUME main = "ok" PROVE FALSE
      OBVIOUS
    <3>1. filter # "off" /\ converter = "done" BY <2>1 DEF EndInOrder
    <3> QED BY <2>2, <3>1, StuckBehindConverter
  <2>6. CASE filter # "off"
    BY <2>2, <2>3, <2>4, <2>5, <2>6, StuckBehindConverter
  <2>7. CASE filter = "off"
    <3>1. converter = "off" BY <2>1, <2>7 DEF EndInOrder
    <3>2. walk # "closed" BY <2>3, <2>4, <2>5, <2>7, <3>1 DEF AllEnded
    <3>3. walk = "send" /\ ~(Len(walkCh) < WalkBuffer)
      BY <2>1, <3>2 DEF TypeOK, Stuck, WalkerCan
    <3>4. Len(walkCh) = WalkBuffer
      <4>1. Len(walkCh) <= WalkBuffer /\ Len(walkCh) \in Nat /\ WalkBuffer \in Nat
        BY <2>1, BufferAssumption DEF TypeOK
      <4> QED BY <3>3, <4>1
    <3> QED BY <2>2, <2>3, <2>4, <2>5, <2>7, <3>3, <3>4
  <2> QED BY <2>6, <2>7
<1> QED BY <1>1, InvariantHolds, PTL
=============================================================================
