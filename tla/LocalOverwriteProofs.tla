------------------------ MODULE LocalOverwriteProofs ------------------------
(***************************************************************************)
(* Proofs about LocalOverwrite for files of any length and any set of      *)
(* faults: what is on which disk during a call, and that the call          *)
(* implements OverwriteContract.                                           *)
(***************************************************************************)
EXTENDS LocalAttempt, TLAPS

Chunk == {"original", "output", "foreign", "hole"}

\* Where the chunks of a copy come from.
LEMMA CopiedFacts ==
  ASSUME NEW chunk \in Chunk, NEW n \in Nat
  PROVE  /\ Copied(chunk, n) \in Contents /\ Len(Copied(chunk, n)) = n
         /\ \A i \in 1..n : Copied(chunk, n)[i] = chunk
         /\ Copied(chunk, 0) = <<>>
<1>1. Copied(chunk, n) \in [1..n -> Chunk] BY DEF Copied
<1>2. Copied(chunk, n) \in Seq(Chunk) /\ Len(Copied(chunk, n)) = n BY <1>1
<1>3. Copied(chunk, 0) = <<>> BY DEF Copied
<1>4. \A i \in 1..n : Copied(chunk, n)[i] = chunk BY DEF Copied
<1> QED BY <1>2, <1>3, <1>4 DEF Contents, Chunk

\* The next chunk of the download.
LEMMA AppendChunk ==
  ASSUME NEW chunk \in Chunk, NEW n \in Nat
  PROVE  Append(Copied(chunk, n), chunk) = Copied(chunk, n + 1)
<1> DEFINE longer == Append(Copied(chunk, n), chunk)
<1>1. Copied(chunk, n) \in Seq(Chunk) /\ Len(Copied(chunk, n)) = n
  BY CopiedFacts DEF Contents, Chunk
<1>2. longer \in Seq(Chunk) /\ Len(longer) = n + 1 BY <1>1
<1>3. longer = [i \in 1..(n + 1) |-> longer[i]]
  <2> HIDE DEF longer
  <2>1. longer \in [1..(n + 1) -> Chunk] BY <1>2
  <2> QED BY <2>1
<1>4. ASSUME NEW i \in 1..(n + 1) PROVE longer[i] = chunk
  <2>1. CASE i \in 1..n BY <1>1, <2>1, CopiedFacts
  <2>2. CASE i = n + 1 BY <1>1, <2>2
  <2>3. i \in 1..n \/ i = n + 1 OBVIOUS
  <2> QED BY <2>1, <2>2, <2>3
<1> HIDE DEF longer
<1>5. longer = [i \in 1..(n + 1) |-> chunk] BY <1>3, <1>4
<1> QED BY <1>5 DEF Copied, longer

\* The next chunk of the upload.
LEMMA WriteChunk ==
  ASSUME NEW chunk \in Chunk, NEW n \in Nat
  PROVE  WriteAt(Copied(chunk, n), n, chunk) = Copied(chunk, n + 1)
<1>1. Len(Copied(chunk, n)) = n BY CopiedFacts
<1>2. (IF n < Len(Copied(chunk, n)) THEN Len(Copied(chunk, n)) ELSE n + 1) = n + 1
  BY <1>1
<1>3. ASSUME NEW i \in 1..(n + 1)
      PROVE  (IF i = n + 1 THEN chunk
              ELSE IF i <= Len(Copied(chunk, n)) THEN Copied(chunk, n)[i] ELSE "hole") = chunk
  BY <1>1, CopiedFacts
<1> QED BY <1>2, <1>3 DEF WriteAt, Copied

\* What a write makes of a content is a content.
LEMMA WriteType ==
  ASSUME NEW content \in Contents, NEW n \in Nat, NEW chunk \in Chunk
  PROVE  WriteAt(content, n, chunk) \in Contents
<1> DEFINE length == IF n < Len(content) THEN Len(content) ELSE n + 1
<1>1. content \in Seq(Chunk) /\ Len(content) \in Nat BY DEF Contents, Chunk
<1>2. length \in Nat BY <1>1
<1>3. ASSUME NEW i \in 1..length
      PROVE  (IF i = n + 1 THEN chunk
              ELSE IF i <= Len(content) THEN content[i] ELSE "hole") \in Chunk
  <2>1. CASE i <= Len(content)
    <3>1. i \in 1..Len(content) BY <1>1, <1>2, <2>1
    <3> QED BY <1>1, <3>1
  <2>2. CASE ~(i <= Len(content)) BY <2>2 DEF Chunk
  <2> QED BY <2>1, <2>2
<1> HIDE DEF length
<1>4. WriteAt(content, n, chunk) \in [1..length -> Chunk] BY <1>3 DEF WriteAt, length
<1>5. WriteAt(content, n, chunk) \in Seq(Chunk) BY <1>2, <1>4
<1> QED BY <1>5 DEF Contents, Chunk

\* The two files themselves.
LEMMA FileFacts ==
  /\ Original = Copied("original", SourceChunks) /\ Output = Copied("output", OutputChunks)
  /\ Original \in Contents /\ Output \in Contents /\ Foreign \in Contents
  /\ Len(Original) = SourceChunks /\ Len(Output) = OutputChunks
  /\ <<>> \in Contents
<1>1. Original = Copied("original", SourceChunks) /\ Output = Copied("output", OutputChunks)
  BY DEF Original, Output, Copied
<1>2. "original" \in Chunk /\ "output" \in Chunk BY DEF Chunk
<1>3. /\ Original \in Contents /\ Output \in Contents
      /\ Len(Original) = SourceChunks /\ Len(Output) = OutputChunks
  BY <1>1, <1>2, CopiedFacts, LengthAssumption
<1>4. Foreign \in Contents /\ <<>> \in Contents BY DEF Foreign, Contents
<1> QED BY <1>1, <1>3, <1>4

\* A part of the output is a beginning of it.
LEMMA PartFacts ==
  ASSUME NEW n \in 0..OutputChunks
  PROVE  IsPrefix(Copied("output", n), Output)
<1>1. n \in Nat /\ n <= OutputChunks /\ OutputChunks \in Nat BY LengthAssumption
<1>2. "output" \in Chunk BY DEF Chunk
<1>3. /\ Len(Copied("output", n)) = n /\ Len(Output) = OutputChunks
      /\ Copied("output", n) \in Contents /\ Output \in Contents
  BY <1>1, <1>2, CopiedFacts, FileFacts
<1>4. \A i \in 1..n : Copied("output", n)[i] = Output[i]
  BY <1>1 DEF Copied, Output
<1> QED BY <1>1, <1>3, <1>4 DEF IsPrefix, Contents

-----------------------------------------------------------------------------
(* The inductive invariant *)

\* It holds at the start.
LEMMA InitInvariant == Init => IInv
<1> SUFFICES ASSUME Init PROVE IInv
  OBVIOUS
<1> USE FileFacts, AbsentAssumption DEF Init
<1>1. TypeOK BY DEF TypeOK, MayFail
<1>2. Copies BY DEF Copies, Replacing
<1>3. Undisturbed BY DEF Undisturbed, Reading
<1> QED BY <1>1, <1>2, <1>3 DEF IInv

\* The types.
LEMMA TypeStep == IInv /\ [Next]_vars => TypeOK'
<1> SUFFICES ASSUME IInv, [Next]_vars PROVE TypeOK'
  OBVIOUS
<1>1. TypeOK /\ Copies BY DEF IInv
<1> USE <1>1, FileFacts DEF TypeOK, MayFail, world, files, call
<1>2. CASE Stat BY <1>2 DEF Stat
<1>3. CASE CreateTemp BY <1>3 DEF CreateTemp
<1>4. CASE OpenRemote BY <1>4 DEF OpenRemote
<1>5. CASE CreateTmp BY <1>5 DEF CreateTmp
<1>6. CASE DownloadChunk
  <2>1. tmp \in Contents /\ remote[pos + 1] \in Chunk
    BY <1>6 DEF DownloadChunk, Copies, Contents, Chunk
  <2>2. tmp' \in Contents BY <1>6, <2>1 DEF DownloadChunk, Contents, Chunk
  <2> QED BY <1>6, <2>2 DEF DownloadChunk
<1>7. CASE DownloadEnd BY <1>7 DEF DownloadEnd
<1>8. CASE ProcessFails BY <1>8 DEF ProcessFails, FailTo
<1>9. CASE ProcessSkips BY <1>9 DEF ProcessSkips
<1>10. CASE ProcessInPlace BY <1>10 DEF ProcessInPlace
<1>11. CASE ProcessElsewhere BY <1>11 DEF ProcessElsewhere
<1>12. CASE StatProcessed BY <1>12 DEF StatProcessed
<1>13. CASE OpenProcessed BY <1>13 DEF OpenProcessed
<1>14. CASE Truncate BY <1>14 DEF Truncate
<1>15. CASE UploadChunk
  <2>1. Uploading \in Contents BY <1>15 DEF UploadChunk, Copies, Replacing
  <2>2. Uploading[pos + 1] \in Chunk BY <1>15, <2>1 DEF UploadChunk, Contents, Chunk
  <2>3. remote' \in Contents BY <1>15, <2>2, WriteType DEF UploadChunk
  <2> QED BY <1>15, <2>3 DEF UploadChunk
<1>16. CASE UploadEnd BY <1>16 DEF UploadEnd
<1>17. CASE StatAgain BY <1>17 DEF StatAgain
<1>18. CASE RemoveProcessed
  <2>1. processed' \in Contents \union {Absent} /\ trouble' \subseteq {"writer", "remove"}
    BY <1>18 DEF RemoveProcessed, RemoveFile
  <2> QED BY <1>18, <2>1 DEF RemoveProcessed
<1>19. CASE StartFails BY <1>19 DEF StartFails, FailTo, IOFails
<1>20. CASE CopyCancelled BY <1>20 DEF CopyCancelled, FailTo
<1>21. CASE StepFails BY <1>21 DEF StepFails, FailTo, IOFails
<1>22. CASE RemoveTmp
  <2>1. tmp' \in Contents \union {Absent} /\ trouble' \subseteq {"writer", "remove"}
    BY <1>22 DEF RemoveTmp, RemoveFile
  <2> QED BY <1>22, <2>1 DEF RemoveTmp
<1>23. CASE Cancel BY <1>23 DEF Cancel
<1>24. CASE ForeignWrite BY <1>24 DEF ForeignWrite
<1>25. CASE UNCHANGED vars BY <1>25 DEF vars
<1> QED
  BY <1>2, <1>3, <1>4, <1>5, <1>6, <1>7, <1>8, <1>9, <1>10, <1>11, <1>12, <1>13, <1>14, <1>15, <1>16, <1>17, <1>18, <1>19, <1>20, <1>21, <1>22, <1>23, <1>24, <1>25
  DEF Next, Step, Download, Callback, Replace, Fail

\* The copies.
LEMMA CopiesStep == IInv /\ [Next]_vars => Copies'
<1> SUFFICES ASSUME IInv, [Next]_vars PROVE Copies'
  OBVIOUS
<1>1. TypeOK /\ Copies BY DEF IInv
<1>2. Absent # Output /\ Absent # <<>> /\ Absent \notin Contents
  BY FileFacts, AbsentAssumption
<1> USE <1>1, <1>2 DEF Copies, Replacing, Uploading, world, files, call
<1>3. CASE Stat BY <1>3 DEF Stat
<1>4. CASE CreateTemp BY <1>4 DEF CreateTemp
<1>5. CASE OpenRemote BY <1>5 DEF OpenRemote
<1>6. CASE CreateTmp BY <1>6 DEF CreateTmp
<1>7. CASE DownloadChunk
  <2>1. tmp' # Absent
    <3>1. tmp \in Seq(Chunk) /\ remote[pos + 1] \in Chunk
      BY <1>7 DEF DownloadChunk, TypeOK, Contents, Chunk
    <3>2. tmp' \in Contents BY <1>7, <3>1 DEF DownloadChunk, Contents, Chunk
    <3> QED BY <3>2
  <2> QED BY <1>7, <2>1 DEF DownloadChunk
<1>8. CASE DownloadEnd BY <1>8 DEF DownloadEnd
<1>9. CASE ProcessFails BY <1>9 DEF ProcessFails, FailTo
<1>10. CASE ProcessSkips BY <1>10 DEF ProcessSkips
<1>11. CASE ProcessInPlace BY <1>11 DEF ProcessInPlace
<1>12. CASE ProcessElsewhere BY <1>12 DEF ProcessElsewhere
<1>13. CASE StatProcessed BY <1>13 DEF StatProcessed
<1>14. CASE OpenProcessed BY <1>14 DEF OpenProcessed
<1>15. CASE Truncate BY <1>15 DEF Truncate
<1>16. CASE UploadChunk BY <1>16 DEF UploadChunk
<1>17. CASE UploadEnd BY <1>17 DEF UploadEnd
<1>18. CASE StatAgain BY <1>18 DEF StatAgain
<1>19. CASE RemoveProcessed BY <1>19 DEF RemoveProcessed, RemoveFile
<1>20. CASE StartFails BY <1>20 DEF StartFails, FailTo, IOFails
<1>21. CASE CopyCancelled BY <1>21 DEF CopyCancelled, FailTo
<1>22. CASE StepFails BY <1>22 DEF StepFails, FailTo, IOFails
<1>23. CASE RemoveTmp BY <1>23 DEF RemoveTmp, RemoveFile
<1>24. CASE Cancel BY <1>24 DEF Cancel
<1>25. CASE ForeignWrite BY <1>25 DEF ForeignWrite
<1>26. CASE UNCHANGED vars BY <1>26 DEF vars
<1> QED
  BY <1>3, <1>4, <1>5, <1>6, <1>7, <1>8, <1>9, <1>10, <1>11, <1>12, <1>13, <1>14, <1>15, <1>16, <1>17, <1>18, <1>19, <1>20, <1>21, <1>22, <1>23, <1>24, <1>25, <1>26
  DEF Next, Step, Download, Callback, Replace, Fail

\* The contents, while no other program has written the file.
LEMMA UndisturbedStep ==
  IInv /\ [Next]_vars => ("writer" \notin trouble' => Undisturbed')
<1> SUFFICES ASSUME IInv, [Next]_vars, "writer" \notin trouble' PROVE Undisturbed'
  OBVIOUS
<1>1. TypeOK /\ Copies BY DEF IInv
<1>2. "writer" \notin trouble
  BY <1>1 DEF TypeOK, Next, Step, Download, Callback, Replace, Fail, Stat, CreateTemp,
     OpenRemote, CreateTmp, DownloadChunk, DownloadEnd, ProcessFails, ProcessSkips,
     ProcessInPlace, ProcessElsewhere, StatProcessed, OpenProcessed, Truncate,
     UploadChunk, UploadEnd, StatAgain, RemoveProcessed, StartFails, CopyCancelled,
     StepFails, RemoveTmp, Cancel, ForeignWrite, FailTo, RemoveFile, world, vars
<1>3. Undisturbed BY <1>2 DEF IInv
<1>4. /\ pos \in Nat /\ version \in Nat
      /\ pc \in Replacing => Uploading = Output
      /\ result = "none" <=> pc \notin {"removeTmp", "returned"}
  BY <1>1 DEF TypeOK, Copies
<1>5. SourceChunks \in Nat /\ OutputChunks \in Nat BY LengthAssumption
<1> USE <1>3, <1>4, <1>5 DEF Undisturbed, Reading, Replacing, world, files, call
<1>6. CASE Stat BY <1>6 DEF Stat
<1>7. CASE CreateTemp BY <1>7 DEF CreateTemp
<1>8. CASE OpenRemote BY <1>8 DEF OpenRemote
<1>9. CASE CreateTmp
  <2>1. Copied("original", 0) = <<>> BY CopiedFacts DEF Chunk
  <2> QED BY <1>9, <2>1 DEF CreateTmp
<1>10. CASE DownloadChunk
  <2>1. /\ pos < SourceChunks /\ remote[pos + 1] = "original"
    BY <1>10, FileFacts DEF DownloadChunk, Original
  <2>2. tmp' = Copied("original", pos + 1)
    BY <1>10, <2>1, AppendChunk DEF DownloadChunk, Chunk
  <2>3. pos' = pos + 1 /\ pos + 1 <= SourceChunks BY <1>10, <2>1 DEF DownloadChunk
  <2> QED BY <1>10, <2>2, <2>3 DEF DownloadChunk
<1>11. CASE DownloadEnd
  <2>1. pos = SourceChunks BY <1>11, FileFacts DEF DownloadEnd
  <2>2. tmp = Original BY <1>11, <2>1, FileFacts DEF DownloadEnd
  <2> QED BY <1>11, <2>2 DEF DownloadEnd
<1>12. CASE ProcessFails BY <1>12 DEF ProcessFails, FailTo
<1>13. CASE ProcessSkips BY <1>13 DEF ProcessSkips
<1>14. CASE ProcessInPlace BY <1>14 DEF ProcessInPlace
<1>15. CASE ProcessElsewhere BY <1>15 DEF ProcessElsewhere
<1>16. CASE StatProcessed BY <1>16 DEF StatProcessed
<1>17. CASE OpenProcessed BY <1>17 DEF OpenProcessed
<1>18. CASE Truncate
  <2>1. Copied("output", 0) = <<>> BY CopiedFacts DEF Chunk
  <2>2. 0 \in 0..OutputChunks /\ version' > 1 BY <1>18 DEF Truncate
  <2> QED BY <1>18, <2>1, <2>2 DEF Truncate
<1>19. CASE UploadChunk
  <2>1. pos < OutputChunks /\ Uploading[pos + 1] = "output"
    BY <1>19, FileFacts DEF UploadChunk, Output
  <2>2. remote' = Copied("output", pos + 1)
    BY <1>19, <2>1, WriteChunk DEF UploadChunk, Chunk
  <2>3. /\ pos' = pos + 1 /\ pos + 1 <= OutputChunks /\ pos + 1 \in 0..OutputChunks
        /\ version' > 1
    BY <1>19, <2>1 DEF UploadChunk
  <2> QED BY <1>19, <2>2, <2>3 DEF UploadChunk
<1>20. CASE UploadEnd
  <2>1. pos = OutputChunks BY <1>20, FileFacts DEF UploadEnd
  <2>2. remote = Output BY <1>20, <2>1, FileFacts DEF UploadEnd
  <2> QED BY <1>20, <2>2 DEF UploadEnd
<1>21. CASE StatAgain BY <1>21 DEF StatAgain
<1>22. CASE RemoveProcessed BY <1>22 DEF RemoveProcessed
<1>23. CASE StartFails BY <1>23 DEF StartFails, FailTo, IOFails
<1>24. CASE CopyCancelled BY <1>24 DEF CopyCancelled, FailTo
<1>25. CASE StepFails BY <1>25 DEF StepFails, FailTo, IOFails
<1>26. CASE RemoveTmp BY <1>26 DEF RemoveTmp
<1>27. CASE Cancel BY <1>27 DEF Cancel
<1>28. CASE ForeignWrite BY <1>28 DEF ForeignWrite
<1>29. CASE UNCHANGED vars BY <1>29 DEF vars
<1> QED
  BY <1>6, <1>7, <1>8, <1>9, <1>10, <1>11, <1>12, <1>13, <1>14, <1>15, <1>16, <1>17, <1>18, <1>19, <1>20, <1>21, <1>22, <1>23, <1>24, <1>25, <1>26, <1>27, <1>28, <1>29
  DEF Next, Step, Download, Callback, Replace, Fail

-----------------------------------------------------------------------------
(* What follows *)

\* The copies on the local disk and, while no other program writes the file, its
\* content and the FileInfo in hand at every system call.
THEOREM InvariantHolds == Spec => []IInv
<1>1. IInv /\ [Next]_vars => IInv'
  BY TypeStep, CopiesStep, UndisturbedStep DEF IInv
<1> QED BY <1>1, InitInvariant, PTL DEF Spec

\* Every variable stays in its type.
THEOREM TypeCorrect == Spec => []TypeOK
<1>1. IInv => TypeOK BY DEF IInv
<1> QED BY <1>1, InvariantHolds, PTL

\* The callback gets the whole file (local.go:232-242).
THEOREM CallbackSeesWholeFileAlways == Spec => []CallbackSeesWholeFile
<1>1. IInv => CallbackSeesWholeFile BY DEF IInv, Undisturbed, CallbackSeesWholeFile
<1> QED BY <1>1, InvariantHolds, PTL

\* The FileInfo of a successful call is the one a scan will find
\* (local.go:287-301).
THEOREM InfoIsCurrentAlways == Spec => []InfoIsCurrent
<1>1. IInv => InfoIsCurrent BY DEF IInv, Undisturbed, InfoIsCurrent
<1> QED BY <1>1, InvariantHolds, PTL

\* The temporary file never outlives the call while os.Remove works
\* (local.go:212-216).
THEOREM TmpRemovedAlways == Spec => []TmpRemoved
<1>1. IInv => TmpRemoved BY DEF IInv, Copies, TmpRemoved
<1> QED BY <1>1, InvariantHolds, PTL

-----------------------------------------------------------------------------
(* The contract *)

\* The call begins as the contract does.
LEMMA ContractInit == Init => Contract!Init
<1> SUFFICES ASSUME Init PROVE Contract!Init
  OBVIOUS
<1>1. SeenRemote = "original" /\ SeenLocal = "none" /\ SeenResult = "none"
  BY DEF Init, SeenRemote, SeenLocal, SeenResult
<1>2. (trouble # {}) = FALSE BY DEF Init
<1> QED BY <1>1, <1>2 DEF Contract!Init

\* Every system call is a step the contract allows, or none.
LEMMA ContractStep ==
  IInv /\ IInv' /\ [Next]_vars => [Contract!Next]_(Contract!vars)
<1> SUFFICES ASSUME IInv, IInv', [Next]_vars
             PROVE  [Contract!Next]_(Contract!vars)
  OBVIOUS
<1>1. TypeOK /\ TypeOK' /\ Copies /\ Copies' BY DEF IInv
<1>2. Absent # Output /\ Absent # <<>> BY FileFacts, AbsentAssumption
<1> USE DEF world, files, call
<1>3. CASE UNCHANGED vars
  <2>1. UNCHANGED <<SeenRemote, SeenLocal, SeenResult, trouble>>
    BY <1>3 DEF vars, SeenRemote, SeenLocal, SeenResult
  <2> QED BY <2>1 DEF Contract!vars
<1>4. CASE Next /\ trouble' # {}
  <2>1. pc = "returned" => UNCHANGED <<pc, result>>
    BY <1>4 DEF Next, Step, Download, Callback, Replace, Fail, Stat, CreateTemp,
       OpenRemote, CreateTmp, DownloadChunk, DownloadEnd, ProcessFails, ProcessSkips,
       ProcessInPlace, ProcessElsewhere, StatProcessed, OpenProcessed, Truncate,
       UploadChunk, UploadEnd, StatAgain, RemoveProcessed, StartFails, CopyCancelled,
       StepFails, RemoveTmp, Cancel, ForeignWrite, IOFails
  <2>2. SeenResult = "none" \/ UNCHANGED SeenResult BY <2>1 DEF SeenResult
  <2>3. SeenResult' \in {"none", "uploaded", "skipped", "failed"}
    BY <1>1 DEF SeenResult, TypeOK
  <2>4. SeenRemote' \in {"original", "partial", "output", "mixed"} BY DEF SeenRemote
  <2>5. SeenLocal' \in {"none", "some"} BY DEF SeenLocal
  <2>6. (trouble # {})' = TRUE BY <1>4
  <2> QED BY <2>2, <2>3, <2>4, <2>5, <2>6 DEF Contract!Next, Contract!Disturbed
<1>5. CASE Next /\ trouble' = {}
  <2>1. UNCHANGED trouble /\ ~ForeignWrite
    BY <1>1, <1>5 DEF Next, Step, Download, Callback, Replace, Fail, Stat, CreateTemp,
       OpenRemote, CreateTmp, DownloadChunk, DownloadEnd, ProcessFails, ProcessSkips,
       ProcessInPlace, ProcessElsewhere, StatProcessed, OpenProcessed, Truncate,
       UploadChunk, UploadEnd, StatAgain, RemoveProcessed, StartFails, CopyCancelled,
       StepFails, RemoveTmp, Cancel, ForeignWrite, FailTo, RemoveFile, TypeOK
  <2>2. Undisturbed /\ Undisturbed' BY <1>5, <2>1 DEF IInv
  <2>3. UNCHANGED (trouble # {}) BY <2>1
  <2>4. SeenLocal \in {"none", "some"} /\ SeenLocal' \in {"none", "some"}
    BY DEF SeenLocal
  <2>5. CASE /\ UNCHANGED <<remote, version>>
             /\ pc # "returned" /\ pc' # "returned"
    <3>1. UNCHANGED SeenRemote /\ SeenResult = "none" /\ SeenResult' = "none"
      BY <2>5 DEF SeenRemote, SeenResult
    <3> QED BY <2>3, <2>4, <3>1 DEF Contract!Next, Contract!Stage
  <2>6. CASE Cancel
    <3>1. UNCHANGED <<SeenRemote, SeenLocal, SeenResult, trouble>>
      BY <2>6 DEF Cancel, SeenRemote, SeenLocal, SeenResult
    <3> QED BY <3>1 DEF Contract!vars
  <2>7. CASE Truncate \/ UploadChunk
    <3>1. pc \in {"truncate", "upload"} /\ UNCHANGED <<tmp, processed>>
          /\ pc # "returned" /\ pc' = "upload"
      BY <2>7 DEF Truncate, UploadChunk
    <3>2. SeenLocal = "some" /\ SeenLocal' = "some"
      BY <1>1, <3>1 DEF Copies, SeenLocal
    <3>3. SeenResult = "none" /\ SeenResult' = "none" BY <3>1 DEF SeenResult
    <3>4. SeenRemote' \in {"partial", "output"}
      <4>1. version' > 1 BY <2>2, <3>1 DEF Undisturbed
      <4>2. PICK n \in 0..OutputChunks : remote' = Copied("output", n)
        BY <2>2, <4>1 DEF Undisturbed
      <4>3. IsPrefix(remote', Output) BY <4>2, PartFacts
      <4> QED BY <4>1, <4>3 DEF SeenRemote
    <3>5. SeenRemote \in {"original", "partial"}
      <4>1. CASE pc = "truncate"
        BY <2>2, <4>1 DEF Undisturbed, Reading, SeenRemote
      <4>2. CASE pc = "upload"
        <5>1. pos < OutputChunks /\ remote = Copied("output", pos) /\ version > 1
          BY <1>1, <2>2, <2>7, <4>2, FileFacts
          DEF Undisturbed, UploadChunk, Truncate, Copies, Replacing
        <5>2. pos \in 0..OutputChunks /\ Len(remote) = pos /\ Len(Output) = OutputChunks
          BY <1>1, <5>1, CopiedFacts, FileFacts, LengthAssumption DEF TypeOK, Chunk
        <5>3. IsPrefix(remote, Output) BY <5>1, <5>2, PartFacts
        <5> QED BY <5>1, <5>2, <5>3, LengthAssumption DEF SeenRemote
      <4> QED BY <3>1, <4>1, <4>2
    <3> QED BY <2>3, <3>2, <3>3, <3>4, <3>5 DEF Contract!Next, Contract!Upload
  <2>8. CASE StartFails
    <3>1. /\ SeenResult = "none" /\ SeenResult' = "failed"
          /\ UNCHANGED <<SeenRemote, SeenLocal>>
      BY <2>8 DEF StartFails, IOFails, FailTo, SeenResult, SeenRemote, SeenLocal
    <3> QED BY <2>3, <2>4, <3>1 DEF Contract!Next, Contract!Finish
  <2>9. CASE RemoveTmp
    <3>1. /\ SeenResult = "none" /\ SeenResult' = result
          /\ UNCHANGED <<SeenRemote, processed, remote, version>> /\ tmp' = Absent
      BY <1>1, <1>5, <2>9 DEF RemoveTmp, RemoveFile, Copies, SeenResult, SeenRemote
    <3>2. SeenLocal' \in {"none", SeenLocal} BY <3>1 DEF SeenLocal
    <3>3. result \in {"uploaded", "skipped", "failed"}
      BY <1>1, <2>9 DEF RemoveTmp, TypeOK, Copies
    <3>4. result \in {"uploaded", "skipped"} => SeenLocal' = "none"
      BY <1>1, <1>5, <2>1, <3>1 DEF Copies, SeenLocal
    <3>5. result = "uploaded" => SeenRemote = "output"
      BY <2>2 DEF Undisturbed, SeenRemote
    <3>6. result = "skipped" => SeenRemote = "original"
      BY <2>2 DEF Undisturbed, SeenRemote
    <3> QED
      BY <2>3, <3>1, <3>2, <3>3, <3>4, <3>5, <3>6 DEF Contract!Next, Contract!Finish
  <2> QED
    BY <1>5, <2>1, <2>5, <2>6, <2>7, <2>8, <2>9
    DEF Next, Step, Download, Callback, Replace, Fail, Stat, CreateTemp,
       OpenRemote, CreateTmp, DownloadChunk, DownloadEnd, ProcessFails, ProcessSkips,
       ProcessInPlace, ProcessElsewhere, StatProcessed, OpenProcessed,
       UploadEnd, StatAgain, RemoveProcessed, CopyCancelled, StepFails, IOFails, FailTo
<1> QED BY <1>3, <1>4, <1>5

\* Every behaviour of the system calls of Overwrite is one that its contract allows.
THEOREM ContractKept == Spec => KeepsContract
BY ContractInit, ContractStep, InvariantHolds, PTL
DEF Spec, KeepsContract, Contract!Spec

-----------------------------------------------------------------------------
(* The attempt of FileLifecycle *)

\* What FileLifecycle sees of the remote file.
FileSeen ==
  /\ version = 1 \/ version > 1
  /\ pc \in Replacing \/ version = 1 => AttemptVersion = 1 /\ AttemptContent = "raw"
  /\ pc \notin Replacing /\ version > 1 =>
       AttemptVersion = 2 /\ AttemptContent \in {"partial", "output"}
  /\ pc \notin Replacing /\ version > 1 /\ remote = Output => AttemptContent = "output"

LEMMA FileSeenHolds == IInv => ("writer" \notin trouble => FileSeen)
<1> SUFFICES ASSUME IInv, "writer" \notin trouble PROVE FileSeen
  OBVIOUS
<1>1. Undisturbed /\ version \in Nat BY DEF IInv, TypeOK
<1>2. \/ remote = Original /\ version = 1
      \/ version > 1 /\ \E n \in 0..OutputChunks : remote = Copied("output", n)
  BY <1>1 DEF Undisturbed
<1>3. version > 1 => IsPrefix(remote, Output) BY <1>2, PartFacts
<1>4. version = 1 => SeenRemote = "original" BY <1>2 DEF SeenRemote
<1>5. version > 1 => SeenRemote \in {"output", "partial"} BY <1>3 DEF SeenRemote
<1>6. version > 1 /\ remote = Output => SeenRemote = "output" BY DEF SeenRemote
<1>7. version = 1 \/ version > 1 BY <1>2
<1>8. pc \in Replacing \/ version = 1 => AttemptVersion = 1
  BY <1>1 DEF AttemptVersion
<1>9. pc \in Replacing \/ version = 1 => AttemptContent = "raw"
  BY <1>4 DEF AttemptContent
<1>10. pc \notin Replacing /\ version > 1 => AttemptVersion = 2
  BY <1>1 DEF AttemptVersion
<1>11. pc \notin Replacing /\ version > 1 => AttemptContent \in {"partial", "output"}
  BY <1>5 DEF AttemptContent
<1>12. pc \notin Replacing /\ version > 1 /\ remote = Output => AttemptContent = "output"
  BY <1>6 DEF AttemptContent
<1> QED BY <1>7, <1>8, <1>9, <1>10, <1>11, <1>12 DEF FileSeen

\* An attempt begins with the file as it was listed.
LEMMA AttemptInit == Init => AttemptPc = "stat" /\ AttemptContent = "raw"
BY DEF Init, AttemptPc, AttemptContent, SeenRemote, Replacing, Returning

\* An error of a system call or of processFunc, seen as one of FileLifecycle's.
LEMMA AttemptFault ==
  ASSUME error = "none", error' \in MayFail, ctx \in {"live", "done"}, UNCHANGED ctx,
         NEW kind \in AttemptFaults, Part(error') = kind
  PROVE  Lifecycle!Fault(kind)
BY DEF Lifecycle!Fault, Failed, MayFail, AttemptTrouble, AttemptFaultsLeft

\* Every system call is a step of the attempt, or none.
LEMMA AttemptStep ==
  IInv /\ IInv' /\ FileSeen /\ FileSeen' /\ [Next]_vars
       /\ "writer" \notin trouble /\ "writer" \notin trouble'
    => [Attempts]_(Lifecycle!vars)
<1> SUFFICES ASSUME IInv, IInv', FileSeen, FileSeen', [Next]_vars,
                    "writer" \notin trouble, "writer" \notin trouble'
             PROVE  [Attempts]_(Lifecycle!vars)
  OBVIOUS
<1>1. TypeOK /\ Copies /\ Undisturbed BY DEF IInv
<1>2. TypeOK' /\ Copies' /\ Undisturbed' BY DEF IInv
<1>3. version = 1 \/ version > 1 BY DEF FileSeen
<1> DEFINE sameFile == UNCHANGED <<AttemptContent, AttemptVersion>>
<1>4. UNCHANGED <<remote, version>> /\ (pc \in Replacing <=> pc' \in Replacing) => sameFile
  BY DEF AttemptContent, AttemptVersion, SeenRemote
<1>5. pc \notin Replacing /\ pc' \in Replacing /\ version = 1 => sameFile
  BY DEF FileSeen, AttemptVersion
<1>6. pc \in Replacing /\ pc' \in Replacing => sameFile BY DEF FileSeen
<1>7. AttemptGot = "raw" /\ AttemptGot' = "raw" BY <1>1, <1>2 DEF AttemptGot, Undisturbed
<1>8. UNCHANGED info => UNCHANGED AttemptSeen BY DEF AttemptSeen
<1>9. (result # "skipped" /\ result' # "skipped") \/ UNCHANGED result => UNCHANGED AttemptLeft
  BY DEF AttemptLeft
<1>10. UNCHANGED <<ctx, error>> => UNCHANGED <<AttemptError, AttemptTrouble, AttemptFaultsLeft>>
  BY DEF AttemptError, AttemptTrouble, AttemptFaultsLeft, Failed
<1> DEFINE sameRun == UNCHANGED <<AttemptSeen, AttemptLeft, ctx, AttemptError, AttemptTrouble,
                                  AttemptFaultsLeft>>
<1>11. UNCHANGED <<info, result, ctx, error>> => sameRun BY <1>8, <1>9, <1>10
<1>12. sameFile /\ sameRun /\ UNCHANGED AttemptPc => UNCHANGED Lifecycle!vars
  BY <1>7 DEF Lifecycle!vars, Lifecycle!file, Lifecycle!store, Lifecycle!run, Lifecycle!faults
<1> HIDE DEF sameFile, sameRun
<1>13. CASE Download
  <2>1. CASE Stat
    <3>1. pc = "stat" /\ pc' = "createTemp" /\ version = 1 /\ info' = 1
          /\ UNCHANGED <<remote, version, ctx, error, result>>
      BY <1>1, <2>1 DEF Stat, world, files, call, Undisturbed
    <3>2. sameFile /\ AttemptVersion = 1 BY <1>4, <3>1 DEF FileSeen, Replacing
    <3>3. UNCHANGED <<AttemptLeft, AttemptError, AttemptTrouble, AttemptFaultsLeft>>
          /\ AttemptSeen' = 1
      BY <1>9, <1>10, <3>1 DEF AttemptSeen
    <3>4. AttemptPc = "stat" /\ AttemptPc' = "download" BY <3>1 DEF AttemptPc, Replacing, Returning
    <3>5. Lifecycle!Stat
      BY <1>7, <3>1, <3>2, <3>3, <3>4
      DEF sameFile, Lifecycle!Stat, Lifecycle!file, Lifecycle!store, Lifecycle!faults
    <3> QED BY <3>5 DEF Attempts, Lifecycle!Attempt
  <2>2. CASE DownloadEnd
    <3>1. pc = "download" /\ pc' = "callback" /\ ctx = "live"
          /\ UNCHANGED <<remote, version, info, result, ctx, error>>
      BY <2>2 DEF DownloadEnd, world, files, call
    <3>2. sameFile /\ sameRun BY <1>4, <1>11, <3>1 DEF Replacing
    <3>3. AttemptContent = "raw" BY <1>1, <3>1 DEF Undisturbed, Reading, FileSeen
    <3>4. AttemptPc = "download" /\ AttemptPc' = "callback"
      BY <3>1 DEF AttemptPc, Replacing, Returning
    <3>5. Lifecycle!Download
      BY <1>7, <3>1, <3>2, <3>3, <3>4
      DEF sameFile, sameRun, Lifecycle!Download, Lifecycle!file, Lifecycle!store, Lifecycle!faults
    <3> QED BY <3>5 DEF Attempts, Lifecycle!Attempt
  <2>3. CASE CreateTemp \/ OpenRemote \/ CreateTmp \/ DownloadChunk
    <3>1. /\ pc \in {"createTemp", "open", "createTmp", "download"}
          /\ pc' \in {"createTemp", "open", "createTmp", "download"}
          /\ UNCHANGED <<remote, version, info, result, ctx, error>>
      BY <2>3 DEF CreateTemp, OpenRemote, CreateTmp, DownloadChunk, world, files, call
    <3>2. sameFile /\ sameRun BY <1>4, <1>11, <3>1 DEF Replacing
    <3>3. UNCHANGED AttemptPc BY <3>1 DEF AttemptPc, Replacing, Returning
    <3> QED BY <1>12, <3>2, <3>3
  <2> QED BY <1>13, <2>1, <2>2, <2>3 DEF Download
<1>14. CASE Callback
  <2>1. pc = "callback" /\ version = 1 /\ info = 1 /\ result = "none" /\ error = "none"
    BY <1>1, <1>14
    DEF Callback, ProcessFails, ProcessSkips, ProcessInPlace, ProcessElsewhere, Undisturbed,
       Reading, Copies
  <2>2. UNCHANGED <<remote, version, ctx, info>>
    BY <1>14 DEF Callback, ProcessFails, FailTo, ProcessSkips, ProcessInPlace,
       ProcessElsewhere, world, files
  <2>3. sameFile BY <1>4, <1>5, <2>1, <2>2 DEF Replacing
  <2>4. AttemptPc = "callback" BY <2>1 DEF AttemptPc, Replacing, Returning
  <2>5. CASE ProcessFails
    <3>1. error' = "callback" /\ pc' = "removeTmp" /\ result' = "failed"
      BY <2>1, <2>5 DEF ProcessFails, FailTo
    <3>2. "process" \in AttemptFaults BY <2>5 DEF ProcessFails, AttemptFaults
    <3>3. Lifecycle!Fault("process")
      BY <1>1, <2>1, <2>2, <3>1, <3>2, AttemptFault DEF TypeOK, MayFail, Part
    <3>4. AttemptPc' = "reject" /\ AttemptError' = "permanent"
      BY <3>1 DEF AttemptPc, Replacing, Returning, AttemptError
    <3>5. UNCHANGED <<AttemptSeen, AttemptLeft>> BY <1>8, <1>9, <2>1, <2>2, <3>1
    <3>6. Lifecycle!ProcessFails
      BY <1>7, <2>2, <2>3, <2>4, <3>3, <3>4, <3>5
      DEF sameFile, Lifecycle!ProcessFails, Lifecycle!file, Lifecycle!store
    <3> QED BY <3>6 DEF Attempts
  <2>6. CASE ProcessSkips
    <3>1. pc' = "removeTmp" /\ result' = "skipped" /\ UNCHANGED error
      BY <2>6 DEF ProcessSkips
    <3>2. AttemptPc' = "report" BY <2>1, <3>1 DEF AttemptPc, Replacing, Returning
    <3>3. AttemptSeen = 1 /\ AttemptLeft = {} /\ AttemptLeft' = {1}
      BY <2>1, <3>1 DEF AttemptSeen, AttemptLeft
    <3>4. UNCHANGED <<AttemptSeen, AttemptError, AttemptTrouble, AttemptFaultsLeft>>
      BY <1>8, <1>10, <2>2, <3>1
    <3>5. Lifecycle!ProcessSkips
      BY <1>7, <2>2, <2>3, <2>4, <3>2, <3>3, <3>4
      DEF sameFile, Lifecycle!ProcessSkips, Lifecycle!file, Lifecycle!store, Lifecycle!faults
    <3> QED BY <3>5 DEF Attempts, Lifecycle!Attempt
  <2>7. CASE ProcessInPlace \/ ProcessElsewhere
    <3>1. pc' = "statProcessed" /\ UNCHANGED <<result, error>>
      BY <2>7 DEF ProcessInPlace, ProcessElsewhere
    <3>2. AttemptPc' = "upload" BY <3>1 DEF AttemptPc, Replacing, Returning
    <3>3. sameRun BY <1>11, <2>2, <3>1
    <3>4. Lifecycle!Process
      BY <1>7, <2>3, <2>4, <3>2, <3>3
      DEF sameFile, sameRun, Lifecycle!Process, Lifecycle!file, Lifecycle!store,
         Lifecycle!run, Lifecycle!faults
    <3> QED BY <3>4 DEF Attempts, Lifecycle!Attempt
  <2> QED BY <1>14, <2>5, <2>6, <2>7 DEF Callback
<1>15. CASE Replace
  <2>1. CASE StatProcessed \/ OpenProcessed \/ Truncate \/ UploadChunk
    <3>1. pc \in Replacing /\ pc' \in Replacing /\ UNCHANGED <<info, result, ctx, error>>
      BY <2>1 DEF StatProcessed, OpenProcessed, Truncate, UploadChunk, Replacing, world, call
    <3>2. sameFile /\ sameRun BY <1>6, <1>11, <3>1
    <3>3. UNCHANGED AttemptPc BY <3>1 DEF AttemptPc, Replacing, Returning
    <3> QED BY <1>12, <3>2, <3>3
  <2>2. CASE UploadEnd
    <3>1. pc = "upload" /\ pc' = "statAgain" /\ ctx = "live"
          /\ UNCHANGED <<info, result, ctx, error>>
      BY <2>2 DEF UploadEnd, world, call
    <3>2. remote' = Output /\ version' > 1 BY <1>2, <3>1 DEF Undisturbed
    <3>3. AttemptContent' = "output" /\ AttemptVersion' = 2
      BY <3>1, <3>2 DEF FileSeen, Replacing
    <3>4. AttemptVersion = 1 BY <3>1 DEF FileSeen, Replacing
    <3>5. sameRun BY <1>11, <3>1
    <3>6. AttemptPc = "upload" /\ AttemptPc' = "statAgain"
      BY <3>1 DEF AttemptPc, Replacing, Returning
    <3>7. Lifecycle!Upload
      BY <1>7, <3>1, <3>3, <3>4, <3>5, <3>6
      DEF sameRun, Lifecycle!Upload, Lifecycle!Write, Lifecycle!Processed,
         Lifecycle!store, Lifecycle!run, Lifecycle!faults
    <3> QED BY <3>7 DEF Attempts, Lifecycle!Attempt
  <2>3. CASE StatAgain
    <3>1. pc = "statAgain" /\ pc' = "removeProcessed" /\ info' = version
          /\ UNCHANGED <<remote, version, result, ctx, error>>
      BY <2>3 DEF StatAgain, world, files
    <3>2. version > 1 /\ version \in Nat BY <1>1, <3>1 DEF Undisturbed, TypeOK
    <3>3. sameFile BY <1>4, <3>1 DEF Replacing
    <3>4. AttemptSeen' = 2 /\ AttemptVersion = 2
      BY <3>1, <3>2 DEF AttemptSeen, FileSeen, Replacing
    <3>5. UNCHANGED <<AttemptLeft, AttemptError, AttemptTrouble, AttemptFaultsLeft>>
      BY <1>9, <1>10, <3>1
    <3>6. AttemptPc = "statAgain" /\ AttemptPc' = "report"
      BY <1>1, <3>1 DEF AttemptPc, Replacing, Returning, Copies
    <3>7. Lifecycle!StatAgain
      BY <1>7, <3>1, <3>3, <3>4, <3>5, <3>6
      DEF sameFile, Lifecycle!StatAgain, Lifecycle!file, Lifecycle!store, Lifecycle!faults
    <3> QED BY <3>7 DEF Attempts, Lifecycle!Attempt
  <2>4. CASE RemoveProcessed
    <3>1. pc = "removeProcessed" /\ pc' = "removeTmp" /\ result' = "uploaded"
          /\ UNCHANGED <<remote, version, info, ctx, error>>
      BY <2>4 DEF RemoveProcessed
    <3>2. result = "none" BY <1>1, <3>1 DEF Copies
    <3>3. sameFile BY <1>4, <3>1 DEF Replacing
    <3>4. sameRun BY <1>8, <1>9, <1>10, <3>1, <3>2 DEF sameRun
    <3>5. UNCHANGED AttemptPc BY <3>1 DEF AttemptPc, Replacing, Returning
    <3> QED BY <1>12, <3>3, <3>4, <3>5
  <2> QED BY <1>15, <2>1, <2>2, <2>3, <2>4 DEF Replace
<1>16. CASE RemoveTmp
  <2>1. pc = "removeTmp" /\ pc' = "returned"
        /\ UNCHANGED <<remote, version, info, result, ctx, error>>
    BY <1>16 DEF RemoveTmp, call
  <2>2. sameFile /\ sameRun BY <1>4, <1>11, <2>1 DEF Replacing
  <2>3. UNCHANGED AttemptPc BY <2>1 DEF AttemptPc, Replacing, Returning
  <2> QED BY <1>12, <2>2, <2>3
<1>17. CASE Cancel
  <2>1. ctx = "live" /\ ctx' = "done" /\ UNCHANGED <<pc, remote, version, info, result, error>>
    BY <1>17 DEF Cancel, files, call
  <2>2. sameFile BY <1>4, <2>1
  <2>3. UNCHANGED <<AttemptSeen, AttemptLeft>> BY <1>8, <1>9, <2>1
  <2>4. UNCHANGED AttemptError BY <2>1 DEF AttemptError
  <2>5. UNCHANGED AttemptPc /\ AttemptPc # "idle"
    BY <1>1, <2>1 DEF AttemptPc, TypeOK, MayFail, Replacing, Returning
  <2>6. Lifecycle!Fault("cancel")
    BY <1>17, <2>1
    DEF Cancel, Lifecycle!Fault, AttemptFaults, AttemptTrouble, AttemptFaultsLeft, Failed
  <2>7. Lifecycle!Cancel
    BY <1>7, <2>1, <2>2, <2>3, <2>4, <2>5, <2>6
    DEF sameFile, Lifecycle!Cancel, Lifecycle!file, Lifecycle!store, Lifecycle!run
  <2> QED BY <2>7 DEF Attempts
<1>18. CASE ForeignWrite BY <1>18 DEF ForeignWrite
<1>19. CASE UNCHANGED vars
  <2>1. UNCHANGED <<pc, remote, version, info, result, ctx, error>>
    BY <1>19 DEF vars, world, files, call
  <2>2. sameFile /\ sameRun BY <1>4, <1>11, <2>1
  <2>3. UNCHANGED AttemptPc BY <2>1 DEF AttemptPc
  <2> QED BY <1>12, <2>2, <2>3
<1>20. CASE Fail
  <2> DEFINE downloading == {"stat", "createTemp", "open", "createTmp", "download"}
  <2>1. /\ pc \in downloading \union Replacing \union {"statAgain"}
        /\ pc' \in {"removeTmp", "returned"} /\ result' = "failed"
        /\ UNCHANGED <<remote, version, info, ctx>>
    BY <1>20 DEF Fail, StartFails, CopyCancelled, StepFails, IOFails, FailTo, Replacing,
       world, files
  <2>2. result = "none" /\ error = "none" BY <1>1, <2>1 DEF Copies, Replacing
  <2>3. \/ error' = pc /\ "io" \in Faults
        \/ error' = "cancelled" /\ pc \in {"download", "upload"} /\ ctx = "done"
    BY <1>20 DEF Fail, StartFails, CopyCancelled, StepFails, IOFails, FailTo
  <2>4. AttemptError' = "permanent" /\ UNCHANGED <<AttemptSeen, AttemptLeft>>
    BY <1>8, <1>9, <2>1, <2>2, <2>3 DEF AttemptError, Replacing
  <2>5. AttemptPc' = "failed"
    BY <2>1, <2>3 DEF AttemptPc, Replacing, Returning
  <2>6. error' = "cancelled" => UNCHANGED <<AttemptTrouble, AttemptFaultsLeft>>
    BY <2>1, <2>2 DEF AttemptTrouble, AttemptFaultsLeft, Failed
  <2>7. error' = pc => Lifecycle!Fault(Part(pc))
    <3> SUFFICES ASSUME error' = pc PROVE Lifecycle!Fault(Part(pc))
      OBVIOUS
    <3>1. "io" \in Faults /\ error' \in MayFail BY <2>1, <2>3 DEF MayFail, Replacing
    <3>2. Part(pc) \in AttemptFaults BY <2>1, <3>1 DEF AttemptFaults, Part, Replacing
    <3> QED BY <1>1, <2>1, <2>2, <3>1, <3>2, AttemptFault DEF TypeOK
  <2>8. CASE pc \in downloading
    <3>1. sameFile BY <1>4, <2>1, <2>8 DEF Replacing
    <3>2. AttemptPc \in {"stat", "download"} /\ (pc = "download" => AttemptPc = "download")
      BY <2>8 DEF AttemptPc, Replacing, Returning
    <3>3. Part(pc) = "download" BY <2>8 DEF Part
    <3>4. Lifecycle!DownloadFails
      BY <1>7, <2>1, <2>3, <2>4, <2>5, <2>6, <2>7, <2>8, <3>1, <3>2, <3>3
      DEF sameFile, Lifecycle!DownloadFails, Lifecycle!EndAttempt, Lifecycle!file,
         Lifecycle!store, Lifecycle!faults
    <3> QED BY <3>4 DEF Attempts
  <2>9. CASE pc \in Replacing
    <3>1. AttemptVersion = 1 /\ AttemptContent = "raw" BY <2>9 DEF FileSeen
    <3>2. \/ sameFile
          \/ AttemptVersion' = 2 /\ AttemptContent' \in {"partial", "output"}
      BY <2>1, <3>1 DEF FileSeen, sameFile, Replacing
    <3>3. AttemptPc = "upload" /\ Part(pc) = "upload"
      BY <2>9 DEF AttemptPc, Part, Replacing, Returning
    <3>4. \/ Lifecycle!Fault("upload")
          \/ ctx = "done" /\ UNCHANGED <<AttemptTrouble, AttemptFaultsLeft>>
      BY <2>3, <2>6, <2>7, <3>3
    <3>5. Lifecycle!UploadFails
      BY <1>7, <2>1, <2>4, <2>5, <3>1, <3>2, <3>3, <3>4
      DEF sameFile, Lifecycle!UploadFails, Lifecycle!Write, Lifecycle!EndAttempt,
         Lifecycle!Processed, Lifecycle!file, Lifecycle!store, Lifecycle!faults
    <3> QED BY <3>5 DEF Attempts
  <2>10. CASE pc = "statAgain"
    <3>1. sameFile BY <1>4, <2>1, <2>10 DEF Replacing
    <3>2. AttemptPc = "statAgain" /\ Part(pc) = "stat"
      BY <2>10 DEF AttemptPc, Part, Replacing, Returning
    <3>3. Lifecycle!StatAgainFails
      BY <1>7, <2>1, <2>3, <2>4, <2>5, <2>7, <2>10, <3>1, <3>2
      DEF sameFile, Lifecycle!StatAgainFails, Lifecycle!EndAttempt, Lifecycle!file,
         Lifecycle!store
    <3> QED BY <3>3 DEF Attempts
  <2> QED BY <2>1, <2>8, <2>9, <2>10
<1> QED
  BY <1>13, <1>14, <1>15, <1>16, <1>17, <1>18, <1>19, <1>20 DEF Next, Step

\* FileLifecycle assumes of Overwrite what its system calls do, until another program
\* writes the file.
THEOREM IsAttemptAlways == Spec => IsAttempt
<1>1. IInv => ("writer" \notin trouble => FileSeen) BY FileSeenHolds
<1>2. [Next]_vars => ("writer" \in trouble => "writer" \in trouble')
  BY DEF vars, world, files, call, Next, Step, Download, Callback, Replace, Fail, RemoveTmp,
     Cancel, ForeignWrite, Stat, CreateTemp, OpenRemote, CreateTmp, DownloadChunk, DownloadEnd,
     ProcessFails, ProcessSkips, ProcessInPlace, ProcessElsewhere, StatProcessed,
     OpenProcessed, Truncate, UploadChunk, UploadEnd, StatAgain, RemoveProcessed, StartFails,
     CopyCancelled, StepFails, FailTo, RemoveFile
<1>3. IInv /\ IInv' /\ ("writer" \notin trouble => FileSeen)
        /\ ("writer" \notin trouble => FileSeen)' /\ [Next]_vars
      => [Attempts \/ "writer" \in trouble']_(Lifecycle!vars)
  BY <1>2, AttemptStep
<1> QED BY <1>1, <1>3, AttemptInit, InvariantHolds, PTL DEF Spec, IsAttempt

-----------------------------------------------------------------------------
(* How many steps a call takes *)

\* A difference of two lengths, versions or offsets, or none.
LEMMA BeyondNat ==
  ASSUME NEW count \in Nat, NEW other \in Nat
  PROVE  Beyond(count, other) \in Nat
BY DEF Beyond

\* What is counted is a number.
LEMMA StepsLeftType == TypeOK => StepsLeft \in Nat /\ ChunksLeft \in Nat
<1> SUFFICES ASSUME TypeOK PROVE StepsLeft \in Nat /\ ChunksLeft \in Nat
  OBVIOUS
<1>1. /\ Len(remote) \in Nat /\ OutputChunks \in Nat /\ pos \in Nat
      /\ version \in Nat /\ MaxVersion \in Nat
  BY LengthAssumption, BoundAssumption DEF TypeOK, Contents
<1>2. ChunksLeft \in Nat BY <1>1, BeyondNat DEF ChunksLeft
<1>3. CallsFrom(pc) \in Nat BY DEF CallsFrom
<1>4. Beyond(MaxVersion, version) \in Nat BY <1>1, BeyondNat
<1> QED BY <1>2, <1>3, <1>4 DEF StepsLeft

LEMMA StepsLeftTypeNext == TypeOK' => StepsLeft' \in Nat /\ ChunksLeft' \in Nat
<1> SUFFICES ASSUME TypeOK' PROVE StepsLeft' \in Nat /\ ChunksLeft' \in Nat
  OBVIOUS
<1>1. /\ Len(remote') \in Nat /\ OutputChunks \in Nat /\ pos' \in Nat
      /\ version' \in Nat /\ MaxVersion \in Nat
  BY LengthAssumption, BoundAssumption DEF TypeOK, Contents
<1>2. ChunksLeft' \in Nat BY <1>1, BeyondNat DEF ChunksLeft
<1>3. CallsFrom(pc') \in Nat BY DEF CallsFrom
<1>4. Beyond(MaxVersion, version') \in Nat BY <1>1, BeyondNat
<1> QED BY <1>2, <1>3, <1>4 DEF StepsLeft

\* Every step of the call, a cancellation and a foreign write use up one at least
\* (local.go:177-353).
LEMMA StepUsesStep ==
  ASSUME IInv, Next
  PROVE  StepsLeft' < StepsLeft
<1>1. /\ Len(remote) \in Nat /\ OutputChunks \in Nat /\ pos \in Nat
      /\ version \in Nat /\ MaxVersion \in Nat /\ ctx \in {"live", "done"}
  BY LengthAssumption, BoundAssumption DEF IInv, TypeOK, Contents
<1>2. TypeOK' BY TypeStep DEF IInv
<1>3. ChunksLeft \in Nat /\ ChunksLeft' \in Nat
  BY <1>2, StepsLeftType, StepsLeftTypeNext DEF IInv
<1>4. Beyond(MaxVersion, version) \in Nat BY <1>1, BeyondNat
\* A step to a later system call, with no more to copy than before.
<1>5. ASSUME ctx' = ctx, version' \in {version, version + 1},
             CallsFrom(pc') + ChunksLeft' < CallsFrom(pc) + ChunksLeft
      PROVE  StepsLeft' < StepsLeft
  <2>1. /\ Beyond(MaxVersion, version') \in Nat
        /\ Beyond(MaxVersion, version') <= Beyond(MaxVersion, version)
    <3>1. CASE version' = version BY <1>4, <3>1
    <3>2. CASE version' = version + 1 BY <1>1, <3>2 DEF Beyond
    <3> QED BY <1>5, <3>1, <3>2
  <2>2. CallsFrom(pc) \in Nat /\ CallsFrom(pc') \in Nat BY DEF CallsFrom
  <2> QED BY <1>3, <1>4, <1>5, <2>1, <2>2 DEF StepsLeft
<1> USE <1>1 DEF world, files, call
<1>6. CASE Stat BY <1>5, <1>6 DEF Stat, CallsFrom, ChunksLeft
<1>7. CASE CreateTemp BY <1>5, <1>7 DEF CreateTemp, CallsFrom, ChunksLeft
<1>8. CASE OpenRemote BY <1>5, <1>8 DEF OpenRemote, CallsFrom, ChunksLeft
<1>9. CASE CreateTmp BY <1>5, <1>9 DEF CreateTmp, CallsFrom, ChunksLeft, Beyond
<1>10. CASE DownloadChunk BY <1>5, <1>10 DEF DownloadChunk, CallsFrom, ChunksLeft, Beyond
<1>11. CASE DownloadEnd BY <1>5, <1>11 DEF DownloadEnd, CallsFrom, ChunksLeft, Beyond
<1>12. CASE ProcessFails \/ ProcessSkips
  BY <1>5, <1>12 DEF ProcessFails, ProcessSkips, FailTo, CallsFrom, ChunksLeft
<1>13. CASE ProcessInPlace \/ ProcessElsewhere
  BY <1>5, <1>13 DEF ProcessInPlace, ProcessElsewhere, CallsFrom, ChunksLeft
<1>14. CASE StatProcessed \/ OpenProcessed
  BY <1>5, <1>14 DEF StatProcessed, OpenProcessed, CallsFrom, ChunksLeft
<1>15. CASE Truncate BY <1>5, <1>15 DEF Truncate, CallsFrom, ChunksLeft, Beyond
<1>16. CASE UploadChunk
  <2>1. Len(Uploading) = OutputChunks
    BY <1>16, FileFacts DEF UploadChunk, IInv, Copies, Replacing, Output
  <2> QED BY <1>5, <1>16, <2>1 DEF UploadChunk, CallsFrom, ChunksLeft, Beyond
<1>17. CASE UploadEnd BY <1>5, <1>17 DEF UploadEnd, CallsFrom, ChunksLeft, Beyond
<1>18. CASE StatAgain BY <1>5, <1>18 DEF StatAgain, CallsFrom, ChunksLeft
<1>19. CASE RemoveProcessed BY <1>5, <1>19 DEF RemoveProcessed, CallsFrom, ChunksLeft
<1>20. ASSUME pc' = "removeTmp", pc \in MayFail, UNCHANGED <<world, files>> PROVE StepsLeft' < StepsLeft
  <2>1. ChunksLeft' = 0 BY <1>20 DEF ChunksLeft
  <2>2. CallsFrom(pc') < CallsFrom(pc) /\ CallsFrom(pc') \in Nat /\ CallsFrom(pc) \in Nat
    BY <1>20 DEF CallsFrom, MayFail
  <2> QED BY <1>3, <1>5, <1>20, <2>1, <2>2
<1>21. CASE CopyCancelled BY <1>20, <1>21 DEF CopyCancelled, FailTo, MayFail
<1>22. CASE StepFails BY <1>20, <1>22 DEF StepFails, IOFails, FailTo, MayFail
<1>23. CASE StartFails
  BY <1>5, <1>23 DEF StartFails, IOFails, FailTo, CallsFrom, ChunksLeft
<1>24. CASE RemoveTmp BY <1>5, <1>24 DEF RemoveTmp, CallsFrom, ChunksLeft
<1>25. CASE Cancel
  <2>1. UNCHANGED <<pc, remote, version, pos>> /\ ctx = "live" /\ ctx' = "done"
    BY <1>25 DEF Cancel
  <2>2. ChunksLeft' = ChunksLeft BY <2>1 DEF ChunksLeft
  <2>3. CallsFrom(pc) \in Nat BY DEF CallsFrom
  <2> QED BY <1>3, <1>4, <2>1, <2>2, <2>3 DEF StepsLeft
<1>26. CASE ForeignWrite
  <2>1. /\ UNCHANGED <<ctx, pc, pos>> /\ version < MaxVersion /\ version' = version + 1
        /\ Len(remote') = 1
    BY <1>26 DEF ForeignWrite, Foreign
  <2>2. ChunksLeft' <= ChunksLeft + 1 BY <2>1 DEF ChunksLeft, Beyond
  <2>3. Beyond(MaxVersion, version') = Beyond(MaxVersion, version) - 1 BY <2>1 DEF Beyond
  <2>4. CallsFrom(pc) \in Nat BY DEF CallsFrom
  <2> QED BY <1>3, <1>4, <2>1, <2>2, <2>3, <2>4 DEF StepsLeft
<1> QED
  BY <1>6, <1>7, <1>8, <1>9, <1>10, <1>11, <1>12, <1>13, <1>14, <1>15, <1>16, <1>17, <1>18,
     <1>19, <1>21, <1>22, <1>23, <1>24, <1>25, <1>26
  DEF Next, Step, Download, Callback, Replace, Fail

\* A call takes a bounded number of steps, however long the files are, whatever fails and
\* whoever writes the file meanwhile (local.go:177-353).
THEOREM StepsRunOutAlways == Spec => StepsRunOut
<1> DEFINE Natural == StepsLeft \in Nat
           Few == StepsLeft <= SourceChunks + OutputChunks + 14 + 2 * Beyond(MaxVersion, 1)
           Fewer == StepsLeft' < StepsLeft /\ {StepsLeft, StepsLeft'} \subseteq Nat
<1>1. Init => Few
  <2>1. ASSUME Init
        PROVE  /\ CallsFrom(pc) = 13 /\ ctx = "live" /\ version = 1
               /\ ChunksLeft = SourceChunks + OutputChunks
    BY <2>1, FileFacts DEF Init, CallsFrom, ChunksLeft, Original
  <2>2. Beyond(MaxVersion, 1) \in Nat BY BoundAssumption, BeyondNat
  <2> QED BY <2>1, <2>2, LengthAssumption DEF StepsLeft
<1>2. IInv => Natural
  BY StepsLeftType DEF IInv
<1>3. IInv /\ Natural /\ Natural' /\ [Next]_vars => [Fewer]_vars
  BY StepUsesStep
<1> QED BY <1>1, <1>2, <1>3, InvariantHolds, PTL DEF Spec, StepsRunOut, Few, Fewer
=============================================================================
