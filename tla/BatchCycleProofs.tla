-------------------------- MODULE BatchCycleProofs --------------------------
(***************************************************************************)
(* Proofs about BatchCycle for any set of paths, any way in which they     *)
(* read back, any number of workers, any set and number of faults, and     *)
(* either backlog manager.                                                 *)
(***************************************************************************)
EXTENDS BatchCycle, TLAPS

\* A file cut short holds the first of the paths (gzip.go:106-115).
LEMMA CutIsPrefix ==
  ASSUME NEW paths \in Seq(Path), CloseCut(paths)
  PROVE  /\ stored' \in Seq(Path)
         /\ \A i \in DOMAIN stored' : i \in DOMAIN paths /\ stored'[i] = paths[i]
         /\ end' \in {"cut", "torn", "bare"}
         /\ manager' = manager
<1>1. PICK kept \in 0..Len(paths) : stored' = SubSeq(paths, 1, kept)
  BY DEF CloseCut
<1>2. end' \in {"cut", "torn", "bare"} /\ manager' = manager
  BY DEF CloseCut
<1> QED BY <1>1, <1>2

\* The names of a path are names (gzip.go:196-204).
LEMMA NamesType ==
  ASSUME BacklogTypeOK, NEW path \in Path
  PROVE  Names(path) \in Seq(STRING)
<1>1. CASE manager = "memory"
  <2>1. path \in STRING BY PathAssumption
  <2> QED BY <1>1, <2>1 DEF Names
<1>2. CASE manager # "memory" BY <1>2, ReadsAsAssumption DEF Names
<1> QED BY <1>1, <1>2

\* The lines a reader gives are lines; those that come from a whole line have a
\* part of their own (memory.go:115-118, gzip.go:196-219).
LEMMA LinesType ==
  ASSUME BacklogTypeOK, NEW count \in 0..Len(stored), NEW line \in LinesUpTo(count)
  PROVE  /\ line \in Line
         /\ line.entry \in 1..count
         /\ line.part \in DOMAIN Names(stored[line.entry])
         /\ line.part # 0
         /\ line.name = Names(stored[line.entry])[line.part]
<1>1. PICK entry \in 1..count : line \in LinesOf(entry)
  BY DEF LinesUpTo
<1>2. stored[entry] \in Path
  BY DEF BacklogTypeOK
<1>3. Names(stored[entry]) \in Seq(STRING)
  BY <1>2, NamesType
<1>4. PICK k \in DOMAIN Names(stored[entry]) :
        line = [entry |-> entry, part |-> k, name |-> Names(stored[entry])[k]]
  BY <1>1 DEF LinesOf
<1> QED BY <1>3, <1>4 DEF Line, BacklogTypeOK

\* A plain name stands in one line of its own entry only (gzip.go:202).
LEMMA PlainIsItself ==
  ASSUME BacklogTypeOK, NEW path \in Path, NEW k \in DOMAIN Names(path),
         Names(path)[k] \in Plain
  PROVE  Names(path)[k] = path /\ k = 1
<1>1. CASE manager = "memory" BY <1>1 DEF Names
<1>2. CASE manager = "gzip"
  <2>1. Names(path) = ReadsAs[path] BY <1>2 DEF Names
  <2>2. Names(path)[k] = path BY <1>2, <2>1 DEF Plain
  <2>3. ReadsAs[path] = <<path>> BY <1>2, <2>2 DEF Plain
  <2> QED BY <2>1, <2>2, <2>3
<1> QED BY <1>1, <1>2, ManagerAssumption DEF BacklogTypeOK

\* The manager is chosen once (backlog/memory.go:38, backlog/gzip.go:49).
LEMMA ManagerKept == [Next]_vars => manager' = manager
BY DEF Next, StartScan, Scan, ScanFile, ScanEnds, Count, GiveUp, Processing, StartReading,
       Process, ProcessFails, ProcessingEnds, World, Crash, ForeignWrite, ClearBacklog,
       Create, Put, CloseWhole, CloseCut, Clear, BacklogCrash, vars, backlog

-----------------------------------------------------------------------------
\* Every step keeps the types of the backlog (backlog/gzip.go:79-144).
LEMMA BacklogTypeStep == TypeOK /\ [Next]_vars => BacklogTypeOK'
<1> SUFFICES ASSUME TypeOK, [Next]_vars PROVE BacklogTypeOK'
  OBVIOUS
<1> USE DEF TypeOK, BacklogTypeOK
<1>1. CASE UNCHANGED backlog BY <1>1 DEF backlog
<1>2. CASE StartScan BY <1>2 DEF StartScan, Create
<1>3. CASE ScanFile
  <2>1. Walked[next] \in Path BY <1>3, WalkedAssumption DEF ScanFile
  <2> QED BY <1>1, <1>3, <2>1 DEF ScanFile, Put
<1>4. CASE ScanEnds
  <2>1. CASE CloseWhole BY <2>1 DEF CloseWhole
  <2>2. CASE manager = "gzip" /\ CloseCut(stored) BY <2>2, CutIsPrefix
  <2>3. CASE /\ manager = "gzip" /\ next <= Len(Walked)
             /\ CloseCut(Append(stored, Walked[next]))
    <3>1. Append(stored, Walked[next]) \in Seq(Path) BY <2>3, WalkedAssumption
    <3> QED BY <2>3, <3>1, CutIsPrefix
  <2> QED BY <1>4, <2>1, <2>2, <2>3 DEF ScanEnds
<1>5. CASE Clear BY <1>5 DEF Clear
<1>6. CASE Crash
  <2>1. CASE manager = "gzip" /\ CloseCut(stored) BY <2>1, CutIsPrefix
  <2> QED BY <1>1, <1>5, <1>6, <2>1 DEF Crash, BacklogCrash
<1> QED
  BY <1>1, <1>2, <1>3, <1>4, <1>5, <1>6
  DEF Next, Scan, Count, GiveUp, Processing, StartReading, Process, ProcessFails, ProcessingEnds,
      World, ForeignWrite, ClearBacklog, vars

\* What a reader may be given is a set of lines (workflow.go:118-128).
LEMMA ReadingType ==
  ASSUME BacklogTypeOK, StartReading
  PROVE  todo' \subseteq Line
<1>1. \A count \in 0..Len(stored) : LinesUpTo(count) \subseteq Line
  BY LinesType
<1>2. \A count \in 0..Len(stored) : Torn(count + 1) \in Line
  BY PathAssumption DEF Torn, Line
<1>3. Len(stored) \in Nat
  BY DEF BacklogTypeOK
<1>4. Lines \subseteq Line
  BY <1>1, <1>2, <1>3 DEF Lines
<1> QED BY <1>1, <1>2, <1>4 DEF StartReading

\* Every step keeps the types (workflow.go:39-187).
LEMMA TypeStep == TypeOK /\ [Next]_vars => TypeOK'
<1> SUFFICES ASSUME TypeOK, [Next]_vars PROVE TypeOK'
  OBVIOUS
<1>0. BacklogTypeOK' BY BacklogTypeStep
<1> USE <1>0, ConcurrencyAssumption DEF TypeOK, Fault, scanning, processing, backlog
<1>1. CASE StartScan BY <1>1 DEF StartScan, Apart
<1>2. CASE ScanFile BY <1>2, WalkedAssumption DEF ScanFile
<1>3. CASE ScanEnds BY <1>3 DEF ScanEnds
<1>4. CASE Count \/ GiveUp BY <1>4 DEF Count, Apart, GiveUp
<1>5. CASE StartReading
  <2>1. todo' \subseteq Line BY <1>5, ReadingType
  <2>2. broke' = FALSE \/ broke' = TRUE BY <1>5 DEF StartReading
  <2>4. faultsLeft' \in Nat BY <1>5 DEF StartReading
  <2>3. /\ proc' = "reading" /\ errors' = 0 /\ again' = spent /\ spent' = TRUE
        /\ UNCHANGED <<backlog, needs, scanning>>
    BY <1>5 DEF StartReading
  <2>5. errors' \in 0..(2 * Concurrency) BY <2>3
  <2>6. broke' \in BOOLEAN /\ spent' \in BOOLEAN /\ again' \in BOOLEAN BY <2>2, <2>3
  <2> QED BY <2>1, <2>3, <2>4, <2>5, <2>6
<1>6. CASE Process
  <2>1. needs' \subseteq Path /\ todo' \subseteq todo /\ faultsLeft' \in Nat
    BY <1>6 DEF Process
  <2>2. UNCHANGED <<scanning, proc, errors, broke, spent, again>>
    BY <1>6 DEF Process
  <2> QED BY <2>1, <2>2
<1>7. CASE ProcessFails BY <1>7 DEF ProcessFails, WorkerLeft
<1>8. CASE ProcessingEnds BY <1>8 DEF ProcessingEnds
<1>9. CASE Crash BY <1>9 DEF Crash
<1>10. CASE ForeignWrite BY <1>10 DEF ForeignWrite
<1>11. CASE ClearBacklog BY <1>11 DEF ClearBacklog
<1>12. CASE UNCHANGED vars BY <1>12 DEF vars
<1> QED
  BY <1>1, <1>2, <1>3, <1>4, <1>5, <1>6, <1>7, <1>8, <1>9, <1>10, <1>11, <1>12
  DEF Next, Scan, Processing, World

-----------------------------------------------------------------------------
\* A gzip file is not written while it is read (workflow.go:39-128, for a caller
\* that calls the two phases one after the other).
LEMMA SeparateStep == TypeOK /\ Separate /\ [Next]_vars => Separate'
<1> SUFFICES ASSUME TypeOK, Separate, [Next]_vars PROVE Separate'
  OBVIOUS
<1> USE DEF TypeOK, BacklogTypeOK, Separate, scanning, processing, backlog
<1>1. CASE StartScan BY <1>1 DEF StartScan, Apart, Create
<1>2. CASE ScanFile BY <1>2 DEF ScanFile, Put
<1>3. CASE ScanEnds BY <1>3, ManagerKept DEF ScanEnds
<1>4. CASE Count \/ GiveUp BY <1>4 DEF Count, Apart, CountSucceeds, GiveUp
<1>5. CASE StartReading BY <1>5 DEF StartReading
<1>6. CASE Process BY <1>6 DEF Process
<1>7. CASE ProcessFails BY <1>7 DEF ProcessFails
<1>8. CASE ProcessingEnds BY <1>8 DEF ProcessingEnds
<1>9. CASE Crash BY <1>9 DEF Crash
<1>10. CASE ForeignWrite BY <1>10 DEF ForeignWrite
<1>11. CASE ClearBacklog BY <1>11 DEF ClearBacklog, Clear
<1>12. CASE UNCHANGED vars BY <1>12 DEF vars
<1> QED
  BY <1>1, <1>2, <1>3, <1>4, <1>5, <1>6, <1>7, <1>8, <1>9, <1>10, <1>11, <1>12
  DEF Next, Scan, Processing, World

\* A cut takes away paths and adds none but the one that was being written
\* (gzip.go:106-134).
LEMMA ScanEndsKeeps ==
  ASSUME TypeOK, Unrepeated, ScanEnds
  PROVE  /\ Unrepeated'
         /\ \A i \in DOMAIN stored' :
              \/ i \in DOMAIN stored /\ stored'[i] = stored[i]
              \/ stored'[i] \in needs
<1> USE DEF TypeOK, BacklogTypeOK, Unrepeated
<1>0. scan' = "idle" BY DEF ScanEnds
<1>1. CASE CloseWhole BY <1>0, <1>1 DEF CloseWhole
<1>2. CASE CloseCut(stored) BY <1>0, <1>2, CutIsPrefix
<1>3. CASE /\ next <= Len(Walked) /\ Walked[next] \in needs
           /\ CloseCut(Append(stored, Walked[next]))
  <2>1. Append(stored, Walked[next]) \in Seq(Path) /\ next \in DOMAIN Walked
    BY <1>3, WalkedAssumption
  <2>2. \A i \in DOMAIN stored' : i \in DOMAIN Append(stored, Walked[next])
                                  /\ stored'[i] = Append(stored, Walked[next])[i]
    BY <1>3, <2>1, CutIsPrefix
  <2>3. scan' = "idle" /\ scan = "writing"
    BY DEF ScanEnds
  <2>4. \A i \in DOMAIN stored : stored[i] # Walked[next]
    BY <1>3, <2>1, <2>3
  <2> QED BY <1>3, <2>1, <2>2, <2>3, <2>4
<1> QED BY <1>1, <1>2, <1>3 DEF ScanEnds

\* What a crash leaves was there (gzip.go:103-115).
LEMMA CrashKeeps ==
  ASSUME TypeOK, BacklogCrash
  PROVE  \A i \in DOMAIN stored' : i \in DOMAIN stored /\ stored'[i] = stored[i]
<1>1. CASE Clear BY <1>1 DEF Clear
<1>2. CASE CloseCut(stored) BY <1>2, CutIsPrefix DEF TypeOK, BacklogTypeOK
<1>3. CASE UNCHANGED backlog BY <1>3 DEF backlog
<1> QED BY <1>1, <1>2, <1>3 DEF BacklogCrash

\* A scan never stores a path twice (local.go:89-173 lists each once, memory.go:78-80
\* and gzip.go:90 begin anew).
LEMMA UnrepeatedStep == TypeOK /\ Unrepeated /\ [Next]_vars => Unrepeated'
<1> SUFFICES ASSUME TypeOK, Unrepeated, [Next]_vars PROVE Unrepeated'
  OBVIOUS
<1> USE DEF TypeOK, BacklogTypeOK, Unrepeated, scanning, processing, backlog
<1>1. CASE StartScan BY <1>1 DEF StartScan, Create
<1>2. CASE ScanFile
  <2>1. next \in DOMAIN Walked /\ next' = next + 1 /\ scan = "writing"
    BY <1>2 DEF ScanFile
  <2>2. CASE Put(Walked[next])
    <3>1. stored' = Append(stored, Walked[next]) BY <2>2 DEF Put
    <3>2. \A i \in DOMAIN stored : stored[i] # Walked[next] BY <2>1
    <3>3. \A j \in next'..Len(Walked) : Walked[next] # Walked[j]
      BY <2>1, WalkedAssumption
    <3>4. \A i, j \in DOMAIN stored' : i # j => stored'[i] # stored'[j]
      BY <3>1, <3>2, <2>1
    <3>5. \A i \in DOMAIN stored' : \A j \in next'..Len(Walked) : stored'[i] # Walked[j]
      BY <3>1, <3>3, <2>1
    <3> QED BY <3>4, <3>5
  <2>3. CASE UNCHANGED backlog BY <2>1, <2>3
  <2> QED BY <1>2, <2>2, <2>3 DEF ScanFile
<1>3. CASE ScanEnds BY <1>3, ScanEndsKeeps
<1>4. CASE Count \/ GiveUp BY <1>4 DEF Count, GiveUp
<1>5. CASE StartReading BY <1>5 DEF StartReading
<1>6. CASE Process BY <1>6 DEF Process
<1>7. CASE ProcessFails BY <1>7 DEF ProcessFails
<1>8. CASE ProcessingEnds BY <1>8 DEF ProcessingEnds
<1>9. CASE Crash BY <1>9, CrashKeeps DEF Crash
<1>10. CASE ForeignWrite BY <1>10 DEF ForeignWrite
<1>11. CASE ClearBacklog BY <1>11 DEF ClearBacklog, Clear
<1>12. CASE UNCHANGED vars BY <1>12 DEF vars
<1> QED
  BY <1>1, <1>2, <1>3, <1>4, <1>5, <1>6, <1>7, <1>8, <1>9, <1>10, <1>11, <1>12
  DEF Next, Scan, Processing, World

\* A backlog nothing was processed from holds what is needed (status/memory.go:60-96
\* passes on nothing else).
LEMMA UnspentStep == TypeOK /\ Unrepeated /\ Unspent /\ [Next]_vars => Unspent'
<1> SUFFICES ASSUME TypeOK, Unrepeated, Unspent, [Next]_vars PROVE Unspent'
  OBVIOUS
<1> USE DEF TypeOK, BacklogTypeOK, Unspent, scanning, processing, backlog
<1>1. CASE StartScan BY <1>1 DEF StartScan, Create
<1>2. CASE ScanFile
  <2>1. Walked[next] \in Path /\ UNCHANGED <<needs, spent, proc>>
    BY <1>2, WalkedAssumption DEF ScanFile
  <2>2. CASE Put(Walked[next]) /\ Walked[next] \in needs
    <3>1. stored' = Append(stored, Walked[next]) BY <2>2 DEF Put
    <3> QED BY <2>1, <2>2, <3>1
  <2> QED BY <1>2, <2>1, <2>2 DEF ScanFile
<1>3. CASE ScanEnds
  <2>1. UNCHANGED <<needs, spent, proc>> BY <1>3 DEF ScanEnds
  <2> QED BY <1>3, <2>1, ScanEndsKeeps
<1>4. CASE Count \/ GiveUp BY <1>4 DEF Count, GiveUp
<1>5. CASE StartReading BY <1>5 DEF StartReading
<1>6. CASE Process BY <1>6 DEF Process
<1>7. CASE ProcessFails BY <1>7 DEF ProcessFails
<1>8. CASE ProcessingEnds BY <1>8 DEF ProcessingEnds
<1>9. CASE Crash
  <2>1. needs \subseteq needs' /\ proc' = "idle" /\ spent' = spent BY <1>9 DEF Crash
  <2> QED BY <1>9, <2>1, CrashKeeps DEF Crash
<1>10. CASE ForeignWrite BY <1>10 DEF ForeignWrite
<1>11. CASE ClearBacklog BY <1>11 DEF ClearBacklog, Clear
<1>12. CASE UNCHANGED vars BY <1>12 DEF vars
<1> QED
  BY <1>1, <1>2, <1>3, <1>4, <1>5, <1>6, <1>7, <1>8, <1>9, <1>10, <1>11, <1>12
  DEF Next, Scan, Processing, World
-----------------------------------------------------------------------------
\* The lines of a backlog that was closed, or of a reader that met no error, are
\* whole, and a plain name is in one of them only (gzip.go:196-219).
LEMMA WholeLines ==
  ASSUME TypeOK, Unrepeated, end = "whole"
  PROVE  /\ \A line \in Lines : line.part # 0
         /\ \A line \in Lines : line.name \in Plain =>
              line.entry \in DOMAIN stored /\ line.name = stored[line.entry]
         /\ \A one, other \in Lines :
              one.name = other.name /\ one.name \in Plain => one = other
<1>1. BacklogTypeOK /\ Len(stored) \in Nat /\ DOMAIN stored = 1..Len(stored)
  BY DEF TypeOK, BacklogTypeOK
<1>2. Lines = LinesUpTo(Len(stored)) BY DEF Lines
<1>3. ASSUME NEW line \in Lines
      PROVE  /\ line \in Line
             /\ line.entry \in DOMAIN stored
             /\ line.part # 0
             /\ line.name \in Plain => line.name = stored[line.entry] /\ line.part = 1
  <2>1. /\ line \in Line
        /\ line.entry \in 1..Len(stored)
        /\ line.part \in DOMAIN Names(stored[line.entry])
        /\ line.part # 0
        /\ line.name = Names(stored[line.entry])[line.part]
    BY <1>1, <1>2, LinesType
  <2>2. stored[line.entry] \in Path BY <1>1, <2>1 DEF BacklogTypeOK
  <2> QED BY <1>1, <2>1, <2>2, PlainIsItself
<1>4. ASSUME NEW one \in Lines, NEW other \in Lines,
             one.name = other.name, one.name \in Plain
      PROVE  one = other
  <2>1. one.entry = other.entry BY <1>3, <1>4 DEF Unrepeated
  <2>2. one.part = other.part BY <1>3, <1>4
  <2> QED BY <1>3, <1>4, <2>1, <2>2 DEF Line
<1> QED BY <1>3, <1>4

\* What the workers are given is whole, distinct and needed (workflow.go:104-128):
\* it is so when the reader starts and stays so while they work.
LEMMA GivenStep ==
  /\ TypeOK /\ Separate /\ Unrepeated /\ Unspent
  /\ CutNeverProcessed /\ OneWorkerPerFile /\ OnlyWhatIsNeeded
  /\ [Next]_vars
  => CutNeverProcessed' /\ OneWorkerPerFile' /\ OnlyWhatIsNeeded'
<1> SUFFICES ASSUME TypeOK, Separate, Unrepeated, Unspent, [Next]_vars,
                    CutNeverProcessed, OneWorkerPerFile, OnlyWhatIsNeeded
             PROVE CutNeverProcessed' /\ OneWorkerPerFile' /\ OnlyWhatIsNeeded'
  OBVIOUS
<1>0. Plain' = Plain BY ManagerKept DEF Plain
<1> USE DEF CutNeverProcessed, OneWorkerPerFile, OnlyWhatIsNeeded
<1>1. CASE todo' \subseteq todo /\ UNCHANGED <<broke, again>> /\ needs \subseteq needs'
  BY <1>0, <1>1
<1>2. CASE todo' = {} BY <1>2
<1>3. CASE StartReading
  <2> SUFFICES ASSUME ~broke'
               PROVE  CutNeverProcessed' /\ OneWorkerPerFile' /\ OnlyWhatIsNeeded'
    OBVIOUS
  <2>1. /\ proc = "counted" /\ todo' = Lines
        /\ again' = spent /\ needs' = needs
    BY <1>3 DEF StartReading
  <2>2. end = "whole"
    BY <2>1, ManagerAssumption DEF Separate, TypeOK, BacklogTypeOK
  <2> QED BY <1>0, <2>1, <2>2, WholeLines DEF Unspent
<1>4. CASE Process
  <2>1. PICK line \in todo :
          /\ todo' = todo \ {line}
          /\ needs' = needs \ {line.name} \/ needs' = needs \union {line.name}
          /\ UNCHANGED <<broke, again>>
    BY <1>4 DEF Process
  <2> QED BY <1>0, <2>1
<1>5. CASE ProcessFails
  <2>1. todo' \subseteq todo /\ UNCHANGED <<broke, again>> /\ needs \subseteq needs'
    BY <1>5 DEF ProcessFails
  <2> QED BY <1>1, <2>1
<1>6. CASE ForeignWrite
  BY <1>1, <1>6 DEF ForeignWrite, processing
<1>7. CASE UNCHANGED <<todo, broke, again, needs>> BY <1>1, <1>7
<1> QED
  BY <1>1, <1>2, <1>3, <1>4, <1>5, <1>6, <1>7
  DEF Next, StartScan, Scan, ScanFile, ScanEnds, Count, GiveUp, Processing, ProcessingEnds, World,
      Crash, ClearBacklog, processing, vars

-----------------------------------------------------------------------------
\* A plain path that is stored has a line of its name (memory.go:115-118, gzip.go:196-219).
LEMMA PlainHasLine ==
  ASSUME TypeOK, NEW i \in DOMAIN stored, stored[i] \in Plain
  PROVE  \E line \in Lines : line.name = stored[i]
<1>1. Len(stored) \in Nat /\ i \in 1..Len(stored) BY DEF TypeOK, BacklogTypeOK
<1>2. Names(stored[i]) = <<stored[i]>>
  BY ManagerAssumption DEF Names, Plain, TypeOK, BacklogTypeOK
<1> DEFINE line == [entry |-> i, part |-> 1, name |-> Names(stored[i])[1]]
<1>3. 1 \in DOMAIN Names(stored[i]) /\ Names(stored[i])[1] = stored[i] BY <1>2
<1>4. line \in LinesOf(i) BY <1>3 DEF LinesOf
<1>5. line \in Lines BY <1>1, <1>4 DEF Lines, LinesUpTo
<1> QED BY <1>3, <1>5

\* A fault ends what is known of the batch under way.
LEMMA Spoilt ==
  ASSUME TypeOK, Underway, since' = since, faultsLeft' = faultsLeft - 1
  PROVE  Underway'
<1>1. faultsLeft' <= since' /\ since' # faultsLeft' BY DEF TypeOK, Underway
<1> QED BY <1>1 DEF Underway

\* With nothing going wrong every step of a scan and of a call keeps sight of what is
\* still needed (workflow.go:39-187).
LEMMA UnderwayStep == TypeOK /\ Unspent /\ Underway /\ [Next]_vars => Underway'
<1> SUFFICES ASSUME TypeOK, Unspent, Underway, [Next]_vars PROVE Underway'
  OBVIOUS
<1>1. Plain' = Plain BY ManagerKept DEF Plain
<1>2. \A j \in DOMAIN Walked : j \in 1..Len(Walked) /\ Walked[j] \in Path
  BY WalkedAssumption
<1>3. Len(Walked) \in Nat /\ DOMAIN Walked = 1..Len(Walked) BY WalkedAssumption
<1>4. since' = since /\ faultsLeft' = faultsLeft - 1 => Underway' BY Spoilt
<1>5. since' = since /\ faultsLeft' = faultsLeft /\ since # faultsLeft => Underway'
  BY DEF Underway
<1>6. CASE StartScan
  <2>1. scan' = "writing" /\ next' = 1 /\ since' = faultsLeft /\ spent' = (proc # "idle")
        /\ proc' = proc
    BY <1>6 DEF StartScan, processing
  <2>2. CASE faultsLeft' = faultsLeft - 1
    <3>1. faultsLeft' <= since' /\ since' # faultsLeft' BY <2>1, <2>2 DEF TypeOK
    <3> QED BY <3>1 DEF Underway
  <2>3. CASE proc = "idle" /\ faultsLeft' = faultsLeft
    <3>1. faultsLeft' <= since' BY <2>1, <2>3 DEF TypeOK
    <3>2. 1..(next' - 1) = {} BY <2>1
    <3>3. scan' = "writing" /\ proc' = "idle" /\ ~spent' BY <2>1, <2>3
    <3> QED BY <3>1, <3>2, <3>3 DEF Underway
  <2> QED BY <1>6, <2>2, <2>3 DEF StartScan, Apart, Fault
<1>7. CASE ScanFile
  <2>1. /\ scan = "writing" /\ next <= Len(Walked) /\ next' = next + 1
        /\ UNCHANGED <<needs, scan, since, proc, spent>>
    BY <1>7 DEF ScanFile, processing
  <2>2. CASE faultsLeft' = faultsLeft /\ since = faultsLeft
    <3>1. proc = "idle" /\ ~spent BY <2>1, <2>2 DEF Underway
    <3>2. CASE Walked[next] \in needs /\ Put(Walked[next])
      <4>1. stored' = Append(stored, Walked[next]) /\ stored \in Seq(Path)
        BY <3>2 DEF Put, TypeOK, BacklogTypeOK
      <4>2. next \in Nat /\ Walked[next] \in Path BY <1>2, <1>3, <2>1 DEF TypeOK
      <4>3. \A i \in DOMAIN stored : i \in DOMAIN stored' /\ stored'[i] = stored[i]
        BY <4>1, <4>2
      <4>4. \E i \in DOMAIN stored' : stored'[i] = Walked[next]
        <5>1. Len(stored) + 1 \in DOMAIN stored' /\ stored'[Len(stored) + 1] = Walked[next]
          BY <4>1, <4>2
        <5> QED BY <5>1
      <4>5. ASSUME NEW j \in 1..(next' - 1), Due(Walked[j])'
            PROVE  \E i \in DOMAIN stored' : stored'[i] = Walked[j]
        <5>1. j = next \/ j \in 1..(next - 1) BY <2>1, <4>2
        <5>2. Due(Walked[j]) BY <1>1, <2>1, <4>5 DEF Due
        <5>3. CASE j \in 1..(next - 1)
          <6>1. PICK i \in DOMAIN stored : stored[i] = Walked[j]
            BY <2>2, <3>1, <5>2, <5>3 DEF Underway
          <6> QED BY <4>3, <6>1
        <5> QED BY <4>4, <5>1, <5>3
      <4> QED BY <2>1, <2>2, <3>1, <4>5 DEF Underway
    <3>3. CASE Walked[next] \notin needs /\ UNCHANGED backlog
      <4>1. next \in Nat BY DEF TypeOK
      <4>2. ASSUME NEW j \in 1..(next' - 1), Due(Walked[j])'
            PROVE  \E i \in DOMAIN stored' : stored'[i] = Walked[j]
        <5>1. Due(Walked[j]) BY <1>1, <2>1, <4>2 DEF Due
        <5>2. j # next BY <3>3, <5>1 DEF Due
        <5>3. j \in 1..(next - 1) BY <2>1, <4>1, <5>2
        <5> QED BY <2>2, <3>1, <3>3, <5>1, <5>3 DEF Underway, backlog
      <4> QED BY <2>1, <2>2, <3>1, <4>2 DEF Underway
    <3> QED BY <1>7, <2>2, <3>2, <3>3 DEF ScanFile, Fault, TypeOK
  <2>3. faultsLeft' = faultsLeft \/ faultsLeft' = faultsLeft - 1 BY <1>7 DEF ScanFile, Fault
  <2> QED BY <1>4, <1>5, <2>1, <2>2, <2>3
<1>8. CASE ScanEnds
  <2>1. scan' = "idle" /\ UNCHANGED <<needs, next, since, proc, spent>> /\ scan = "writing"
    BY <1>8 DEF ScanEnds, processing
  <2>2. CASE next > Len(Walked) /\ CloseWhole /\ faultsLeft' = faultsLeft /\ since = faultsLeft
    <3>1. next' = Len(Walked) + 1 BY <1>3, <2>1, <2>2 DEF TypeOK
    <3>2. stored' = stored BY <2>2 DEF CloseWhole
    <3>3. \A j \in DOMAIN Walked : Due(Walked[j])' <=> Due(Walked[j]) BY <1>1, <2>1 DEF Due
    <3>4. 1..(next - 1) = DOMAIN Walked BY <1>3, <2>1, <3>1
    <3>5. proc' = "idle" /\ ~spent' BY <2>1, <2>2 DEF Underway
    <3> QED BY <2>1, <2>2, <3>1, <3>2, <3>3, <3>4, <3>5 DEF Underway
  <2>3. \/ faultsLeft' = faultsLeft - 1
        \/ next > Len(Walked) /\ CloseWhole /\ faultsLeft' = faultsLeft
    BY <1>8 DEF ScanEnds, Fault
  <2> QED BY <1>4, <1>5, <2>1, <2>2, <2>3
<1>9. CASE Count
  <2>1. proc = "idle" /\ proc' = "counted"
        /\ UNCHANGED <<stored, needs, scan, next, since, spent>>
    BY <1>9 DEF Count, backlog, scanning
  <2>2. CASE scan = "idle" /\ faultsLeft' = faultsLeft /\ since = faultsLeft
    <3>1. \A j \in DOMAIN Walked : Due(Walked[j])' <=> Due(Walked[j]) BY <1>1, <2>1 DEF Due
    <3>2. next = Len(Walked) + 1 BY <2>2 DEF Underway
    <3>3. 1..(next - 1) = DOMAIN Walked BY <1>3, <3>2
    <3> QED BY <2>1, <2>2, <3>1, <3>2, <3>3 DEF Underway
  <2>3. faultsLeft' = faultsLeft - 1 \/ (scan = "idle" /\ faultsLeft' = faultsLeft)
    BY <1>9 DEF Count, Apart, Fault
  <2> QED BY <1>4, <1>5, <2>1, <2>2, <2>3
<1>10. CASE StartReading
  <2>1. proc = "counted" /\ proc' = "reading" /\ spent'
        /\ UNCHANGED <<stored, needs, scan, next, since>>
    BY <1>10 DEF StartReading, backlog, scanning
  <2>2. CASE todo' = Lines /\ faultsLeft' = faultsLeft /\ since = faultsLeft
    <3>1. scan # "writing" BY <2>1, <2>2 DEF Underway
    <3>2. scan = "idle" /\ next = Len(Walked) + 1 BY <2>2, <3>1 DEF Underway, TypeOK
    <3>3. 1..(next - 1) = DOMAIN Walked BY <1>3, <3>2
    <3>4. ASSUME NEW j \in DOMAIN Walked, Due(Walked[j])'
          PROVE  \E line \in todo' : line.name = Walked[j]
      <4>1. Due(Walked[j]) BY <1>1, <2>1, <3>4 DEF Due
      <4>2. ~spent BY <2>1, <2>2, <4>1 DEF Underway
      <4>3. PICK i \in DOMAIN stored : stored[i] = Walked[j]
        BY <2>2, <3>3, <4>1, <4>2 DEF Underway
      <4>4. stored[i] \in Plain BY <4>1, <4>3 DEF Due
      <4> QED BY <2>2, <4>3, <4>4, PlainHasLine
    <3> QED BY <2>1, <2>2, <3>2, <3>4 DEF Underway
  <2>3. faultsLeft' = faultsLeft - 1 \/ (todo' = Lines /\ faultsLeft' = faultsLeft)
    BY <1>10 DEF StartReading, Fault
  <2> QED BY <1>4, <1>5, <2>1, <2>2, <2>3
<1>11. ASSUME UNCHANGED <<stored, scan, next, since, proc, spent, faultsLeft>>, proc = "reading",
              NEW line \in todo, todo' = todo \ {line}, since = faultsLeft,
              \A path \in Path : Due(path)' => Due(path) /\ path # line.name
       PROVE  Underway'
  <2>1. spent BY <1>11 DEF Unspent
  <2>2. ASSUME NEW j \in DOMAIN Walked, Due(Walked[j])'
        PROVE  \E other \in todo' : other.name = Walked[j]
    <3>1. Due(Walked[j]) /\ Walked[j] # line.name BY <1>2, <1>11, <2>2
    <3>2. PICK other \in todo : other.name = Walked[j] BY <1>11, <3>1 DEF Underway
    <3> QED BY <1>11, <3>1, <3>2
  <2> QED BY <1>11, <2>1, <2>2 DEF Underway
<1>12. CASE Process
  <2>1. proc = "reading" /\ UNCHANGED <<stored, scan, next, since, proc, spent>>
    BY <1>12 DEF Process, backlog, scanning
  <2>2. PICK line \in todo :
          /\ todo' = todo \ {line}
          /\ \/ needs' = needs \ {line.name} /\ faultsLeft' = faultsLeft
             \/ faultsLeft' = faultsLeft - 1
    BY <1>12 DEF Process, Fault
  <2>3. needs' = needs \ {line.name} => \A path \in Path : Due(path)' => Due(path) /\ path # line.name
    BY <1>1 DEF Due
  <2> QED BY <1>4, <1>5, <1>11, <2>1, <2>2, <2>3
<1>13. CASE ProcessFails
  <2>1. proc = "reading" /\ UNCHANGED <<stored, scan, next, since, proc, spent>>
    BY <1>13 DEF ProcessFails, backlog, scanning
  <2>2. PICK line \in todo :
          /\ todo' = todo \ {line}
          /\ \/ line.name \notin Path \ Broken /\ faultsLeft' = faultsLeft
             \/ faultsLeft' = faultsLeft - 1
          /\ needs' \in {needs, needs \union (Path \intersect {line.name})}
    BY <1>13 DEF ProcessFails, Fault
  <2>3. line.name \notin Path \ Broken =>
          \A path \in Path : Due(path)' => Due(path) /\ path # line.name
    BY <1>1, <2>2 DEF Due
  <2> QED BY <1>4, <1>5, <1>11, <2>1, <2>2, <2>3
<1>14. CASE ProcessingEnds
  <2>1. proc = "reading" /\ proc' = "idle" /\ UNCHANGED <<stored, needs, scan, next, since, spent>>
    BY <1>14 DEF ProcessingEnds, backlog, scanning
  <2>2. CASE todo = {} /\ faultsLeft' = faultsLeft /\ since = faultsLeft
    <3>1. \A j \in DOMAIN Walked : ~Due(Walked[j]) BY <2>1, <2>2 DEF Underway
    <3>2. \A j \in DOMAIN Walked : ~Due(Walked[j])' BY <1>1, <2>1, <3>1 DEF Due
    <3>3. spent' /\ scan # "writing" BY <2>1, <2>2 DEF Unspent, Underway
    <3> QED BY <2>1, <2>2, <3>2, <3>3 DEF Underway
  <2>3. faultsLeft' = faultsLeft - 1 \/ (todo = {} /\ faultsLeft' = faultsLeft)
    BY <1>14 DEF ProcessingEnds, Fault
  <2> QED BY <1>4, <1>5, <2>1, <2>2, <2>3
<1>15. CASE World
  <2>1. since' = since /\ faultsLeft' = faultsLeft - 1
    BY <1>15 DEF World, Crash, ForeignWrite, ClearBacklog, Fault, scanning
  <2> QED BY <1>4, <2>1
<1>16. CASE UNCHANGED vars
  <2>1. UNCHANGED <<stored, needs, scan, next, since, proc, todo, spent, faultsLeft>>
    BY <1>16 DEF vars, backlog, scanning, processing
  <2>2. \A path \in Path : Due(path)' <=> Due(path) BY <1>1, <2>1 DEF Due
  <2>3. \A j \in 1..(next - 1) : j \in DOMAIN Walked BY <1>3 DEF TypeOK
  <2> QED BY <1>2, <2>1, <2>2, <2>3 DEF Underway
<1>17. CASE GiveUp
  <2>1. since' = since /\ faultsLeft' = faultsLeft - 1 BY <1>17 DEF GiveUp, Fault, scanning
  <2> QED BY <1>4, <2>1
<1> QED
  BY <1>6, <1>7, <1>8, <1>9, <1>10, <1>12, <1>13, <1>14, <1>15, <1>16, <1>17
  DEF Next, Scan, Processing

\* At the start there is nothing to read (backlog/memory.go:38-42).
LEMMA InitHolds == Init => IInv
<1> SUFFICES ASSUME Init PROVE IInv
  OBVIOUS
<1>1. BacklogTypeOK BY DEF Init, BacklogInit, BacklogTypeOK
<1>2. 1 \in 1..(Len(Walked) + 1) /\ 0 \in 0..(2 * Concurrency)
  BY WalkedAssumption, ConcurrencyAssumption
<1>7. MaxFaults \in Nat /\ MaxFaults + 1 \in Nat BY BoundAssumption
<1>3. TypeOK BY <1>1, <1>2, <1>7 DEF Init, TypeOK
<1>6. Underway BY BoundAssumption DEF Init, Underway
<1>4. Separate /\ Unrepeated /\ Unspent
  BY DEF Init, BacklogInit, Separate, Unrepeated, Unspent
<1>5. CutNeverProcessed /\ OneWorkerPerFile /\ OnlyWhatIsNeeded
  BY DEF Init, CutNeverProcessed, OneWorkerPerFile, OnlyWhatIsNeeded
<1> QED BY <1>3, <1>4, <1>5, <1>6 DEF IInv

\* The backlog and the workers stay two states of one listing, over any number of
\* scans and processing calls, errors, crashes and overlaps (workflow.go:39-187).
THEOREM InvariantHolds == Spec => []IInv
<1>1. IInv /\ [Next]_vars => IInv'
  BY TypeStep, SeparateStep, UnrepeatedStep, UnspentStep, UnderwayStep, GivenStep DEF IInv
<1> QED BY InitHolds, <1>1, PTL DEF Spec

\* The types of both phases are kept (workflow.go:39-187).
THEOREM TypeCorrect == Spec => []TypeOK
<1>1. IInv => TypeOK BY DEF IInv
<1> QED BY <1>1, InvariantHolds, PTL

\* A cut backlog is refused as a whole (gzip.go:288, workflow.go:110).
THEOREM CutNeverProcessedAlways == Spec => []CutNeverProcessed
<1>1. IInv => CutNeverProcessed BY DEF IInv
<1> QED BY <1>1, InvariantHolds, PTL

\* No two workers are given the same file, when names read back as they were
\* written (memory.go:78-80, 114-118; gzip.go:90, 196-219).
THEOREM OneWorkerPerFileAlways == Spec => []OneWorkerPerFile
<1>1. IInv => OneWorkerPerFile BY DEF IInv
<1> QED BY <1>1, InvariantHolds, PTL

\* A file whose record stands is not processed again from a backlog that is read
\* once, with no scan during a processing call (workflow.go:104-128).
THEOREM OnlyWhatIsNeededAlways == Spec => []OnlyWhatIsNeeded
<1>1. IInv => OnlyWhatIsNeeded BY DEF IInv
<1> QED BY <1>1, InvariantHolds, PTL

\* Whatever went wrong before, one scan and one call make it good (workflow.go:39-128).
THEOREM OneBatchSufficesAlways == Spec => []OneBatchSuffices
<1>1. IInv => OneBatchSuffices BY DEF IInv, Underway, Due, OneBatchSuffices
<1> QED BY <1>1, InvariantHolds, PTL
=============================================================================
