----------------------------- MODULE BatchCycle -----------------------------
(***************************************************************************)
(* Scans and processing calls of one workflow over one backlog, again and  *)
(* again: what ScanAndFilter writes is what ProcessFiles counts and reads, *)
(* at a later time, maybe in another process.  Of a file only whether the  *)
(* status memory asks for it is kept (FileLifecycle has the rest); a       *)
(* processing call keeps its errors and the lines it has still to process  *)
(* (WorkerPool has its goroutines).  The caller calls in any order and may *)
(* go on after an error.                                                   *)
(***************************************************************************)
EXTENDS Backlog

CONSTANTS
  Walked,        \* the paths in the order of the walk
  Broken,        \* those whose processing always fails
  Concurrency,   \* the workers, and the room in errChan
  Faults,        \* which things may go wrong: see FaultAssumption
  MaxFaults      \* bound: how many of them happen in all

ASSUME WalkedAssumption ==
  /\ Walked \in Seq(Path)
  /\ \A i, j \in DOMAIN Walked : i # j => Walked[i] # Walked[j]
ASSUME ConcurrencyAssumption == Concurrency \in Nat \ {0}
\* "lookup": a file is left out, by an error of the status memory or in a directory that
\* cannot be read; "report": another error of the status memory; "walk": the scan ends early, by
\* an error of Walk or a cancellation; "write", "flush", "read": errors of the
\* backlog; "process": of one file; "cancel" a processing call; "crash"; "writer":
\* another program rewrites a file; "clear": the owner clears the backlog;
\* "overlap": a scan and a processing call at the same time.
ASSUME FaultAssumption ==
  Faults \subseteq {"lookup", "report", "walk", "write", "flush", "read", "process",
                    "cancel", "crash", "writer", "clear", "overlap"}
ASSUME BoundAssumption == MaxFaults \in Nat

VARIABLES
  needs,        \* the paths for which NeedsProcessing would say yes now
  scan,         \* "idle" or "writing"
  next,         \* the path the scan has come to
  since,        \* faultsLeft when it began, to tell what has gone wrong from then on
  proc,         \* ProcessFiles: "idle", "counted" or "reading"
  todo,         \* the lines not processed yet
  errors,       \* how many have failed
  broke,        \* has the reader met an error?
  spent,        \* has the backlog been read, or a file processed, since it was begun?
  again,        \* was it so when the processing call began to read?
  faultsLeft

scanning == <<scan, next, since>>
processing == <<proc, todo, errors, broke, again>>
vars == <<backlog, needs, scanning, processing, spent, faultsLeft>>

Line == [entry : Nat, part : Nat, name : STRING]

TypeOK ==
  /\ BacklogTypeOK
  /\ needs \subseteq Path
  /\ scan \in {"idle", "writing"}
  /\ next \in 1..(Len(Walked) + 1)
  /\ since \in Nat
  /\ proc \in {"idle", "counted", "reading"}
  /\ todo \subseteq Line
  /\ errors \in 0..(2 * Concurrency)
  /\ broke \in BOOLEAN /\ spent \in BOOLEAN /\ again \in BOOLEAN
  /\ faultsLeft \in Nat

Init ==
  /\ BacklogInit
  /\ needs = Path
  /\ scan = "idle" /\ next = 1 /\ since = MaxFaults + 1
  /\ proc = "idle" /\ todo = {} /\ errors = 0
  /\ broke = FALSE /\ spent = FALSE /\ again = FALSE
  /\ faultsLeft = MaxFaults

Fault(kind) ==
  /\ kind \in Faults
  /\ faultsLeft > 0
  /\ faultsLeft' = faultsLeft - 1

\* The two phases are meant to come one after the other.  The backlog in memory
\* stands it when they do not.
Apart(other) ==
  \/ other = "idle" /\ UNCHANGED faultsLeft
  \/ other # "idle" /\ manager = "memory" /\ Fault("overlap")

-----------------------------------------------------------------------------
(* ScanAndFilter *)

\* mutant: the first path is taken for the root of the walk.
StartScanPastFirst ==
  /\ scan = "idle" /\ Apart(proc)
  /\ Create
  /\ scan' = "writing" /\ next' = 2 /\ since' = faultsLeft
  /\ spent' = (proc # "idle")
  /\ UNCHANGED <<needs, processing>>

\* A scan that fails before it opens the backlog changes nothing.
StartScan ==
  /\ scan = "idle" /\ Apart(proc)
  /\ Create
  /\ scan' = "writing" /\ next' = 1 /\ since' = faultsLeft
  /\ spent' = (proc # "idle")
  /\ UNCHANGED <<needs, processing>>

\* mutant: the answer of the status memory is not looked at.
ScanAnyFile ==
  /\ scan = "writing" /\ next <= Len(Walked)
  /\ Put(Walked[next]) /\ UNCHANGED faultsLeft
  /\ next' = next + 1
  /\ UNCHANGED <<needs, scan, since, processing, spent>>

ScanFile ==
  /\ scan = "writing" /\ next <= Len(Walked)
  /\ \/ Walked[next] \in needs /\ Put(Walked[next]) /\ UNCHANGED faultsLeft
     \/ Walked[next] \notin needs /\ UNCHANGED <<backlog, faultsLeft>>
     \/ Fault("lookup") /\ UNCHANGED backlog
  /\ next' = next + 1
  /\ UNCHANGED <<needs, scan, since, processing, spent>>

ScanEnds ==
  /\ scan = "writing"
  /\ \/ next > Len(Walked) /\ CloseWhole /\ UNCHANGED faultsLeft
     \/ Fault("walk") /\ CloseWhole
     \/ manager = "gzip" /\ next > Len(Walked) /\ Fault("flush") /\ CloseCut(stored)
     \/ /\ manager = "gzip" /\ next <= Len(Walked) /\ Walked[next] \in needs
        /\ Fault("write") /\ CloseCut(Append(stored, Walked[next]))
  /\ scan' = "idle"
  /\ UNCHANGED <<needs, next, since, processing, spent>>

-----------------------------------------------------------------------------
(* ProcessFiles *)

\* It gives up at once when the backlog has been cut.
Count ==
  /\ proc = "idle" /\ Apart(scan)
  /\ CountSucceeds
  /\ proc' = "counted"
  /\ UNCHANGED <<backlog, needs, scanning, todo, errors, broke, spent, again>>

\* A call that is cancelled already, or cannot read or open the file, does nothing.
GiveUp ==
  /\ \/ proc = "idle" /\ Fault("cancel")
     \/ proc \in {"idle", "counted"} /\ manager = "gzip" /\ Fault("read")
  /\ proc' = "idle"
  /\ UNCHANGED <<backlog, needs, scanning, todo, errors, broke, spent, again>>

\* An error in the middle looks to the workers like the end.
StartReading ==
  /\ proc = "counted"
  /\ \/ todo' = Lines /\ broke' = FALSE /\ UNCHANGED faultsLeft
     \/ /\ manager = "gzip" /\ Fault("read")
        /\ broke' = TRUE
        /\ \E count \in 0..Len(stored) :
             \/ todo' = LinesUpTo(count)
             \/ count < Len(stored) /\ todo' = LinesUpTo(count) \union {Torn(count + 1)}
  /\ proc' = "reading" /\ errors' = 0
  /\ again' = spent /\ spent' = TRUE
  /\ UNCHANGED <<backlog, needs, scanning>>

\* One of the workers is not stuck on a full errChan.
WorkerLeft == errors < 2 * Concurrency

\* mutant: the success is not reported.
ProcessUnreported ==
  \E line \in todo :
    /\ proc = "reading" /\ WorkerLeft
    /\ line.name \in Path \ Broken
    /\ todo' = todo \ {line}
    /\ needs' = needs \union {line.name} /\ UNCHANGED faultsLeft
    /\ UNCHANGED <<backlog, scanning, proc, errors, broke, spent, again>>

\* A file is processed and recorded, or else has a new version unrecorded.
Process ==
  \E line \in todo :
    /\ proc = "reading" /\ WorkerLeft
    /\ line.name \in Path \ Broken
    /\ todo' = todo \ {line}
    /\ \/ needs' = needs \ {line.name} /\ UNCHANGED faultsLeft
       \/ Fault("report") /\ needs' = needs \union {line.name}
    /\ UNCHANGED <<backlog, scanning, proc, errors, broke, spent, again>>

\* There is no such file, or its processing fails.
ProcessFails ==
  \E line \in todo :
    /\ proc = "reading" /\ WorkerLeft
    /\ \/ line.name \notin Path \ Broken /\ UNCHANGED faultsLeft
       \/ Fault("process")
    /\ todo' = todo \ {line}
    /\ errors' = errors + 1
    /\ needs' \in {needs, needs \union (Path \intersect {line.name})}
    /\ UNCHANGED <<backlog, scanning, proc, broke, spent, again>>

\* ProcessFiles waits for all workers; with more errors than errChan takes it does
\* so for ever.
ProcessingEnds ==
  /\ proc = "reading" /\ errors <= Concurrency
  /\ \/ todo = {} /\ UNCHANGED faultsLeft
     \/ Fault("cancel") \/ (manager = "gzip" /\ Fault("read"))
  /\ proc' = "idle" /\ todo' = {}
  /\ UNCHANGED <<backlog, needs, scanning, errors, broke, spent, again>>

-----------------------------------------------------------------------------
(* The world around them *)

\* The process ends, and with it a status memory in memory, an upload, or a scan.
Crash ==
  /\ Fault("crash")
  /\ BacklogCrash
  /\ scan' = "idle" /\ proc' = "idle" /\ todo' = {}
  /\ \/ needs' \in {needs, Path}
     \/ \E line \in todo : line.name \in Path /\ needs' = needs \union {line.name}
  /\ UNCHANGED <<next, since, errors, broke, spent, again>>

ForeignWrite ==
  /\ Fault("writer")
  /\ \E path \in Path : needs' = needs \union {path}
  /\ UNCHANGED <<backlog, scanning, processing, spent>>

ClearBacklog ==
  /\ Fault("clear")
  /\ Clear
  /\ UNCHANGED <<needs, scanning, processing, spent>>

-----------------------------------------------------------------------------
Scan == ScanFile \/ ScanEnds
Processing == StartReading \/ Process \/ ProcessFails \/ ProcessingEnds
World == Crash \/ ForeignWrite \/ ClearBacklog

Next == StartScan \/ Scan \/ Count \/ GiveUp \/ Processing \/ World

Spec == Init /\ [][Next]_vars

\* A call under way goes on; the caller goes on calling both phases.
FairSpec ==
  /\ Spec
  /\ WF_vars(Scan) /\ WF_vars(Processing)
  /\ SF_vars(StartScan) /\ SF_vars(Count)

-----------------------------------------------------------------------------
\* A backlog cut by a crash or by an error that is only logged (gzip.go:106-115) is
\* refused as a whole: no cut path is handed to a worker, be it the name of
\* another file, unless the disk fails between the count and the reading.  The
\* reader would hand it out (gzip.go:196-222); the count before it (gzip.go:288,
\* workflow.go:110) is what prevents it.
CutNeverProcessed == ~broke => \A line \in todo : line.part # 0

\* No two workers are given the same file, over scans that fail, processes that end
\* and calls that overlap: a scan starts from an empty backlog (memory.go:78-80,
\* gzip.go:90) and a reader keeps to the entries it started with (memory.go:114-118).
\* The gzip backlog does it for the names its lines keep.
OneWorkerPerFile ==
  ~broke => \A one, other \in todo :
    one.name = other.name /\ one.name \in Plain => one = other

\* A file is not processed again while its record stands, unless the caller reads
\* a backlog twice or has scanned while processing (workflow.go:104-128 takes any
\* backlog there is).
OnlyWhatIsNeeded ==
  ~broke /\ ~again => \A line \in todo : line.name \in Plain => line.name \in needs

\* A scan and a call that read its backlog to the end, with nothing going wrong since the
\* scan began, leave no file to be processed that can be and that the lines of the backlog
\* can name.  Whatever went wrong before them - a scan that ended early, a file cut, a
\* report lost, a process killed - takes no more than that to be made good
\* (workflow.go:39-128).
OneBatchSuffices ==
  since = faultsLeft /\ scan = "idle" /\ proc = "idle" /\ spent =>
    \A i \in DOMAIN Walked : Walked[i] \in Plain \ Broken => Walked[i] \notin needs

\* ProcessFiles waits for a worker that waits for room in errChan.
Hung == proc = "reading" /\ errors > Concurrency

\* When things stop going wrong every file that can be processed is, and stays so,
\* whatever was lost on the way: a backlog cut or refused, a file left out or not
\* recorded.  The next scan finds it again (workflow.go:39-128).
Converges ==
  \A path \in Path \ Broken :
    <>[](path \in Plain => path \notin needs) \/ <>[]Hung

-----------------------------------------------------------------------------
(* The inductive invariant *)

\* The gzip file a call reads is not being written.
Separate == manager = "gzip" /\ proc # "idle" => scan = "idle" /\ end = "whole"

\* No path is stored twice, nor stored already when the scan comes to it.
Unrepeated ==
  /\ \A i, j \in DOMAIN stored : i # j => stored[i] # stored[j]
  /\ scan = "writing" =>
       \A i \in DOMAIN stored : \A j \in next..Len(Walked) : stored[i] # Walked[j]

\* A backlog that is not spent holds what is needed.
Unspent ==
  /\ proc = "reading" => spent
  /\ ~spent => \A i \in DOMAIN stored : stored[i] \in needs

\* With nothing gone wrong since a scan began, what is still needed of what it has come to
\* is in the backlog, or in the workers' lines, until there is none.
Due(path) == path \in Plain \ Broken /\ path \in needs

Underway ==
  /\ faultsLeft <= since
  /\ since = faultsLeft =>
       /\ scan = "writing" => proc = "idle" /\ ~spent
       /\ scan = "idle" => next = Len(Walked) + 1
       /\ ~spent => \A j \in 1..(next - 1) : Due(Walked[j]) =>
                      \E i \in DOMAIN stored : stored[i] = Walked[j]
       /\ proc = "reading" => \A j \in DOMAIN Walked : Due(Walked[j]) =>
                                \E line \in todo : line.name = Walked[j]
       /\ spent /\ proc # "reading" => \A j \in DOMAIN Walked : ~Due(Walked[j])

\* What the backlog holds and what the workers have are two states of one listing
\* (workflow.go:39-128, backlog/memory.go:74-151, backlog/gzip.go:79-295).
IInv ==
  /\ TypeOK /\ Separate /\ Unrepeated /\ Unspent /\ Underway
  /\ CutNeverProcessed /\ OneWorkerPerFile /\ OnlyWhatIsNeeded
=============================================================================
