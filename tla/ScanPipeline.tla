---------------------------- MODULE ScanPipeline ----------------------------
(***************************************************************************)
(* OverwriteWorkflow.ScanAndFilter (src/workflow.go): four goroutines in a *)
(* row.  Walk sends what it finds into walkCh; the filter that             *)
(* NeedsProcessing has started passes on, over a channel without buffer,   *)
(* what needs processing; a converter sends the paths into relPathCh;      *)
(* StartWriting, in the caller's goroutine, writes them to the backlog.    *)
(*                                                                         *)
(* The files are the entries of a tree, numbered as in WalkTree.           *)
(***************************************************************************)
EXTENDS WalkTree

CONSTANTS
  Tree,         \* the tree under the root
  OptionSets,   \* the WalkOptions to choose from
  WalkBuffer,   \* capacity of walkCh: twice ScanAndFilterOptions.BatchSize
  PathBuffer,   \* capacity of relPathCh
  Faults        \* which things may go wrong: see FaultAssumption

ASSUME TreeAssumption ==
  Tree \in Seq([name : STRING, depth : Nat, dir : BOOLEAN, link : BOOLEAN])
ASSUME OptionsAssumption ==
  \A o \in OptionSets :
    /\ o.filesOnly \in BOOLEAN /\ o.followSymlinks \in BOOLEAN
    /\ o.maxDepth \in Int
    /\ o.include \subseteq SUBSET STRING /\ o.exclude \subseteq SUBSET STRING
ASSUME BufferAssumption ==
  WalkBuffer \in Nat \ {0} /\ PathBuffer \in Nat \ {0}
\* "unreadable": Walk cannot read an entry or a directory; "walk": it returns an
\* error; "filter": NeedsProcessing does; "lookup": the status of one file cannot
\* be read; "open", "write": errors of StartWriting; "flush": those of its defers,
\* which it only logs; "cancel": the caller cancels.
ASSUME FaultAssumption ==
  Faults \subseteq {"unreadable", "walk", "filter", "lookup", "open", "write",
                    "flush", "cancel"}

VARIABLES
  options,     \* the WalkOptions of the scan
  ctx,         \* "live" or "done"
  main,        \* the caller's goroutine
  walk,        \* the walker's
  next,        \* the entry Walk has come to
  walkCh,
  walkErr,     \* "empty", "error" in the buffer, or "closed" with nothing in it
  filter,      \* the filter's goroutine
  item,        \* the file it is sending
  converter,   \* the converter's goroutine
  path,        \* the path it is sending
  relPathCh,
  backlog,
  wanted,      \* the files whose status asks for processing
  lost         \* those of them left out because of an error that is only logged

walker == <<walk, next, walkCh, walkErr>>
filtering == <<filter, item>>
converting == <<converter, path, relPathCh>>
chosen == <<options, wanted>>
vars == <<ctx, main, walker, filtering, converting, backlog, chosen, lost>>

File == DOMAIN Tree
\* The path of an earlier scan, in the backlog until it is opened again.
Stale == 0

TypeOK ==
  /\ options \in OptionSets
  /\ ctx \in {"live", "done"}
  /\ main \in {"start", "opening", "writing", "check", "ok", "failed"}
  /\ walk \in {"entry", "send", "ending", "closed"}
  /\ next \in 1..(Len(Tree) + 1)
  /\ walkCh \in Seq(File) /\ Len(walkCh) <= WalkBuffer
  /\ walkErr \in {"empty", "error", "closed"}
  /\ filter \in {"off", "recv", "send", "done"}
  /\ converter \in {"off", "recv", "send", "done"}
  /\ item \in File \union {Stale} /\ path \in File \union {Stale}
  /\ relPathCh \in Seq(File) /\ Len(relPathCh) <= PathBuffer
  /\ backlog \in Seq(File \union {Stale})
  /\ wanted \subseteq Selected(Tree, options) /\ lost \subseteq wanted

Init ==
  /\ ctx = "live" /\ main = "start"
  /\ walk = "entry" /\ next = 1 /\ walkCh = <<>> /\ walkErr = "empty"
  /\ filter = "off" /\ item = Stale
  /\ converter = "off" /\ path = Stale /\ relPathCh = <<>>
  /\ backlog = <<Stale>>
  /\ options \in OptionSets
  /\ wanted \in SUBSET Selected(Tree, options) /\ lost = {}

-----------------------------------------------------------------------------
(* Walk *)

\* Walk goes on from the entry it has looked at.
Pass ==
  next' = IF Prunes(Tree[next], options) THEN Behind(Tree, next) ELSE next + 1

\* The callback of WalkDir looks at the context, then at the entry.  An entry that
\* cannot be read is left out; those of a directory that cannot be read, one by
\* one and with all that is in them.
WalkEntry ==
  /\ walk = "entry" /\ ctx = "live"
  /\ next <= Len(Tree)
  /\ \/ Sends(Tree[next], options) /\ walk' = "send" /\ UNCHANGED <<next, lost>>
     \/ ~Sends(Tree[next], options) /\ Pass /\ UNCHANGED <<walk, lost>>
     \/ /\ "unreadable" \in Faults
        /\ next' \in {next + 1, Behind(Tree, next)}
        /\ lost' = lost \union (wanted \intersect next..(next' - 1))
        /\ UNCHANGED walk
  /\ UNCHANGED <<ctx, main, walkCh, walkErr, filtering, converting, backlog, chosen>>

WalkSend ==
  /\ walk = "send"
  /\ Len(walkCh) < WalkBuffer
  /\ walkCh' = Append(walkCh, next)
  /\ Pass
  /\ walk' = "entry"
  /\ UNCHANGED <<ctx, main, walkErr, filtering, converting, backlog, chosen, lost>>

\* mutant: the error of Walk is logged and not sent.
WalkFailsUnsent ==
  /\ \/ walk = "entry" /\ "walk" \in Faults
     \/ walk = "entry" /\ next <= Len(Tree) /\ ctx = "done"
     \/ walk = "send" /\ ctx = "done"
  /\ walk' = "ending"
  /\ UNCHANGED <<ctx, main, next, walkCh, walkErr, filtering, converting, backlog,
                 chosen, lost>>

\* Walk returns an error: it goes into walkErr.
WalkFails ==
  /\ \/ walk = "entry" /\ "walk" \in Faults
     \/ walk = "entry" /\ next <= Len(Tree) /\ ctx = "done"
     \/ walk = "send" /\ ctx = "done"
  /\ walkErr' = "error"
  /\ walk' = "ending"
  /\ UNCHANGED <<ctx, main, next, walkCh, filtering, converting, backlog, chosen, lost>>

\* It returns nil, and the deferred close of walkErr comes first.
WalkEnds ==
  /\ walk = "entry" /\ next > Len(Tree)
  /\ walkErr' = "closed"
  /\ walk' = "ending"
  /\ UNCHANGED <<ctx, main, next, walkCh, filtering, converting, backlog, chosen, lost>>

CloseWalk ==
  /\ walk = "ending"
  /\ walk' = "closed"
  /\ UNCHANGED <<ctx, main, next, walkCh, walkErr, filtering, converting, backlog,
                 chosen, lost>>

-----------------------------------------------------------------------------
(* NeedsProcessing *)

\* A file is passed on, or dropped with a log line when its status cannot be read.
FilterRecv ==
  /\ filter = "recv" /\ walkCh # <<>>
  /\ walkCh' = Tail(walkCh)
  /\ LET file == Head(walkCh) IN
       \/ file \in wanted /\ filter' = "send" /\ item' = file /\ UNCHANGED lost
       \/ file \notin wanted /\ UNCHANGED <<filtering, lost>>
       \/ file \in wanted /\ "lookup" \in Faults
          /\ lost' = lost \union {file} /\ UNCHANGED filtering
  /\ UNCHANGED <<ctx, main, walk, next, walkErr, converting, backlog, chosen>>

\* mutant: the filter does not go on to the next file.
HandOverAgain ==
  /\ filter = "send" /\ converter = "recv"
  /\ converter' = "send"
  /\ path' = item
  /\ UNCHANGED <<ctx, main, walker, filtering, relPathCh, backlog, chosen, lost>>

\* The channel without buffer: both sides are there.
HandOver ==
  /\ filter = "send" /\ converter = "recv"
  /\ filter' = "recv" /\ converter' = "send"
  /\ path' = item
  /\ UNCHANGED <<ctx, main, walker, item, relPathCh, backlog, chosen, lost>>

\* mutant: it takes an empty channel for a closed one.
FilterEndsWhenEmpty ==
  /\ \/ filter = "recv" /\ walkCh = <<>>
     \/ filter \in {"recv", "send"} /\ ctx = "done"
  /\ filter' = "done"
  /\ UNCHANGED <<ctx, main, walker, item, converting, backlog, chosen, lost>>

\* mutant: the wait for the converter does not look at the context.
FilterEndsIdle ==
  /\ \/ filter = "recv" /\ walkCh = <<>> /\ walk = "closed"
     \/ filter = "recv" /\ ctx = "done"
  /\ filter' = "done"
  /\ UNCHANGED <<ctx, main, walker, item, converting, backlog, chosen, lost>>

FilterEnds ==
  /\ \/ filter = "recv" /\ walkCh = <<>> /\ walk = "closed"
     \/ filter \in {"recv", "send"} /\ ctx = "done"
  /\ filter' = "done"
  /\ UNCHANGED <<ctx, main, walker, item, converting, backlog, chosen, lost>>

-----------------------------------------------------------------------------
(* The converter *)

\* mutant: a select with a default in place of the wait for room.
ConvertDrop ==
  /\ converter = "send"
  /\ relPathCh' = IF Len(relPathCh) < PathBuffer
                  THEN Append(relPathCh, path) ELSE relPathCh
  /\ converter' = "recv"
  /\ UNCHANGED <<ctx, main, walker, filtering, path, backlog, chosen, lost>>

ConvertSend ==
  /\ converter = "send"
  /\ Len(relPathCh) < PathBuffer
  /\ relPathCh' = Append(relPathCh, path)
  /\ converter' = "recv"
  /\ UNCHANGED <<ctx, main, walker, filtering, path, backlog, chosen, lost>>

\* mutant: relPathCh is closed on cancellation only.
ConvertEndsCancelled ==
  /\ converter = "send" /\ ctx = "done"
  /\ converter' = "done"
  /\ UNCHANGED <<ctx, main, walker, filtering, path, relPathCh, backlog, chosen, lost>>

ConvertEnds ==
  /\ \/ converter = "recv" /\ filter = "done"
     \/ converter = "send" /\ ctx = "done"
  /\ converter' = "done"
  /\ UNCHANGED <<ctx, main, walker, filtering, path, relPathCh, backlog, chosen, lost>>

-----------------------------------------------------------------------------
(* ScanAndFilter itself and StartWriting *)

\* NeedsProcessing returns its channel and the converter is started.
StartFilter ==
  /\ main = "start"
  /\ main' = "opening" /\ filter' = "recv" /\ converter' = "recv"
  /\ UNCHANGED <<ctx, walker, item, path, relPathCh, backlog, chosen, lost>>

\* mutant: the old entries stay in the memory backlog.
OpenAppending ==
  /\ main = "opening"
  /\ main' = "writing"
  /\ UNCHANGED <<ctx, walker, filtering, converting, backlog, chosen, lost>>

\* The old entries are cleared, or the old file truncated.
OpenBacklog ==
  /\ main = "opening"
  /\ backlog' = <<>>
  /\ main' = "writing"
  /\ UNCHANGED <<ctx, walker, filtering, converting, chosen, lost>>

WriteEntry ==
  /\ main = "writing" /\ relPathCh # <<>>
  /\ backlog' = Append(backlog, Head(relPathCh))
  /\ relPathCh' = Tail(relPathCh)
  /\ UNCHANGED <<ctx, main, walker, filtering, converter, path, chosen, lost>>

\* The deferred Flush and Close of the gzip backlog; their errors are only logged,
\* and entries still buffered are not in the file.
CloseBacklog ==
  \/ UNCHANGED <<backlog, lost>>
  \/ /\ "flush" \in Faults
     /\ \E kept \in 0..Len(backlog) :
          /\ backlog' = SubSeq(backlog, 1, kept)
          /\ lost' = lost \union {backlog[i] : i \in (kept + 1)..Len(backlog)}

\* mutant: a path that cannot be written is logged, and the writing goes on.
WriteFailureLogged ==
  /\ main = "writing" /\ relPathCh # <<>>
  /\ "write" \in Faults
  /\ relPathCh' = Tail(relPathCh)
  /\ UNCHANGED <<ctx, main, walker, filtering, converter, path, backlog, chosen, lost>>

WriteFails ==
  /\ main = "writing" /\ relPathCh # <<>>
  /\ "write" \in Faults
  /\ relPathCh' = Tail(relPathCh)
  /\ CloseBacklog
  /\ main' = "failed"
  /\ UNCHANGED <<ctx, walker, filtering, converter, path, chosen>>

\* mutant: a writer that does not wait for the end of the paths.
WriteEndsIdle ==
  /\ main = "writing" /\ relPathCh = <<>> /\ walk = "closed"
  /\ CloseBacklog
  /\ main' = "check"
  /\ UNCHANGED <<ctx, walker, filtering, converting, chosen>>

WriteEnds ==
  /\ main = "writing" /\ relPathCh = <<>> /\ converter = "done"
  /\ CloseBacklog
  /\ main' = "check"
  /\ UNCHANGED <<ctx, walker, filtering, converting, chosen>>

\* StartWriting finds the context done.
WriteCancelled ==
  /\ main = "writing" /\ ctx = "done"
  /\ CloseBacklog
  /\ main' = "failed"
  /\ UNCHANGED <<ctx, walker, filtering, converting, chosen>>

\* ScanAndFilter returns an error of NeedsProcessing or of opening the backlog.
ScanFails ==
  /\ \/ main = "start" /\ "filter" \in Faults
     \/ main = "opening" /\ "open" \in Faults
  /\ main' = "failed"
  /\ UNCHANGED <<ctx, walker, filtering, converting, backlog, chosen, lost>>

\* The last select takes an error that is already in walkErr and does not wait
\* for one.
CheckWalk ==
  /\ main = "check"
  /\ main' = IF walkErr = "error" THEN "failed" ELSE "ok"
  /\ UNCHANGED <<ctx, walker, filtering, converting, backlog, chosen, lost>>

Cancel ==
  /\ "cancel" \in Faults /\ ctx = "live"
  /\ ctx' = "done"
  /\ UNCHANGED <<main, walker, filtering, converting, backlog, chosen, lost>>

-----------------------------------------------------------------------------
Walker == WalkEntry \/ WalkSend \/ WalkFails \/ WalkEnds \/ CloseWalk
Filter == FilterRecv \/ FilterEnds
Converter == ConvertSend \/ ConvertEnds
Main == \/ StartFilter \/ OpenBacklog \/ WriteEntry \/ WriteFails \/ WriteEnds
        \/ WriteCancelled \/ ScanFails \/ CheckWalk

Next == Walker \/ Filter \/ HandOver \/ Converter \/ Main \/ Cancel

Spec == Init /\ [][Next]_vars

\* The scheduler runs every goroutine that can take a step.
FairSpec ==
  /\ Spec
  /\ WF_vars(Walker) /\ WF_vars(Filter) /\ WF_vars(HandOver)
  /\ WF_vars(Converter) /\ WF_vars(Main)

-----------------------------------------------------------------------------
Entries(seq) == {seq[i] : i \in DOMAIN seq}
InOrder(seq) == \A i, j \in DOMAIN seq : i < j => seq[i] < seq[j]

\* No file that is to be in the backlog is missing before one of these.
NoGap(files) == \A f \in wanted \ lost : f \in files \/ \A g \in files : g < f

\* A scan that is not cancelled and returns nil has written every file that
\* needs processing, in the order of the walk, but those an error it only logs
\* has left out; no directory Walk skips holds one that is asked for, and Walk has
\* come to its end (workflow.go:83-100, local.go:103-159).
BacklogComplete ==
  main = "ok" /\ ctx = "live" =>
    /\ Entries(backlog) = wanted \ lost /\ InOrder(backlog)
    /\ next = Len(Tree) + 1 /\ walkErr = "closed"

\* Cancelled or failed, a backlog that has been opened holds the first of the
\* files that need processing: no gap, no double, none of an earlier scan
\* (the two buffers and the exits of workflow.go:47-86).
BacklogIsPrefix ==
  main \notin {"start", "opening"} /\ backlog # <<Stale>> =>
    /\ Entries(backlog) \subseteq wanted \ lost
    /\ InOrder(backlog) /\ NoGap(Entries(backlog))

\* When a scan has succeeded the caller may close the status memory
\* (README.md:45): no look up is to come (workflow.go:68-86, leveldb.go:76-95).
SafeToClose == main = "ok" /\ ctx = "live" => filter = "done" /\ converter = "done"

AllEnded ==
  /\ walk = "closed"
  /\ filter \in {"off", "done"} /\ converter \in {"off", "done"}

\* ScanAndFilter returns, whatever fails (workflow.go:39-101).
ScanReturns == <>(main \in {"ok", "failed"})

\* No goroutine is left behind by a scan that succeeds, nor once the context is
\* cancelled (the selects on ctx.Done in workflow.go:75-80, local.go:165-169 and
\* status/memory.go:60-96).
GoroutinesEnd == (main = "ok" \/ ctx = "done") ~> AllEnded

\* How far the caller sees the call.
Phase ==
  CASE main \in {"start", "opening"} -> "called"
    [] main = "check" -> "closed"
    [] OTHER -> main

Contract == INSTANCE ScanContract WITH phase <- Phase, cancelled <- ctx = "done"

\* ScanAndFilter keeps ScanContract: whatever its goroutines do, the backlog changes as if
\* one loop wrote the next file that needs processing, and not at all once it is closed.
KeepsContract == Contract!Spec

\* "Check for any walk errors that occurred during processing"
\* (workflow.go:88): a scan that returns nil has missed none.
NoErrorMissed == main = "ok" => walkErr # "error"

-----------------------------------------------------------------------------
(* The inductive invariant *)

\* The five places a file can be in, from the backlog back to the walker.
Stored == Entries(backlog)
Sent == Entries(relPathCh)
Carried == IF converter = "send" THEN {path} ELSE {}
Passed == IF filter = "send" THEN {item} ELSE {}
Met == Entries(walkCh)

Before(files, others) == \A f \in files, g \in others : f < g

\* The files go through these places in order, and what has gone through the
\* filter is to be in the backlog.
Flow ==
  /\ InOrder(backlog) /\ InOrder(relPathCh) /\ InOrder(walkCh)
  /\ Before(Stored, Sent \union Carried \union Passed \union Met \union {next})
  /\ Before(Sent, Carried \union Passed \union Met \union {next})
  /\ Before(Carried, Passed \union Met \union {next})
  /\ Before(Passed, Met \union {next})
  /\ Before(Met, {next})
  /\ Sent \union Carried \union Passed \subseteq wanted \ lost
  /\ Met \intersect lost = {} /\ Before(lost, {next})
  /\ Stored \subseteq (wanted \ lost) \union {Stale}
  /\ Stale \in Stored => backlog = <<Stale>> /\ main \in {"start", "opening", "failed"}
  /\ main \in {"start", "opening"} => Stored = {Stale}

\* One goroutine ends after the other unless the context is done, the walker with
\* its error in walkErr.
EndInOrder ==
  /\ main = "start" => filter = "off"
  /\ main \in {"opening", "writing", "check", "ok"} => filter # "off"
  /\ filter = "off" <=> converter = "off"
  /\ walk = "send" => next \in File /\ Sends(Tree[next], options)
  /\ walk \in {"ending", "closed"} =>
       \/ walkErr = "error"
       \/ walkErr = "closed" /\ next = Len(Tree) + 1
  /\ filter = "done" /\ ctx = "live" => walk = "closed" /\ walkCh = <<>>
  /\ converter = "done" /\ ctx = "live" => filter = "done"
  /\ main \in {"check", "ok"} => converter = "done"
  /\ main = "ok" /\ ctx = "live" => walkErr = "closed"

\* What the walk has behind it is in one of the places.
AllMet ==
  \A f \in wanted \ lost :
    f < next => f \in Stored \union Sent \union Carried \union Passed \union Met

\* Nothing is missing before a file that can still get into the backlog, and all
\* that was met is somewhere as long as no goroutine has been cancelled.
Complete ==
  /\ NoGap(Stored)
  /\ main \in {"start", "opening", "writing"} =>
       /\ NoGap(Stored \union Sent)
       /\ converter = "send" => NoGap(Stored \union Sent \union Carried)
       /\ ctx = "live" \/ (converter # "done" /\ filter # "done") => AllMet
  /\ main \in {"check", "ok"} /\ ctx = "live" /\ walkErr = "closed" => wanted \ lost \subseteq Stored

\* Where every file is, from the walk to the backlog (workflow.go:39-101).
IInv == TypeOK /\ Flow /\ EndInOrder /\ Complete
=============================================================================
