------------------------------- MODULE Backlog -------------------------------
(***************************************************************************)
(* The two backlog managers (src/backlog): the paths of a scan, kept in    *)
(* memory or in a gzip file with a line for each path.  The reader of the  *)
(* file splits it into lines, trims the blanks off each and leaves out     *)
(* empty ones: a name with blanks around it or a newline in it comes back  *)
(* as other names.  A file that was not closed properly is cut, and        *)
(* bufio.Scanner gives the rest of a cut line as a line.                   *)
(*                                                                         *)
(* What the writer has buffered is not in the file; how much that is shows *)
(* only when the file is cut, and is chosen then.                          *)
(***************************************************************************)
EXTENDS Integers, Sequences

CONSTANTS
  Managers,   \* the implementations of BacklogManager to choose from
  Path,       \* the paths Walk can give
  ReadsAs,    \* the names in the lines that a path is written as
  Stub        \* the name in the rest of a line that was cut

ASSUME ManagerAssumption == Managers \subseteq {"memory", "gzip"}
ASSUME ReadsAsAssumption == ReadsAs \in [Path -> Seq(STRING)]
ASSUME PathAssumption == Path \subseteq STRING /\ Stub \in STRING

VARIABLES
  manager,
  stored,     \* the paths written, those cut off left out
  end         \* of the gzip file: "absent"; "open" for writing; "whole"; "bare", not
              \* even a header; "cut" after a line; "torn" in a line

backlog == <<manager, stored, end>>

BacklogTypeOK ==
  /\ manager \in Managers
  /\ stored \in Seq(Path)
  /\ end \in {"absent", "open", "whole", "bare", "cut", "torn"}
  /\ manager = "memory" => end = "whole"

BacklogInit ==
  /\ manager \in Managers
  /\ stored = <<>>
  /\ end = IF manager = "memory" THEN "whole" ELSE "absent"

-----------------------------------------------------------------------------
(* StartWriting *)

\* mutant: the memory backlog goes on with the entries it has.
CreateKeeping ==
  /\ stored' = IF manager = "memory" THEN stored ELSE <<>>
  /\ end' = IF manager = "memory" THEN "whole" ELSE "open"
  /\ UNCHANGED manager

Create ==
  /\ stored' = <<>>
  /\ end' = IF manager = "memory" THEN "whole" ELSE "open"
  /\ UNCHANGED manager

Put(path) ==
  /\ stored' = Append(stored, path)
  /\ UNCHANGED <<manager, end>>

\* The deferred Flush and Close, at the end of the paths or when cancelled.
CloseWhole ==
  /\ end' = "whole"
  /\ UNCHANGED <<manager, stored>>

\* Some of what was to be written is in the file and its end is missing.
CloseCut(paths) ==
  \E kept \in 0..Len(paths) :
    /\ stored' = SubSeq(paths, 1, kept)
    /\ \/ end' = "cut"
       \/ end' = "torn" /\ kept < Len(paths)
       \/ end' = "bare" /\ kept = 0
    /\ UNCHANGED manager

-----------------------------------------------------------------------------
(* CountRelPaths and StartReading *)

Names(path) == IF manager = "memory" THEN <<path>> ELSE ReadsAs[path]

\* mutant: the error of the scanner is not looked at.
CountSucceedsCut == end \in {"whole", "cut", "torn"}

\* Counting reads all of the file and fails when it comes to a cut.
CountSucceeds == end = "whole"

\* The lines a reader gives; that of a cut line has part 0.
Torn(entry) == [entry |-> entry, part |-> 0, name |-> Stub]
LinesOf(entry) ==
  {[entry |-> entry, part |-> k, name |-> Names(stored[entry])[k]] :
     k \in DOMAIN Names(stored[entry])}
LinesUpTo(count) == UNION {LinesOf(entry) : entry \in 1..count}
Lines ==
  LinesUpTo(Len(stored)) \union (IF end = "torn" THEN {Torn(Len(stored) + 1)} ELSE {})

-----------------------------------------------------------------------------
Clear ==
  /\ manager = "memory"
  /\ stored' = <<>>
  /\ UNCHANGED <<manager, end>>

\* What is left of the backlog when the process ends.
BacklogCrash ==
  \/ Clear
  \/ manager = "gzip" /\ end = "open" /\ CloseCut(stored)
  \/ manager = "gzip" /\ end # "open" /\ UNCHANGED backlog

-----------------------------------------------------------------------------
\* The paths that come back as themselves and as which no other path does.
Plain ==
  IF manager = "memory" THEN Path
  ELSE {p \in Path :
          /\ ReadsAs[p] = <<p>>
          /\ \A q \in Path \ {p} : \A k \in DOMAIN ReadsAs[q] : ReadsAs[q][k] # p}
=============================================================================
