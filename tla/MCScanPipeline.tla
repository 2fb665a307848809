--------------------------- MODULE MCScanPipeline ---------------------------
(* ScanPipeline for TLC: a small tree, three sets of options, all faults. *)
EXTENDS ScanPipelineEnds

\*  d/  d/img  d/sub/  d/sub/deep/  d/sub/deep/img  z -> d
SmallTree == <<
  [name |-> "d",    depth |-> 0, dir |-> TRUE,  link |-> FALSE],
  [name |-> "img",  depth |-> 1, dir |-> FALSE, link |-> FALSE],
  [name |-> "sub",  depth |-> 1, dir |-> TRUE,  link |-> FALSE],
  [name |-> "deep", depth |-> 2, dir |-> TRUE,  link |-> FALSE],
  [name |-> "img",  depth |-> 3, dir |-> FALSE, link |-> FALSE],
  [name |-> "z",    depth |-> 0, dir |-> FALSE, link |-> TRUE]>>

\* Images and links wherever they are, with a pattern that does not parse; all but
\* images and links that is at most one directory down; the same at any depth.
SomeOptions == {
  [include |-> {{"img", "z"}, {}}, exclude |-> {}, filesOnly |-> TRUE,
   maxDepth |-> 0, followSymlinks |-> TRUE],
  [include |-> {}, exclude |-> {{"txt"}, {"img"}}, filesOnly |-> FALSE,
   maxDepth |-> 1, followSymlinks |-> FALSE],
  [include |-> {}, exclude |-> {{"txt"}, {"img"}}, filesOnly |-> FALSE,
   maxDepth |-> -1, followSymlinks |-> FALSE]}

AllFaults == {"unreadable", "walk", "filter", "lookup", "open", "write", "flush", "cancel"}
=============================================================================
