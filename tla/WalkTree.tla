------------------------------ MODULE WalkTree ------------------------------
(***************************************************************************)
(* What LocalFileSystem.Walk (src/filesystem/local.go) makes of a tree.    *)
(* Entries are numbered in the order in which filepath.WalkDir meets them, *)
(* the entries of a directory right behind it; the root itself, which is   *)
(* never sent, is left out.  An entry has a base name, the depth Walk      *)
(* counts for it (the separators of its relative path), and may be a       *)
(* directory or a symbolic link.  A link to a directory is a link: WalkDir *)
(* does not follow it.                                                     *)
(*                                                                         *)
(* A pattern stands for the base names it matches; one that does not parse *)
(* matches none.                                                           *)
(***************************************************************************)
EXTENDS Integers, Sequences

\* The numbers after i up to the next entry that is not in the directory i.
Below(tree, i) ==
  {j \in DOMAIN tree : j > i /\ \A k \in (i + 1)..j : tree[k].depth > tree[i].depth}

\* The first entry after i and all that is in it.
Behind(tree, i) ==
  CHOOSE j \in (i + 1)..(Len(tree) + 1) : {k \in DOMAIN tree : i < k /\ k < j} = Below(tree, i)

ShouldInclude(entry, options) ==
  /\ options.include = {} \/ \E pattern \in options.include : entry.name \in pattern
  /\ \A pattern \in options.exclude : entry.name \notin pattern

TooDeep(entry, options) == options.maxDepth > 0 /\ entry.depth > options.maxDepth

\* The tests of the callback before it sends.
Sends(entry, options) ==
  /\ ~(options.filesOnly /\ entry.dir)
  /\ ~TooDeep(entry, options)
  /\ options.followSymlinks \/ ~entry.link
  /\ ShouldInclude(entry, options)

\* The callback answers SkipDir.  With FilesOnly it has returned before.
Prunes(entry, options) ==
  ~options.filesOnly /\ entry.dir /\ TooDeep(entry, options)

\* What a caller may expect, entry by entry and without a walk: the entries at
\* most MaxDepth directories down that are of a kind asked for and whose name is
\* included and not excluded (uobf.go:32-48).
Selected(tree, options) ==
  {i \in DOMAIN tree :
     /\ options.filesOnly => ~tree[i].dir
     /\ tree[i].link => options.followSymlinks
     /\ options.maxDepth <= 0 \/ tree[i].depth <= options.maxDepth
     /\ ShouldInclude(tree[i], options)}
=============================================================================
