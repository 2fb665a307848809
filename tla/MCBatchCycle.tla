---------------------------- MODULE MCBatchCycle ----------------------------
(* BatchCycle for TLC: four files, one that cannot be processed and one whose name *)
(* ends in a blank; the line of "bad" can be cut to the name "b".                   *)
EXTENDS BatchCycle

AllPaths == {"a", "a ", "b", "bad"}
InOrder == <<"a", "a ", "b", "bad">>
AsLines == [p \in AllPaths |-> IF p = "a " THEN <<"a">> ELSE <<p>>]

BothManagers == {"memory", "gzip"}
AllFaults == {"lookup", "report", "walk", "write", "flush", "read", "process",
              "cancel", "crash", "writer", "clear", "overlap"}
=============================================================================
