--------------------------- MODULE MCFileLifecycle ---------------------------
(* FileLifecycle for TLC: both stores and the set of all faults. *)
EXTENDS FileLifecycle

BothStores == {"leveldb", "memory"}
AllFaults == {"lookup", "store", "download", "process", "upload", "stat",
              "cancel", "crash", "power", "clear", "close", "writer"}
=============================================================================
