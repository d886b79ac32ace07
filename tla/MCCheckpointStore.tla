------------------------- MODULE MCCheckpointStore -------------------------
(* CheckpointStore for TLC: keys as model values, and the crashes a run     *)
(* admits.                                                                  *)
EXTENDS CheckpointStore

(* The process is killed.                                                   *)
Killed == {"kill"}

(* ... or the power is cut under a disk that writes in order.               *)
InOrder == {"kill", "ordered"}

(* The power is cut under a disk that does not.                             *)
AnyOrder == {"reordered"}
=============================================================================
