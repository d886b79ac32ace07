-------------------------- MODULE MCNodeRecovery --------------------------
(* Small instances of a node that crashes and recovers.                     *)
EXTENDS NodeRecovery
============================================================================
