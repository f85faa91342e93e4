--------------------------- MODULE MCTriggerManager ---------------------------
(***************************************************************************)
(* Instances of TriggerManager for TLC.                                    *)
(***************************************************************************)
EXTENDS TriggerManager

CONSTANTS server, t1, t2, c1, c2
=============================================================================
