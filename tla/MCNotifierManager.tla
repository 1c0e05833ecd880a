-------------------------- MODULE MCNotifierManager --------------------------
(* Small instances of NotifierManager for TLC. *)
EXTENDS NotifierManager, TLC

CONSTANTS r1, r2, g1, g2

(* Rules have names of their own, hence groups of their own. *)
OwnGroups == [rule \in Rules |-> IF rule = r1 THEN g1 ELSE g2]

===============================================================================
