--------------------------- MODULE MCAlertEvaluator ---------------------------
(* Small instances of AlertEvaluator for TLC. *)
EXTENDS AlertEvaluator, TLC

CONSTANTS r1, r2, p1, p2

(* Who evaluates. *)
OneCollection == [p \in {p1} |-> "collection"]
TwoCollections == [p \in {p1, p2} |-> "collection"]
CollectionAndScheduler == p1 :> "collection" @@ p2 :> "scheduled"
CollectionAndRequest == p1 :> "collection" @@ p2 :> "all"

(* The rules. *)
Collected == [id \in Ids |-> "collection"]
Scheduled == [id \in Ids |-> "scheduled"]
NoHold == [id \in Ids |-> 0]
HoldOne == [id \in Ids |-> 1]
HoldTwo == [id \in Ids |-> 2]
MixedHold == [id \in Ids |-> IF id = r1 THEN 2 ELSE 0]
NoInterval == [id \in Ids |-> 0]
EveryTwo == [id \in Ids |-> 2]

===============================================================================
