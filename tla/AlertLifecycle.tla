---------------------------- MODULE AlertLifecycle ----------------------------
(***************************************************************************)
(* What alert evaluation promises of each rule, with no passes, copies or  *)
(* locks: a firing notice for a condition that has held for the rule's     *)
(* duration, then a resolved notice once it no longer holds, in turn.  A   *)
(* test request that answers by a value which is no longer the rule's      *)
(* misleads it, until it has been found not to hold; even then the notices *)
(* come in turn.                                                           *)
(***************************************************************************)
EXTENDS Integers

CONSTANTS
    Ids,    \* rules, each watching a condition of its own
    Hold    \* Hold[id]: for how many ticks the condition must be met

VARIABLES
    value,      \* the latest value: "none", "low" or "high" (condition met)
    highFor,    \* for how long the condition has been met, -1 when it is not
    told,       \* 1 between a firing notice and its resolved notice, else 0
    tests,      \* the test requests under way: of which rule, and what they saw
    misled      \* the rules a late test has misled

vars == <<value, highFor, told, tests, misled>>

Init ==
    /\ value = [id \in Ids |-> "none"]
    /\ highFor = [id \in Ids |-> -1]
    /\ told = [id \in Ids |-> 0]
    /\ tests = {}
    /\ misled = {}

(* New values arrive for some of the rules. *)
Observe ==
    /\ value' \in [Ids -> {"none", "low", "high"}]
    /\ \A id \in Ids : value'[id] = "none" => value[id] = "none"
    /\ highFor' = [id \in Ids |-> IF value'[id] # "high" THEN -1
                                  ELSE IF value[id] = "high" THEN highFor[id]
                                  ELSE 0]
    /\ UNCHANGED <<told, tests, misled>>

(* Time passes; it is counted up to the duration. *)
Tick ==
    /\ highFor' = [id \in Ids |-> IF highFor[id] \in 0 .. Hold[id] - 1
                                  THEN highFor[id] + 1 ELSE highFor[id]]
    /\ UNCHANGED <<value, told, tests, misled>>

(* A test sees the value of the moment and answers by it later.             *)
Ask(id) ==
    /\ value[id] # "none"
    /\ tests' = tests \cup {[id |-> id, seen |-> value[id]]}
    /\ UNCHANGED <<value, highFor, told, misled>>

Answer(t) ==
    /\ tests' = tests \ {t}
    /\ misled' = IF t.seen = value[t.id] THEN misled ELSE misled \cup {t.id}
    /\ UNCHANGED <<value, highFor, told>>

(* An evaluation has found that the condition does not hold.                *)
Recover(id) ==
    /\ value[id] = "low"
    /\ misled' = misled \ {id}
    /\ UNCHANGED <<value, highFor, told, tests>>

Fire(id) ==
    /\ told[id] = 0
    /\ highFor[id] >= Hold[id] \/ id \in misled
    /\ told' = [told EXCEPT ![id] = 1]
    /\ UNCHANGED <<value, highFor, tests, misled>>

Resolve(id) ==
    /\ told[id] = 1
    /\ value[id] = "low" \/ id \in misled
    /\ told' = [told EXCEPT ![id] = 0]
    /\ UNCHANGED <<value, highFor, tests, misled>>

Next ==
    \/ Observe
    \/ Tick
    \/ \E id \in Ids : Ask(id) \/ Recover(id) \/ Fire(id) \/ Resolve(id)
    \/ \E t \in tests : Answer(t)

Spec == Init /\ [][Next]_vars

===============================================================================
