------------------------ MODULE AlertLifecycleProofs ------------------------
(***************************************************************************)
(* AlertEvaluator implements AlertLifecycle when one collection pass runs   *)
(* at a time and rules are created, deleted and tested, but not edited; and *)
(* then the history's active firings are those of the firing rules.         *)
(***************************************************************************)
EXTENDS AlertEvaluatorProofs, FiniteSetTheorems

(* One pass, none of the requests that change a stored rule, no restart,    *)
(* and no rule that is created firing.                                      *)
OnePass ==
    /\ \A p, q \in Passes : p = q
    /\ \A p \in Passes : Kind[p] = "collection"
    /\ Requests \subseteq {"create", "delete", "test"}
    /\ "firing" \notin BodyStates

-------------------------------------------------------------------------------
(* The invariant. *)

(* The copy of the rule is in the hands of the pass. *)
InHand(p, id) == pc[p] \in AtWork /\ job[p].id = id
Holding(p, id) == id \in DOMAIN todo[p] \/ InHand(p, id)

Told(id) == outstanding[id] = 1

(* Each rule's value, age of its condition, wait and notices. *)
MetricInv ==
    \A id \in Ids :
        /\ value[id] = "high" <=> highFor[id] # -1
        /\ value[id] = "none" \/ id \in Broken => pending[id] = -1
        /\ outstanding[id] \in {0, 1}
        /\ Told(id) => value[id] # "none"

(* A stored rule is firing when a firing notice is open; an id that was     *)
(* never used has left no trace.                                            *)
StateInv ==
    /\ \A id \in DOMAIN rules :
          ~BeingStored(id) => (rules[id].state = "firing" <=> Told(id))
    /\ \A id \in Ids \ used :
          /\ outstanding[id] = 0
          /\ pending[id] = -1
          /\ \A p \in Passes : ~Holding(p, id)

(* So is every copy, and there is one copy of a rule. *)
CopyInv(p) ==
    /\ pc[p] \in {"idle", "started"} => DOMAIN todo[p] = {}
    /\ \A id \in DOMAIN todo[p] : todo[p][id].state = "firing" <=> Told(id)
    /\ pc[p] \in AtWork =>
          /\ job[p].id \notin DOMAIN todo[p]
          /\ job[p].rule.state = "firing" <=> Told(job[p].id)

Mine(id) == id \in DOMAIN rules /\ rules[id].enabled /\ Mode[id] = "collection"

(* While the condition is met, a wait is no older than the condition,       *)
(* unless a late test has left one.                                         *)
Sound(id) ==
    id \notin misled /\ value[id] = "high" /\ pending[id] # -1 => pending[id] <= highFor[id]

(* And there is no wait while it is not met. *)
Clean(id) ==
    id \notin misled /\ pending[id] # -1 => value[id] = "high" /\ pending[id] <= highFor[id]

(* Only a rule that the pass has still to judge may have a stale wait, and  *)
(* the pass ends before new values come.                                    *)
WaitInv(p) ==
    /\ \A id \in Ids : Mine(id) \/ Holding(p, id) => Sound(id)
    /\ pc[p] = "idle" => \A id \in Ids : Mine(id) => Clean(id)
    /\ pc[p] \in {"running"} \cup AtWork =>
          \A id \in Ids : Mine(id) =>
              \/ id \in DOMAIN todo[p]
              \/ pc[p] = "read" /\ job[p].id = id
              \/ Clean(id)
    /\ pc[p] \in {"evaluated", "storing"} => Clean(job[p].id)

(* The verdict in hand is about the value of now, and right unless a late   *)
(* test has changed the wait that it goes by.                               *)
VerdictInv(p) ==
    /\ pc[p] = "read" => job[p].seen = value[job[p].id]
    /\ pc[p] = "evaluated" /\ job[p].triggered => value[job[p].id] = "high"
    /\ pc[p] = "evaluated" /\ job[p].id \notin misled =>
          IF job[p].triggered THEN highFor[job[p].id] >= Hold[job[p].id]
          ELSE value[job[p].id] = "high" => pending[job[p].id] # -1

(* A test has read a value of a rule that can be evaluated.                 *)
TestsInv ==
    \A t \in tests : t.id \in used \ Broken /\ value[t.id] # "none"

LifecycleInv ==
    /\ MetricInv
    /\ StateInv
    /\ \A p \in Passes : CopyInv(p) /\ WaitInv(p) /\ VerdictInv(p)

-------------------------------------------------------------------------------
(* What holds of the pass p, and of nothing else, holds of all passes. *)
LEMMA OfThePass ==
    ASSUME OnePass, NEW p \in Passes,
           MetricInv', StateInv', CopyInv(p)', WaitInv(p)', VerdictInv(p)'
    PROVE  LifecycleInv'
<1>1. \A q \in Passes : q = p
  BY DEF OnePass
<1> QED
  BY <1>1, Zenon DEF LifecycleInv

(* What the types say of a pass and of the copy in its hands. *)
LEMMA PassTypes ==
    ASSUME TypeInv, NEW p \in Passes
    PROVE  /\ pc[p] \in AtRest \cup AtWork
           /\ DOMAIN todo = Passes /\ DOMAIN job = Passes
           /\ pc \in [Passes -> AtRest \cup AtWork]
           /\ DOMAIN todo[p] \subseteq Ids
           /\ pc[p] \in AtWork => job[p] \in Job
BY DEF TypeInv, PassesOK, RulesOK, JobOK, GoodJob

LEMMA AgeTypes ==
    ASSUME TypeInv, NEW id \in Ids
    PROVE  /\ highFor[id] \in Int /\ -1 <= highFor[id] /\ highFor[id] <= Hold[id]
           /\ pending[id] \in Int /\ -1 <= pending[id] /\ pending[id] <= Hold[id]
           /\ Hold[id] \in Nat
BY Parameters DEF TypeInv, AgesOK

LEMMA LifecycleInit == ASSUME OnePass, Init PROVE LifecycleInv
<1>1. PICK stored \in SUBSET Ids :
        rules \in [stored -> [enabled : BOOLEAN, state : {"pending"}, age : {-1}]]
  BY DEF Init
<1>2. \A id \in DOMAIN rules : id \in Ids /\ rules[id].state = "pending"
  BY <1>1
<1>3. \A id \in Ids : /\ value[id] = "none" /\ highFor[id] = -1 /\ pending[id] = -1
                      /\ outstanding[id] = 0
  BY DEF Init
<1>4. \A p \in Passes : pc[p] = "idle" /\ DOMAIN todo[p] = {}
  BY DEF Init
<1>5. MetricInv
  BY <1>3 DEF MetricInv, Told
<1>6. StateInv
  BY <1>2, <1>3, <1>4 DEF StateInv, Told, Holding, InHand, AtWork
<1>7. \A p \in Passes : CopyInv(p) /\ WaitInv(p) /\ VerdictInv(p)
  BY <1>3, <1>4 DEF CopyInv, WaitInv, VerdictInv, Sound, Clean, Mine, AtWork
<1> QED
  BY <1>5, <1>6, <1>7 DEF LifecycleInv

(* New values come between two passes only. *)
LEMMA CollectKeeps ==
    ASSUME OnePass, TypeInv, LifecycleInv, NEW p \in Passes, Collect(p)
    PROVE  LifecycleInv'
<1>1. /\ pc[p] = "idle" /\ pc'[p] = "started" /\ todo'[p] = todo[p]
      /\ \A q \in Passes : q = p
      /\ UNCHANGED <<rules, used, misled, pending, outstanding>>
  BY PassTypes DEF Collect, ruleVars, alertVars, testVars, OnePass
<1>2. \A id \in Ids :
        /\ value'[id] = "none" => value[id] = "none"
        /\ value'[id] = "none" \/ value'[id] = "low" => highFor'[id] = -1
        /\ value'[id] = "high" => highFor'[id] = IF value[id] = "high" THEN highFor[id] ELSE 0
        /\ value'[id] \in {"none", "low", "high"}
  <2>1. PICK seen \in [Ids -> {"low", "high", "failed"}] :
          /\ value' = [id \in Ids |-> IF seen[id] = "failed" THEN value[id] ELSE seen[id]]
          /\ highFor' = [id \in Ids |-> IF value'[id] # "high" THEN -1
                                        ELSE IF value[id] = "high" THEN highFor[id] ELSE 0]
    BY DEF Collect
  <2>2. value \in [Ids -> {"none", "low", "high"}]
    BY DEF TypeInv
  <2> QED
    BY <2>1, <2>2
<1>3. MetricInv'
  BY <1>1, <1>2, AgeTypes DEF LifecycleInv, MetricInv, Told
<1>4. StateInv'
  BY <1>1 DEF LifecycleInv, StateInv, Told, BeingStored, Holding, InHand, AtWork
<1>5. CopyInv(p)' /\ VerdictInv(p)'
  BY <1>1 DEF LifecycleInv, CopyInv, VerdictInv, AtWork
<1>6. WaitInv(p)'
  <2>1. ASSUME NEW id \in Ids, Mine(id)'
        PROVE  Sound(id)'
    BY <1>1, <1>2, <2>1, AgeTypes DEF LifecycleInv, WaitInv, Mine, Clean, Sound
  <2>2. \A id \in Ids : ~Holding(p, id)'
    BY <1>1 DEF LifecycleInv, CopyInv, Holding, InHand, AtWork
  <2> QED
    BY <1>1, <2>1, <2>2 DEF WaitInv, AtWork
<1> QED
  BY <1>3, <1>4, <1>5, <1>6, OfThePass

(* The pass takes copies of the enabled rules. *)
LEMMA SnapshotKeeps ==
    ASSUME OnePass, TypeInv, LifecycleInv, NEW p \in Passes, Snapshot(p)
    PROVE  LifecycleInv'
<1> DEFINE mine == { id \in DOMAIN rules : rules[id].enabled /\ Mode[id] = "collection" }
<1>1. /\ pc[p] = "started" /\ pc'[p] = "running" /\ todo'[p] = [id \in mine |-> rules[id]]
      /\ \A q \in Passes : q = p
      /\ UNCHANGED <<rules, used, misled, value, highFor, pending, outstanding>>
  BY PassTypes DEF Snapshot, ruleVars, metricVars, alertVars, testVars, OnePass
<1>2. \A id \in mine : id \in Ids /\ Mine(id)
  BY DEF TypeInv, RulesOK, Mine
<1>3. MetricInv'
  BY <1>1 DEF LifecycleInv, MetricInv, Told
<1>4. StateInv'
  <2>1. \A i \in Ids \ used : i \notin mine
    BY DEF TypeInv, FileOK
  <2>2. \A i \in Ids \ used : \A q \in Passes : ~Holding(q, i)'
    BY <1>1, <2>1 DEF Holding, InHand, AtWork
  <2>3. \A i \in DOMAIN rules : ~BeingStored(i)
    BY <1>1 DEF BeingStored
  <2> QED
    BY <1>1, <2>2, <2>3 DEF LifecycleInv, StateInv, Told
<1>5. CopyInv(p)' /\ VerdictInv(p)'
  <2>1. \A id \in mine : rules[id].state = "firing" <=> Told(id)
    BY <1>1 DEF LifecycleInv, StateInv, BeingStored
  <2> QED
    BY <1>1, <2>1 DEF CopyInv, VerdictInv, AtWork, Told
<1>6. WaitInv(p)'
  <2>1. \A id \in Ids : Mine(id)' <=> Mine(id)
    BY <1>1 DEF Mine
  <2>2. \A id \in Ids : Holding(p, id)' => Mine(id)
    BY <1>1, <1>2 DEF Holding, InHand, AtWork
  <2>3. \A id \in Ids : Sound(id)' <=> Sound(id)
    BY <1>1 DEF Sound
  <2>4. \A id \in Ids : Mine(id) => id \in DOMAIN todo'[p]
    BY <1>1 DEF Mine
  <2> QED
    BY <1>1, <2>1, <2>2, <2>3, <2>4 DEF LifecycleInv, WaitInv, AtWork
<1> QED
  BY <1>3, <1>4, <1>5, <1>6, OfThePass

(* The pass reads the value for one of its copies. *)
LEMMA ReadKeeps ==
    ASSUME OnePass, TypeInv, LifecycleInv, NEW p \in Passes, NEW id \in Ids, Read(p, id)
    PROVE  LifecycleInv'
<1>1. /\ pc[p] = "running" /\ pc'[p] = "read" /\ id \in DOMAIN todo[p]
      /\ DOMAIN todo'[p] = DOMAIN todo[p] \ {id}
      /\ \A i \in DOMAIN todo'[p] : todo'[p][i] = todo[p][i]
      /\ job'[p] = [id |-> id, rule |-> Dated(id, todo[p][id]), seen |-> value[id],
                    triggered |-> FALSE]
      /\ \A q \in Passes : q = p
      /\ UNCHANGED <<rules, used, misled, value, highFor, pending, outstanding>>
  BY PassTypes DEF Read, Remaining, ruleVars, metricVars, alertVars, testVars, OnePass
<1>2. job'[p].id = id /\ job'[p].seen = value[id]
  BY <1>1
<1>3. job'[p].rule.state = todo[p][id].state
  <2>1. todo[p][id] \in Rule
    BY <1>1 DEF TypeInv, PassesOK, RulesOK
  <2> QED
    BY <1>1, <2>1 DEF Dated, Rule
<1>4. MetricInv'
  BY <1>1 DEF LifecycleInv, MetricInv, Told
<1>5. StateInv'
  BY <1>1, <1>2 DEF LifecycleInv, StateInv, Told, BeingStored, Holding, InHand, AtWork
<1>6. CopyInv(p)' /\ VerdictInv(p)'
  BY <1>1, <1>2, <1>3 DEF LifecycleInv, CopyInv, VerdictInv, AtWork, Told
<1>7. WaitInv(p)'
  BY <1>1, <1>2 DEF LifecycleInv, WaitInv, AtWork, Mine, Sound, Clean, Holding, InHand
<1> QED
  BY <1>4, <1>5, <1>6, <1>7, OfThePass

(* The wait that an evaluation leaves, for a value it saw. *)
LEMMA WaitAfter ==
    ASSUME TypeInv, MetricInv, NEW id \in Ids, ~Fails(id, value[id])
    PROVE  LET wait == PendingAfter(id, value[id])
           IN  /\ wait \in Int
               /\ value[id] = "none" \/ id \in Broken => wait = -1
               /\ value[id] = "low" => wait = -1
               /\ value[id] = "high" /\ pending[id] = -1 => wait \in {-1, 0} /\ 0 <= highFor[id]
               /\ value[id] = "high" /\ Hold[id] > 0 => wait # -1
               /\ pending[id] # -1 /\ value[id] = "high" => wait = pending[id]
<1>1. value[id] \in {"none", "low", "high"}
  BY DEF TypeInv
<1> QED
  BY <1>1, AgeTypes DEF PendingAfter, MetricInv, Fails

(* The pass judges the value. *)
LEMMA EvaluateKeeps ==
    ASSUME OnePass, TypeInv, LifecycleInv, NEW p \in Passes, Evaluate(p)
    PROVE  LifecycleInv'
<1> DEFINE id == job[p].id
           wait == PendingAfter(id, value[id])
<1>1. id \in Ids /\ job[p].seen = value[id] /\ job[p] \in Job
  BY PassTypes DEF Evaluate, AtWork, Job, LifecycleInv, VerdictInv
<1>2. /\ pc[p] = "read" /\ pc'[p] = "evaluated" /\ todo'[p] = todo[p]
      /\ job'[p] = [job[p] EXCEPT !.triggered = Triggered(id, value[id])]
      /\ ~Fails(id, value[id])
      /\ \A i \in Ids : pending'[i] = IF i = id THEN wait ELSE pending[i]
      /\ \A q \in Passes : q = p
      /\ misled' = IF value[id] = "low" THEN misled \ {id} ELSE misled
      /\ UNCHANGED <<rules, used, value, highFor, outstanding>>
  BY <1>1, PassTypes DEF Evaluate, ruleVars, metricVars, alertVars, testVars, OnePass, TypeInv, AgesOK
<1>3. /\ job'[p].id = id /\ job'[p].rule = job[p].rule
      /\ job'[p].triggered = Triggered(id, value[id])
  BY <1>1, <1>2 DEF Job
<1>4. /\ wait \in Int
      /\ value[id] = "none" \/ id \in Broken => wait = -1
      /\ value[id] = "low" => wait = -1
      /\ value[id] = "high" /\ pending[id] = -1 => wait \in {-1, 0} /\ 0 <= highFor[id]
      /\ value[id] = "high" /\ Hold[id] > 0 => wait # -1
      /\ pending[id] # -1 /\ value[id] = "high" => wait = pending[id]
  BY <1>1, <1>2, WaitAfter DEF LifecycleInv
<1> HIDE DEF wait
<1>5. MetricInv'
  BY <1>2, <1>4 DEF LifecycleInv, MetricInv, Told
<1>6. InHand(p, id) /\ id \in used
  <2>1. InHand(p, id)
    BY <1>2 DEF InHand, AtWork
  <2>2. Holding(p, id)
    BY <2>1 DEF Holding
  <2>3. ASSUME id \notin used
        PROVE  FALSE
    <3>1. ~Holding(p, id)
      BY <1>1, <2>3 DEF LifecycleInv, StateInv
    <3> QED
      BY <2>2, <3>1
  <2> QED
    BY <2>1, <2>3, Zenon
<1>7. StateInv'
  <2>1. \A i \in DOMAIN rules : rules[i].state = "firing" <=> Told(i)
    BY <1>2 DEF LifecycleInv, StateInv, BeingStored
  <2>2. ASSUME NEW i \in Ids \ used
        PROVE  outstanding[i] = 0 /\ pending'[i] = -1 /\ ~Holding(p, i)'
    <3>1. i # id
      BY <1>6, <2>2
    <3>2. outstanding[i] = 0 /\ pending[i] = -1 /\ ~Holding(p, i)
      BY <2>2, Zenon DEF LifecycleInv, StateInv
    <3> QED
      BY <1>2, <1>3, <2>2, <3>1, <3>2 DEF Holding, InHand, AtWork
  <2> QED
    BY <1>2, <2>1, <2>2 DEF StateInv, Told
<1>8. CopyInv(p)'
  BY <1>2, <1>3 DEF LifecycleInv, CopyInv, AtWork, Told
<1>9. Sound(id) /\ value[id] \in {"none", "low", "high"}
  BY <1>1, <1>6 DEF LifecycleInv, WaitInv, Holding, TypeInv
<1>10. Clean(id)'
  BY <1>1, <1>2, <1>4, <1>9, AgeTypes DEF Clean, Sound
<1>11. VerdictInv(p)'
  <2>1. ASSUME Triggered(id, value[id])
        PROVE  value[id] = "high" /\ (id \notin misled => highFor[id] >= Hold[id])
    BY <1>1, <1>9, <2>1, AgeTypes DEF Triggered, Sound, LifecycleInv, MetricInv
  <2>2. ASSUME ~Triggered(id, value[id]), value[id] = "high"
        PROVE  wait # -1
    BY <1>1, <1>4, <2>2, AgeTypes DEF Triggered
  <2> QED
    BY <1>1, <1>2, <1>3, <2>1, <2>2 DEF VerdictInv
<1>12. WaitInv(p)'
  <2>1. \A i \in Ids : i # id => (Sound(i)' <=> Sound(i)) /\ (Clean(i)' <=> Clean(i))
    BY <1>2 DEF Sound, Clean
  <2>2. Sound(id)'
    BY <1>10 DEF Clean, Sound
  <2>3. \A i \in Ids : /\ Mine(i)' <=> Mine(i)
                       /\ Holding(p, i)' <=> Holding(p, i)
    BY <1>2, <1>3 DEF Mine, Holding, InHand, AtWork
  <2> QED
    BY <1>1, <1>2, <1>3, <1>10, <2>1, <2>2, <2>3 DEF LifecycleInv, WaitInv, AtWork
<1> QED
  BY <1>5, <1>7, <1>8, <1>11, <1>12, OfThePass

(* An evaluation that fails leaves the rule's wait, which is absent. *)
LEMMA EvaluateFailsKeeps ==
    ASSUME OnePass, TypeInv, LifecycleInv, NEW p \in Passes, EvaluateFails(p)
    PROVE  LifecycleInv'
<1> DEFINE id == job[p].id
<1>1. id \in Ids /\ id \in Broken
  BY PassTypes DEF EvaluateFails, Fails, AtWork, Job
<1>2. /\ pc[p] = "read" /\ pc'[p] = "running" /\ todo'[p] = todo[p]
      /\ \A q \in Passes : q = p
      /\ UNCHANGED <<rules, used, misled, value, highFor, pending, outstanding>>
  BY PassTypes DEF EvaluateFails, ruleVars, metricVars, alertVars, testVars, OnePass
<1>3. MetricInv'
  BY <1>2 DEF LifecycleInv, MetricInv, Told
<1>4. StateInv'
  BY <1>2 DEF LifecycleInv, StateInv, Told, BeingStored, Holding, InHand, AtWork
<1>5. CopyInv(p)' /\ VerdictInv(p)'
  BY <1>2 DEF LifecycleInv, CopyInv, VerdictInv, AtWork, Told
<1>6. Clean(id)
  BY <1>1 DEF LifecycleInv, MetricInv, Clean
<1>7. WaitInv(p)'
  BY <1>2, <1>6 DEF LifecycleInv, WaitInv, AtWork, Mine, Sound, Clean, Holding, InHand
<1> QED
  BY <1>3, <1>4, <1>5, <1>7, OfThePass

(* A rule that is still waiting, and the end of the pass. *)
LEMMA KeepWaitingKeeps ==
    ASSUME OnePass, TypeInv, LifecycleInv, NEW p \in Passes, KeepWaiting(p) \/ Finish(p)
    PROVE  LifecycleInv'
<1>1. /\ todo'[p] = todo[p]
      /\ \/ pc[p] = "evaluated" /\ pc'[p] = "running"
         \/ pc[p] = "running" /\ pc'[p] = "idle" /\ DOMAIN todo[p] = {}
      /\ \A q \in Passes : q = p
      /\ UNCHANGED <<rules, used, misled, value, highFor, pending, outstanding>>
  BY PassTypes DEF KeepWaiting, Finish, Enter, ruleVars, metricVars, alertVars, testVars, OnePass
<1>2. MetricInv'
  BY <1>1 DEF LifecycleInv, MetricInv, Told
<1>3. StateInv'
  BY <1>1 DEF LifecycleInv, StateInv, Told, BeingStored, Holding, InHand, AtWork
<1>4. CopyInv(p)' /\ VerdictInv(p)'
  BY <1>1 DEF LifecycleInv, CopyInv, VerdictInv, AtWork, Told
<1>5. WaitInv(p)'
  BY <1>1 DEF LifecycleInv, WaitInv, AtWork, Mine, Sound, Clean, Holding, InHand
<1> QED
  BY <1>2, <1>3, <1>4, <1>5, OfThePass

(* A transition: the notice, if any, agrees with the copy's new state. *)
LEMMA TransitKeeps ==
    ASSUME OnePass, TypeInv, LifecycleInv, NEW p \in Passes,
           Enter(p), NEW state \in States, Transit(p, state),
           \A i \in Ids : i # job[p].id => outstanding'[i] = outstanding[i],
           outstanding'[job[p].id] = IF state = "firing" THEN 1 ELSE 0,
           state = "firing" => value[job[p].id] # "none"
    PROVE  LifecycleInv'
<1> DEFINE id == job[p].id
<1>1. id \in Ids /\ job[p] \in Job
  BY PassTypes DEF Enter, AtWork, Job
<1>2. /\ pc[p] = "evaluated" /\ pc'[p] = "storing" /\ todo'[p] = todo[p]
      /\ job'[p] = [job[p] EXCEPT !.rule = WithState(job[p].rule, state)]
      /\ \A q \in Passes : q = p
      /\ UNCHANGED <<rules, used, misled, value, highFor, pending>>
  BY PassTypes DEF Enter, Transit, ruleVars, metricVars, testVars, OnePass
<1>3. job'[p].id = id /\ job'[p].rule.state = state
  BY <1>1, <1>2 DEF Job, WithState, Rule
<1>4. InHand(p, id) /\ id \notin DOMAIN todo[p]
  BY <1>2 DEF InHand, AtWork, LifecycleInv, CopyInv
<1>5. MetricInv'
  BY <1>1, <1>2 DEF LifecycleInv, MetricInv, Told
<1>6. StateInv'
  <2>1. id \in used
    BY <1>1, <1>4 DEF LifecycleInv, StateInv, Holding
  <2>2. \A i \in DOMAIN rules : i # id => i \in Ids /\ ~BeingStored(i)
    BY <1>2 DEF BeingStored, TypeInv, RulesOK
  <2>3. ASSUME NEW i \in DOMAIN rules, ~BeingStored(i)'
        PROVE  i # id
    <3>1. ~(pc'[p] = "storing" /\ job'[p].id = i)
      BY <2>3 DEF BeingStored
    <3> QED
      BY <1>2, <1>3, <3>1, PassTypes
  <2>4. ASSUME NEW i \in DOMAIN rules, ~BeingStored(i)'
        PROVE  rules[i].state = "firing" <=> Told(i)'
    <3>1. i # id /\ i \in Ids /\ ~BeingStored(i)
      <4>1. i # id
        BY <2>3, <2>4
      <4> QED
        BY <2>2, <4>1, Zenon
    <3>2. outstanding'[i] = outstanding[i]
      BY <3>1
    <3> QED
      BY <2>4, <3>1, <3>2 DEF LifecycleInv, StateInv, Told
  <2>5. ASSUME NEW i \in Ids \ used
        PROVE  outstanding'[i] = 0 /\ pending[i] = -1 /\ ~Holding(p, i)'
    BY <1>2, <1>3, <2>1, <2>5 DEF LifecycleInv, StateInv, Holding, InHand, AtWork
  <2> QED
    BY <1>2, <2>4, <2>5 DEF StateInv
<1>7. CopyInv(p)'
  BY <1>1, <1>2, <1>3, <1>4, PassTypes DEF LifecycleInv, CopyInv, AtWork, Told
<1>8. VerdictInv(p)'
  BY <1>2 DEF VerdictInv
<1>9. WaitInv(p)'
  BY <1>2, <1>3 DEF LifecycleInv, WaitInv, AtWork, Mine, Sound, Clean, Holding, InHand
<1> QED
  BY <1>5, <1>6, <1>7, <1>8, <1>9, OfThePass

(* What a transition means for the notices of the copy's rule. *)
LEMMA NoticesOf ==
    ASSUME OnePass, TypeInv, LifecycleInv, NEW p \in Passes, Enter(p)
    PROVE  LET id == job[p].id
           IN  /\ id \in Ids /\ job[p].rule.state \in States
               /\ outstanding[id] = IF job[p].rule.state = "firing" THEN 1 ELSE 0
               /\ job[p].triggered =>
                     value[id] = "high" /\ (highFor[id] >= Hold[id] \/ id \in misled)
               /\ Fire(p) => outstanding' = [outstanding EXCEPT ![id] = 1]
               /\ Resolve(p) => /\ outstanding' = [outstanding EXCEPT ![id] = 0]
                                /\ value[id] = "low" \/ id \in misled
<1> DEFINE id == job[p].id
<1>1. id \in Ids /\ job[p] \in Job /\ job[p].rule.state \in States
      /\ job[p].triggered \in BOOLEAN /\ pc[p] = "evaluated"
  BY PassTypes DEF Enter, AtWork, Job, Rule
<1>2. outstanding[id] \in {0, 1} /\ (job[p].rule.state = "firing" <=> outstanding[id] = 1)
  BY <1>1 DEF LifecycleInv, MetricInv, CopyInv, Told, AtWork
<1>3. value[id] \in {"none", "low", "high"} /\ (outstanding[id] = 1 => value[id] # "none")
      /\ (value[id] = "high" <=> highFor[id] # -1)
  BY <1>1 DEF LifecycleInv, MetricInv, Told, TypeInv
<1>4. job[p].triggered =>
        value[id] = "high" /\ (highFor[id] >= Hold[id] \/ id \in misled)
  BY <1>1 DEF LifecycleInv, VerdictInv
<1>5. ASSUME Fire(p)
      PROVE  outstanding' = [outstanding EXCEPT ![id] = 1]
  <2>1. outstanding[id] = 0
    BY <1>2, <1>5 DEF Fire
  <2>2. (IF outstanding[id] < MaxOutstanding THEN outstanding[id] + 1
         ELSE outstanding[id]) = 1
    BY <2>1, Parameters
  <2> QED
    BY <1>5, <2>2 DEF Fire
<1>6. ASSUME Resolve(p)
      PROVE  /\ outstanding' = [outstanding EXCEPT ![id] = 0]
             /\ value[id] = "low" \/ id \in misled
  <2>1. outstanding' = [outstanding EXCEPT ![id] = 0]
    <3>1. outstanding[id] = 1
      BY <1>2, <1>6 DEF Resolve
    <3>2. (IF outstanding[id] > -MaxOutstanding THEN outstanding[id] - 1
           ELSE outstanding[id]) = 0
      BY <3>1, Parameters
    <3> QED
      BY <1>6, <3>2 DEF Resolve
  <2>2. ~job[p].triggered /\ pending[id] = -1 /\ outstanding[id] = 1
    BY <1>2, <1>6 DEF Resolve
  <2>3. value[id] # "high" \/ id \in misled
    BY <1>1, <2>2 DEF LifecycleInv, VerdictInv
  <2> QED
    BY <1>3, <2>1, <2>2, <2>3
<1> QED
  BY <1>1, <1>2, <1>4, <1>5, <1>6

LEMMA UpdateStateKeeps ==
    ASSUME OnePass, TypeInv, LifecycleInv, NEW p \in Passes,
           Fire(p) \/ Resolve(p) \/ Confirm(p)
    PROVE  LifecycleInv'
<1> DEFINE id == job[p].id
<1>1. Enter(p) /\ DOMAIN outstanding = Ids
  BY DEF Fire, Resolve, Confirm, TypeInv, AlertsOK
<1>2. CASE Fire(p)
  BY <1>1, <1>2, NoticesOf, TransitKeeps DEF Fire, States
<1>3. CASE Resolve(p)
  BY <1>1, <1>3, NoticesOf, TransitKeeps DEF Resolve, States
<1>4. CASE Confirm(p)
  <2>1. job[p].rule.state = "firing" => value[id] # "none"
    BY <1>1, <1>4, NoticesOf DEF Confirm
  <2> QED
    BY <1>1, <1>4, <2>1, NoticesOf, TransitKeeps DEF Confirm, alertVars
<1> QED
  BY <1>2, <1>3, <1>4

(* The copy goes back; its state agrees with the notices. *)
LEMMA WriteBackKeeps ==
    ASSUME OnePass, TypeInv, LifecycleInv, NEW p \in Passes, WriteBack(p)
    PROVE  LifecycleInv'
<1> DEFINE id == job[p].id
<1>1. id \in Ids /\ job[p] \in Job
  BY PassTypes DEF WriteBack, AtWork, Job
<1>2. /\ pc[p] = "storing" /\ pc'[p] = "running" /\ todo'[p] = todo[p]
      /\ DOMAIN rules' = DOMAIN rules
      /\ \A i \in DOMAIN rules : rules'[i] = IF i = id THEN job[p].rule ELSE rules[i]
      /\ \A q \in Passes : q = p
      /\ UNCHANGED <<used, misled, value, highFor, pending, outstanding>>
  BY PassTypes DEF WriteBack, Stored, metricVars, alertVars, testVars, OnePass
<1>3. (job[p].rule.state = "firing" <=> Told(id)) /\ Clean(id)
  BY <1>1, <1>2 DEF LifecycleInv, CopyInv, WaitInv, AtWork
<1>4. MetricInv'
  BY <1>2 DEF LifecycleInv, MetricInv, Told
<1>5. StateInv'
  BY <1>2, <1>3 DEF LifecycleInv, StateInv, Told, BeingStored, Holding, InHand, AtWork
<1>6. CopyInv(p)' /\ VerdictInv(p)'
  BY <1>2 DEF LifecycleInv, CopyInv, VerdictInv, AtWork, Told
<1>7. WaitInv(p)'
  <2>1. \A i \in Ids : /\ Mine(i)' => Mine(i) \/ i = id
                       /\ Holding(p, i)' => Holding(p, i)
                       /\ Sound(i)' <=> Sound(i)
                       /\ Clean(i)' <=> Clean(i)
    BY <1>2 DEF Mine, Holding, InHand, Sound, Clean, AtWork
  <2>2. Sound(id)
    BY <1>3 DEF Sound, Clean
  <2> QED
    BY <1>2, <1>3, <2>1, <2>2 DEF LifecycleInv, WaitInv, AtWork
<1> QED
  BY <1>4, <1>5, <1>6, <1>7, OfThePass

(* A new rule does not fire, and its id has left no trace. *)
LEMMA CreateKeeps ==
    ASSUME OnePass, TypeInv, LifecycleInv, NEW id \in Ids, Create(id)
    PROVE  LifecycleInv'
<1>1. /\ id \notin used /\ used' = used \cup {id} /\ id \notin DOMAIN rules
      /\ DOMAIN rules' = DOMAIN rules \cup {id}
      /\ \A i \in DOMAIN rules : rules'[i] = rules[i]
      /\ rules'[id].state # "firing"
      /\ UNCHANGED <<misled, value, highFor, pending, outstanding, pc, todo, job>>
  <2>1. PICK on \in BOOLEAN, state \in BodyStates :
          rules' = [i \in DOMAIN rules \cup {id} |->
                      IF i # id THEN rules[i]
                      ELSE [enabled |-> on, age |-> -1,
                            state |-> IF state = "" THEN "pending" ELSE state]]
    BY DEF Create
  <2>2. id \notin used /\ used' = used \cup {id} /\ id \notin DOMAIN rules
    BY DEF Create, TypeInv, FileOK
  <2>3. rules'[id].state = IF state = "" THEN "pending" ELSE state
    BY <2>1
  <2>4. state # "firing"
    BY DEF OnePass
  <2>5. UNCHANGED <<misled, value, highFor, pending, outstanding, pc, todo, job>>
    BY DEF Create, metricVars, alertVars, passVars, testVars
  <2>6. /\ DOMAIN rules' = DOMAIN rules \cup {id}
        /\ \A i \in DOMAIN rules : rules'[i] = rules[i]
    BY <2>1, <2>2
  <2> QED
    BY <2>2, <2>3, <2>4, <2>5, <2>6
<1>2. outstanding[id] = 0 /\ pending[id] = -1 /\ \A p \in Passes : ~Holding(p, id)
  BY <1>1, Zenon DEF LifecycleInv, StateInv
<1>3. MetricInv'
  BY <1>1 DEF LifecycleInv, MetricInv, Told
<1>4. StateInv'
  <2>1. ASSUME NEW i \in DOMAIN rules', ~BeingStored(i)'
        PROVE  rules'[i].state = "firing" <=> Told(i)'
    <3>1. CASE i = id
      BY <1>1, <1>2, <3>1 DEF Told
    <3>2. CASE i # id
      <4>1. i \in DOMAIN rules /\ ~BeingStored(i)
        BY <1>1, <2>1, <3>2 DEF BeingStored
      <4> QED
        BY <1>1, <4>1 DEF LifecycleInv, StateInv, Told
    <3> QED
      BY <3>1, <3>2
  <2>2. \A i \in Ids \ used' :
          outstanding'[i] = 0 /\ pending'[i] = -1 /\ \A p \in Passes : ~Holding(p, i)'
    BY <1>1 DEF LifecycleInv, StateInv, Holding, InHand
  <2> QED
    BY <2>1, <2>2 DEF StateInv
<1>5. \A p \in Passes : CopyInv(p)' /\ VerdictInv(p)'
  BY <1>1 DEF LifecycleInv, CopyInv, VerdictInv, Told
<1>6. \A p \in Passes : WaitInv(p)'
  <2>1. \A i \in Ids : /\ Mine(i)' => Mine(i) \/ i = id
                       /\ Sound(i)' <=> Sound(i)
                       /\ Clean(i)' <=> Clean(i)
                       /\ \A p \in Passes : Holding(p, i)' <=> Holding(p, i)
    BY <1>1 DEF Mine, Sound, Clean, Holding, InHand
  <2>2. Sound(id) /\ Clean(id)
    BY <1>2 DEF Sound, Clean
  <2>3. \A p \in Passes : pc[p] \in AtWork => job[p].id \in Ids
    BY PassTypes DEF Job
  <2>4. ~\E p \in Passes : pc[p] \in AtWork /\ job[p].id = id
    BY <1>2 DEF Holding, InHand
  <2> QED
    BY <1>1, <2>1, <2>2, <2>3, <2>4 DEF LifecycleInv, WaitInv, AtWork
<1> QED
  BY <1>3, <1>4, <1>5, <1>6, Zenon DEF LifecycleInv

(* A deleted rule is no stored rule, and its id is not used again. *)
LEMMA DeleteKeeps ==
    ASSUME OnePass, TypeInv, LifecycleInv, NEW id \in Ids, Delete(id)
    PROVE  LifecycleInv'
<1>1. /\ DOMAIN rules' = DOMAIN rules \ {id}
      /\ \A i \in DOMAIN rules' : rules'[i] = rules[i]
      /\ UNCHANGED <<used, misled, value, highFor, pending, outstanding, pc, todo, job>>
  BY DEF Delete, metricVars, alertVars, passVars, testVars
<1>2. MetricInv'
  BY <1>1 DEF LifecycleInv, MetricInv, Told
<1>3. StateInv'
  <2>1. ASSUME NEW i \in DOMAIN rules', ~BeingStored(i)'
        PROVE  rules'[i].state = "firing" <=> Told(i)'
    <3>1. i \in DOMAIN rules /\ ~BeingStored(i)
      BY <1>1, <2>1 DEF BeingStored
    <3> QED
      BY <1>1, <3>1 DEF LifecycleInv, StateInv, Told
  <2>2. \A i \in Ids \ used' :
          outstanding'[i] = 0 /\ pending'[i] = -1 /\ \A p \in Passes : ~Holding(p, i)'
    BY <1>1 DEF LifecycleInv, StateInv, Holding, InHand
  <2> QED
    BY <2>1, <2>2 DEF StateInv
<1>4. \A p \in Passes : CopyInv(p)' /\ VerdictInv(p)'
  BY <1>1 DEF LifecycleInv, CopyInv, VerdictInv, Told
<1>5. \A p \in Passes : WaitInv(p)'
  <2>1. \A i \in Ids : /\ Mine(i)' => Mine(i)
                       /\ Sound(i)' <=> Sound(i)
                       /\ Clean(i)' <=> Clean(i)
                       /\ \A p \in Passes : Holding(p, i)' <=> Holding(p, i)
    BY <1>1 DEF Mine, Sound, Clean, Holding, InHand
  <2>2. \A p \in Passes : pc[p] \in AtWork => job[p].id \in Ids
    BY PassTypes DEF Job
  <2> QED
    BY <1>1, <2>1, <2>2 DEF LifecycleInv, WaitInv, AtWork
<1> QED
  BY <1>2, <1>3, <1>4, <1>5, Zenon DEF LifecycleInv

(* A test that has only read changes nothing else.                          *)
LEMMA TestReadsKeeps ==
    ASSUME LifecycleInv, NEW id \in Ids, TestReads(id)
    PROVE  LifecycleInv'
BY DEF TestReads, ruleVars, metricVars, alertVars, passVars, LifecycleInv, MetricInv, StateInv,
       CopyInv, WaitInv, VerdictInv, Told, BeingStored, Holding, InHand, Mine, Sound, Clean

(* A test that answers by the value of now leaves a wait that is as good as *)
(* the one it found; any other misleads its rule.                           *)
LEMMA TestJudgesKeeps ==
    ASSUME OnePass, TypeInv, LifecycleInv, TestsInv, NEW t \in tests, TestJudges(t)
    PROVE  LifecycleInv'
<1>1. /\ t.id \in Ids /\ t.id \in used /\ t.id \notin Broken
      /\ t.seen \in {"low", "high"} /\ value[t.id] # "none"
  BY DEF TestsInv, TypeInv, TestsOK
<1>a. PICK id \in Ids : id = t.id
  BY <1>1
<1>b. PICK wait : wait = PendingAfter(t.id, t.seen)
  OBVIOUS
<1>2. id = t.id /\ wait = PendingAfter(t.id, t.seen)
  BY <1>a, <1>b
<1>3. /\ \A i \in Ids : pending'[i] = IF i = id THEN wait ELSE pending[i]
      /\ misled' = IF t.seen = value[id] THEN misled ELSE misled \cup {id}
      /\ UNCHANGED <<rules, used, value, highFor, outstanding, pc, todo, job>>
  BY <1>1, <1>2 DEF TestJudges, ruleVars, metricVars, alertVars, passVars, TypeInv, AgesOK
<1>4. ASSUME id \notin misled'
      PROVE  /\ id \notin misled
             /\ wait \in Int
             /\ value[id] = "low" => wait = -1
             /\ value[id] = "high" /\ pending[id] = -1 => wait \in {-1, 0} /\ 0 <= highFor[id]
             /\ pending[id] # -1 /\ value[id] = "high" => wait = pending[id]
  <2>1. t.seen = value[id] /\ id \notin misled /\ ~Fails(id, value[id])
    BY <1>1, <1>2, <1>3, <1>4 DEF Fails
  <2> QED
    BY <1>2, <2>1, WaitAfter DEF LifecycleInv
<1>5. MetricInv'
  BY <1>1, <1>2, <1>3 DEF LifecycleInv, MetricInv, Told
<1>6. StateInv'
  <2>1. \A i \in DOMAIN rules : ~BeingStored(i)' => (rules[i].state = "firing" <=> Told(i))
    BY <1>3 DEF LifecycleInv, StateInv, BeingStored
  <2>2. \A i \in Ids \ used :
          outstanding[i] = 0 /\ pending'[i] = -1 /\ \A p \in Passes : ~Holding(p, i)'
    BY <1>1, <1>2, <1>3 DEF LifecycleInv, StateInv, Holding, InHand
  <2> QED
    BY <1>3, <2>1, <2>2 DEF StateInv, Told
<1>7. \A p \in Passes : CopyInv(p)'
  BY <1>3 DEF LifecycleInv, CopyInv, Told
<1>8. \A i \in Ids : (Sound(i) => Sound(i)') /\ (Clean(i) => Clean(i)')
  <2>1. value[id] \in {"none", "low", "high"}
    BY DEF TypeInv
  <2>2. pending'[id] = wait /\ value' = value /\ highFor' = highFor
    BY <1>3
  <2>3. highFor[id] \in Int /\ pending[id] \in Int
    BY AgeTypes
  <2> SUFFICES ASSUME NEW i \in Ids
               PROVE  (Sound(i) => Sound(i)') /\ (Clean(i) => Clean(i)')
    BY Zenon
  <2>4. CASE i = id
    <3>1. CASE id \in misled'
      BY <2>4, <3>1 DEF Sound, Clean
    <3>2. CASE id \notin misled'
      BY <1>1, <1>2, <1>4, <2>1, <2>2, <2>3, <2>4, <3>2 DEF Sound, Clean
    <3> QED
      BY <3>1, <3>2
  <2>5. CASE i # id
    BY <1>3, <2>5 DEF Sound, Clean
  <2> QED
    BY <2>4, <2>5, Zenon
<1>9. ASSUME NEW p \in Passes
      PROVE  VerdictInv(p)'
  <2>1. pc[p] = "evaluated" => job[p].id \in Ids
    BY PassTypes DEF AtWork, Job
  <2>2. VerdictInv(p)
    BY DEF LifecycleInv
  <2>3. CASE job[p].id = id
    <3>1. CASE id \in misled'
      BY <1>3, <2>2, <2>3, <3>1 DEF VerdictInv
    <3>2. CASE id \notin misled'
      BY <1>3, <1>4, <2>1, <2>2, <2>3, <3>2 DEF VerdictInv
    <3> QED
      BY <3>1, <3>2
  <2>4. CASE job[p].id # id
    BY <1>3, <2>1, <2>2, <2>4 DEF VerdictInv
  <2> QED
    BY <2>3, <2>4
<1>10. \A p \in Passes : WaitInv(p)'
  <2>1. \A i \in Ids : /\ Mine(i)' <=> Mine(i)
                       /\ \A p \in Passes : Holding(p, i)' <=> Holding(p, i)
    BY <1>3 DEF Mine, Holding, InHand
  <2>2. ASSUME NEW p \in Passes, pc[p] \in AtWork
        PROVE  job[p].id \in Ids
    BY <2>2, PassTypes DEF Job
  <2> QED
    BY <1>3, <1>8, <2>1, <2>2 DEF LifecycleInv, WaitInv, AtWork
<1> QED
  BY <1>5, <1>6, <1>7, <1>9, <1>10, Zenon DEF LifecycleInv

(* Values do not go away again without a restart, and ids stay given.       *)
LEMMA TestsKept ==
    ASSUME OnePass, TypeInv, TestsInv, [Next]_vars
    PROVE  TestsInv'
<1>1. ASSUME NEW p \in Passes, Collect(p)
      PROVE  TestsInv'
  <2>1. tests' = tests /\ used' = used
    BY <1>1 DEF Collect, testVars, ruleVars
  <2>2. \A id \in Ids : value'[id] = "none" => value[id] = "none"
    BY <1>1 DEF Collect
  <2>3. \A t \in tests : t.id \in Ids
    BY DEF TypeInv, TestsOK
  <2> QED
    BY <2>1, <2>2, <2>3 DEF TestsInv
<1>2. ASSUME NEW p \in Passes, Start(p) \/ Step(p)
      PROVE  UNCHANGED <<tests, used, value>>
  BY <1>2 DEF Start, Step, Snapshot, Skip, Read, Evaluate, EvaluateFails, Finish, Fire, Resolve,
              Confirm, Transit, KeepWaiting, WriteBack, metricVars, testVars, ruleVars
<1>3. ASSUME NEW id \in Ids,
             Create(id) \/ Update(id) \/ Delete(id) \/ Enable(id) \/ Disable(id)
      PROVE  UNCHANGED <<tests, value>> /\ used \subseteq used'
  BY <1>3 DEF Create, Update, Delete, Enable, Disable, SetEnabled, metricVars, testVars
<1>4. ASSUME NEW id \in Ids, TestReads(id)
      PROVE  TestsInv'
  BY <1>4 DEF TestReads, TestsInv, ruleVars, metricVars, TypeInv, FileOK
<1>5. ASSUME NEW t \in tests, TestJudges(t)
      PROVE  TestsInv'
  BY <1>5 DEF TestJudges, TestsInv, ruleVars, metricVars
<1>6. ~Restart
  BY DEF Restart, OnePass
<1>7. Tick \/ UNCHANGED vars => UNCHANGED <<tests, used, value>>
  BY DEF Tick, vars, testVars
<1> QED
  BY <1>1, <1>2, <1>3, <1>4, <1>5, <1>6, <1>7 DEF Next, TestsInv

(* Two ages that grow together keep their order, and an age that has        *)
(* reached its bound stays there.                                           *)
LEMMA OlderMonotone ==
    ASSUME NEW n \in Nat, NEW a \in -1 .. n, NEW b \in -1 .. n
    PROVE  /\ Older(a, n) = -1 <=> a = -1
           /\ a <= b => Older(a, n) <= Older(b, n)
           /\ a >= n => Older(a, n) >= n
BY DEF Older

(* Time changes ages only. *)
LEMMA TickChangesAges ==
    ASSUME TypeInv, Tick
    PROVE  /\ DOMAIN rules' = DOMAIN rules
           /\ \A id \in DOMAIN rules : /\ rules'[id].state = rules[id].state
                                       /\ rules'[id].enabled = rules[id].enabled
           /\ \A p \in Passes :
                 /\ DOMAIN todo'[p] = DOMAIN todo[p]
                 /\ \A id \in DOMAIN todo[p] : todo'[p][id].state = todo[p][id].state
                 /\ pc[p] \in AtWork =>
                       /\ job'[p].id = job[p].id
                       /\ job'[p].rule.state = job[p].rule.state
                       /\ job'[p].seen = job[p].seen
                       /\ job'[p].triggered = job[p].triggered
<1>1. ASSUME NEW list, RulesOK(list)
      PROVE  /\ DOMAIN OlderRules(list) = DOMAIN list
             /\ \A id \in DOMAIN list :
                   /\ OlderRules(list)[id].state = list[id].state
                   /\ OlderRules(list)[id].enabled = list[id].enabled
  BY <1>1 DEF OlderRules, RulesOK, Rule
<1>2. rules' = OlderRules(rules) /\ RulesOK(rules)
  BY DEF Tick, TypeInv
<1>3. \A p \in Passes : todo'[p] = OlderRules(todo[p]) /\ RulesOK(todo[p])
  BY DEF Tick, TypeInv, PassesOK
<1>4. ASSUME NEW p \in Passes, pc[p] \in AtWork
      PROVE  /\ job'[p].id = job[p].id
             /\ job'[p].rule.state = job[p].rule.state
             /\ job'[p].seen = job[p].seen
             /\ job'[p].triggered = job[p].triggered
  <2>1. job[p] \in Job
    BY <1>4, PassTypes
  <2>2. job[p].rule \in Rule
    BY <2>1 DEF Job
  <2>3. job'[p] = IF job[p] = NoJob THEN NoJob
                  ELSE [job[p] EXCEPT !.rule.age = Older(@, Interval[job[p].id])]
    BY DEF Tick
  <2>4. CASE job[p] = NoJob
    BY <2>3, <2>4
  <2>5. CASE job[p] # NoJob
    BY <2>1, <2>2, <2>3, <2>5 DEF Job, Rule
  <2> QED
    BY <2>4, <2>5
<1> QED
  BY <1>1, <1>2, <1>3, <1>4

(* Waits and conditions grow older together. *)
LEMMA TickKeeps ==
    ASSUME OnePass, TypeInv, LifecycleInv, Tick
    PROVE  LifecycleInv'
<1>1. UNCHANGED <<used, misled, value, outstanding, pc>>
  BY DEF Tick, alertVars, testVars
<1>2. \A id \in Ids : /\ pending'[id] = -1 <=> pending[id] = -1
                      /\ highFor'[id] = -1 <=> highFor[id] = -1
                      /\ pending[id] <= highFor[id] => pending'[id] <= highFor'[id]
                      /\ highFor[id] >= Hold[id] => highFor'[id] >= Hold[id]
  <2>1. \A id \in Ids : /\ pending'[id] = Older(pending[id], Hold[id])
                        /\ highFor'[id] = Older(highFor[id], Hold[id])
    BY DEF Tick
  <2>2. \A id \in Ids : /\ Hold[id] \in Nat
                        /\ pending[id] \in -1 .. Hold[id]
                        /\ highFor[id] \in -1 .. Hold[id]
    BY AgeTypes
  <2> QED
    BY <2>1, <2>2, OlderMonotone
<1>3. MetricInv'
  BY <1>1, <1>2 DEF LifecycleInv, MetricInv, Told
<1>4. /\ \A id \in Ids : /\ Mine(id)' <=> Mine(id)
                         /\ Sound(id) => Sound(id)'
                         /\ Clean(id) => Clean(id)'
      /\ \A p \in Passes, id \in Ids : Holding(p, id)' <=> Holding(p, id)
      /\ \A id \in Ids : BeingStored(id)' <=> BeingStored(id)
  BY <1>1, <1>2, TickChangesAges
     DEF Mine, Sound, Clean, Holding, InHand, BeingStored, AtWork
<1>5. StateInv'
  <2>1. \A id \in DOMAIN rules : id \in Ids
    BY DEF TypeInv, RulesOK
  <2>2. ASSUME NEW id \in DOMAIN rules', ~BeingStored(id)'
        PROVE  rules'[id].state = "firing" <=> Told(id)'
    <3>1. id \in DOMAIN rules /\ ~BeingStored(id) /\ rules'[id].state = rules[id].state
      BY <1>4, <2>1, <2>2, TickChangesAges
    <3> QED
      BY <1>1, <3>1 DEF LifecycleInv, StateInv, Told
  <2>3. \A id \in Ids \ used' :
          outstanding'[id] = 0 /\ pending'[id] = -1 /\ \A p \in Passes : ~Holding(p, id)'
    BY <1>1, <1>2, <1>4, TickChangesAges DEF LifecycleInv, StateInv
  <2> QED
    BY <2>2, <2>3 DEF StateInv
<1>6. \A p \in Passes : CopyInv(p)'
  BY <1>1, TickChangesAges DEF LifecycleInv, CopyInv, Told
<1>7. \A p \in Passes : pc[p] \in AtWork => job[p].id \in Ids
  BY PassTypes DEF Job
<1>8. \A p \in Passes : VerdictInv(p)'
  BY <1>1, <1>2, <1>7, TickChangesAges DEF LifecycleInv, VerdictInv, AtWork
<1>9. \A p \in Passes : WaitInv(p)'
  BY <1>1, <1>4, <1>7, TickChangesAges DEF LifecycleInv, WaitInv, AtWork
<1> QED
  BY <1>3, <1>5, <1>6, <1>8, <1>9, Zenon DEF LifecycleInv

-------------------------------------------------------------------------------
(* The steps of one pass, the requests and time keep the invariant. *)
LEMMA LifecycleNext ==
    ASSUME OnePass, TypeInv, LifecycleInv, TestsInv, Next
    PROVE  LifecycleInv'
<1>1. ASSUME NEW p \in Passes, Collect(p) \/ Start(p)
      PROVE  LifecycleInv'
  BY <1>1, CollectKeeps DEF Start, OnePass
<1>2. ASSUME NEW p \in Passes, Step(p)
      PROVE  LifecycleInv'
  <2>1. ASSUME NEW id \in Ids, Skip(p, id)
        PROVE  FALSE
    BY <2>1 DEF Skip, Due, OnePass
  <2>2. ASSUME NEW id \in Ids, Read(p, id)
        PROVE  LifecycleInv'
    BY <2>2, ReadKeeps
  <2> QED
    BY <1>2, <2>1, <2>2, SnapshotKeeps, EvaluateKeeps, EvaluateFailsKeeps, KeepWaitingKeeps,
       UpdateStateKeeps, WriteBackKeeps DEF Step
<1>3. ASSUME NEW id \in Ids, Update(id) \/ Enable(id) \/ Disable(id)
      PROVE  FALSE
  BY <1>3 DEF Update, Enable, Disable, OnePass
<1>4. ASSUME NEW id \in Ids, Create(id) \/ Delete(id) \/ TestReads(id)
      PROVE  LifecycleInv'
  BY <1>4, CreateKeeps, DeleteKeeps, TestReadsKeeps
<1>5. ASSUME NEW t \in tests, TestJudges(t)
      PROVE  LifecycleInv'
  BY <1>5, TestJudgesKeeps
<1>6. ~Restart
  BY DEF Restart, OnePass
<1> QED
  BY <1>1, <1>2, <1>3, <1>4, <1>5, <1>6, TickKeeps DEF Next

LEMMA LifecycleStep ==
    ASSUME OnePass, TypeInv, LifecycleInv, TestsInv, [Next]_vars
    PROVE  LifecycleInv'
<1>1. CASE Next
  BY <1>1, LifecycleNext
<1>2. CASE UNCHANGED vars
  BY <1>2 DEF vars, LifecycleInv, MetricInv, StateInv, CopyInv, WaitInv, VerdictInv, Told,
              BeingStored, Holding, InHand, Mine, Sound, Clean
<1> QED
  BY <1>1, <1>2

(* A step that sends no notice, takes no value and no time and has nothing  *)
(* to do with a test is invisible.                                          *)
LEMMA StepImplements ==
    ASSUME OnePass, TypeInv, LifecycleInv, [Next]_vars
    PROVE  [Lifecycle!Next]_(Lifecycle!vars)
<1>1. ASSUME NEW p \in Passes, Collect(p)
      PROVE  Lifecycle!Observe
  <2>1. PICK seen \in [Ids -> {"low", "high", "failed"}] :
          /\ value' = [id \in Ids |-> IF seen[id] = "failed" THEN value[id] ELSE seen[id]]
          /\ highFor' = [id \in Ids |-> IF value'[id] # "high" THEN -1
                                        ELSE IF value[id] = "high" THEN highFor[id] ELSE 0]
    BY <1>1 DEF Collect
  <2>2. value \in [Ids -> {"none", "low", "high"}] /\ outstanding' = outstanding
    BY <1>1 DEF TypeInv, Collect, alertVars
  <2>3. value' \in [Ids -> {"none", "low", "high"}]
    BY <2>1, <2>2
  <2>4. \A id \in Ids : value'[id] = "none" => value[id] = "none"
    BY <2>1, <2>2
  <2> QED
    BY <1>1, <2>1, <2>2, <2>3, <2>4 DEF Collect, testVars, Lifecycle!Observe
<1>2. ASSUME Tick
      PROVE  Lifecycle!Tick
  <2>1. highFor' = [id \in Ids |-> IF highFor[id] \in 0 .. Hold[id] - 1
                                   THEN highFor[id] + 1 ELSE highFor[id]]
    BY <1>2 DEF Tick, Older
  <2> QED
    BY <1>2, <2>1 DEF Tick, alertVars, testVars, Lifecycle!Tick
<1>3. ASSUME NEW p \in Passes, Fire(p)
      PROVE  Lifecycle!Fire(job[p].id)
  BY <1>3, NoticesOf DEF Fire, Transit, metricVars, testVars, Lifecycle!Fire
<1>4. ASSUME NEW p \in Passes, Resolve(p)
      PROVE  Lifecycle!Resolve(job[p].id)
  BY <1>4, NoticesOf DEF Resolve, Transit, metricVars, testVars, Lifecycle!Resolve
<1>5. ASSUME NEW p \in Passes, Fire(p) \/ Resolve(p)
      PROVE  job[p].id \in Ids
  BY <1>5, NoticesOf DEF Fire, Resolve
<1>6. ASSUME NEW p \in Passes, Evaluate(p)
      PROVE  Lifecycle!Recover(job[p].id) \/ UNCHANGED Lifecycle!vars
  <2>1. job[p].seen = value[job[p].id]
    BY <1>6 DEF Evaluate, LifecycleInv, VerdictInv
  <2> QED
    BY <1>6, <2>1 DEF Evaluate, metricVars, alertVars, Lifecycle!Recover, Lifecycle!vars
<1>7. ASSUME NEW p \in Passes, Evaluate(p)
      PROVE  job[p].id \in Ids
  BY <1>7, PassTypes DEF Evaluate, AtWork, Job
<1>8. ASSUME NEW p \in Passes,
             Start(p) \/ (Step(p) /\ ~Fire(p) /\ ~Resolve(p) /\ ~Evaluate(p))
      PROVE  UNCHANGED Lifecycle!vars
  BY <1>8 DEF Start, Step, Snapshot, Skip, Read, EvaluateFails, Finish, Confirm, Transit,
              KeepWaiting, WriteBack, metricVars, alertVars, testVars, Lifecycle!vars
<1>9. ASSUME NEW id \in Ids,
             \/ Create(id) \/ Update(id) \/ Delete(id) \/ Enable(id) \/ Disable(id)
      PROVE  UNCHANGED Lifecycle!vars
  BY <1>9 DEF Create, Update, Delete, Enable, Disable, SetEnabled, metricVars, alertVars,
              testVars, Lifecycle!vars
<1>10. ASSUME NEW id \in Ids, TestReads(id)
       PROVE  Lifecycle!Ask(id)
  BY <1>10 DEF TestReads, metricVars, alertVars, Lifecycle!Ask
<1>11. ASSUME NEW t \in tests, TestJudges(t)
       PROVE  Lifecycle!Answer(t)
  BY <1>11 DEF TestJudges, metricVars, alertVars, Lifecycle!Answer
<1>12. ~Restart
  BY DEF Restart, OnePass
<1>13. CASE UNCHANGED vars
  BY <1>13 DEF vars, Lifecycle!vars
<1> QED
  BY <1>1, <1>2, <1>3, <1>4, <1>5, <1>6, <1>7, <1>8, <1>9, <1>10, <1>11, <1>12, <1>13
     DEF Next, Lifecycle!Next

(* With one collection pass at a time and no request that edits a stored    *)
(* rule, the evaluator sends for each rule, however it is created, tested   *)
(* and deleted meanwhile, a firing notice and then one resolved notice, in  *)
(* turn.  The first comes after the rule's whole duration only, the second  *)
(* when its condition is not met; a test request that judges an old value   *)
(* late is all that can mislead the evaluator, and only until an evaluation *)
(* finds the condition not met.                                             *)
THEOREM Implementation == ASSUME OnePass PROVE Spec => ImplementsLifecycle
<1>1. Init => TypeInv /\ LifecycleInv /\ TestsInv /\ Lifecycle!Init
  <2>1. Init => TestsInv /\ Lifecycle!Init
    BY DEF Init, TestsInv, Lifecycle!Init
  <2> QED
    BY <2>1, TypeInit, LifecycleInit
<1>2. TypeInv /\ LifecycleInv /\ TestsInv /\ [Next]_vars =>
        TypeInv' /\ LifecycleInv' /\ TestsInv'
  BY TypeNext, LifecycleStep, TestsKept
<1>3. TypeInv /\ LifecycleInv /\ [Next]_vars => [Lifecycle!Next]_(Lifecycle!vars)
  BY StepImplements
<1> QED
  BY <1>1, <1>2, <1>3, PTL DEF Spec, ImplementsLifecycle, Lifecycle!Spec

-------------------------------------------------------------------------------
(* The history. *)

OpenIn(h, id) == { i \in DOMAIN h : h[i].id = id /\ h[i].open }

(* The history has one active firing of the rule, or is full and has        *)
(* dropped it.                                                              *)
Recorded(h, id) ==
    \/ \E i \in OpenIn(h, id) : OpenIn(h, id) = {i}
    \/ OpenIn(h, id) = {} /\ Len(h) = MaxEntries

(* The active firings are those that a firing notice is open for. *)
HistoryInv ==
    \A id \in Ids : IF Told(id) THEN Recorded(history, id) ELSE OpenIn(history, id) = {}

LEMMA HistoryMatches == TypeInv /\ StateInv /\ HistoryInv => ActiveFiringMatchesRules
<1> SUFFICES ASSUME TypeInv, StateInv, HistoryInv, NEW id \in DOMAIN rules, ~BeingStored(id)
             PROVE  IF rules[id].state = "firing"
                    THEN \/ Cardinality(Open(id)) = 1
                         \/ Open(id) = {} /\ Len(history) = MaxEntries
                    ELSE Open(id) = {}
  BY DEF ActiveFiringMatchesRules
<1>1. id \in Ids /\ (rules[id].state = "firing" <=> Told(id))
  BY DEF TypeInv, RulesOK, StateInv
<1>2. Open(id) = OpenIn(history, id)
  BY DEF Open, OpenIn
<1>3. ASSUME NEW i, Open(id) = {i}
      PROVE  Cardinality(Open(id)) = 1
  BY <1>3, FS_Singleton
<1> QED
  BY <1>1, <1>2, <1>3 DEF HistoryInv, Recorded

(* An entry is put at the end, and the first may give way to it. *)
Longer(h, after) ==
    /\ Len(after) = Len(h) + 1
    /\ \A i \in 1 .. Len(h) : after[i] = h[i]

MovedUp(h, after) ==
    /\ Len(after) = Len(h) /\ Len(h) = MaxEntries
    /\ \A i \in 1 .. Len(h) - 1 : after[i] = h[i + 1]

Lists(h) == h \in Seq(Entry) /\ Len(h) \in Nat /\ DOMAIN h = 1 .. Len(h)

LEMMA EntriesAfter ==
    ASSUME NEW h \in Seq(Entry), Len(h) <= MaxEntries, NEW id \in Ids, NEW after,
           after = WithEntry(h, id)
    PROVE  /\ Lists(h) /\ Lists(after)
           /\ Len(after) \in 1 .. MaxEntries
           /\ Longer(h, after) \/ MovedUp(h, after)
           /\ after[Len(after)].id = id /\ after[Len(after)].open
<1> DEFINE entry == [id |-> id, open |-> TRUE]
           added == Append(h, entry)
<1>1. /\ added \in Seq(Entry) /\ Len(added) = Len(h) + 1
      /\ \A i \in 1 .. Len(h) : added[i] = h[i]
      /\ added[Len(h) + 1] = entry
  BY DEF Entry
<1>2. Len(h) \in Nat /\ MaxEntries \in Nat \ {0}
  BY Parameters
<1>3. after = IF Len(added) > MaxEntries THEN Tail(added) ELSE added
  BY DEF WithEntry
<1>4. entry.id = id /\ entry.open
  OBVIOUS
<1> HIDE DEF added, entry
<1>5. CASE Len(added) > MaxEntries
  <2>1. /\ after \in Seq(Entry) /\ Len(after) = Len(h)
        /\ \A i \in 1 .. Len(h) : after[i] = added[i + 1]
    BY <1>1, <1>2, <1>3, <1>5
  <2>2. Len(h) = MaxEntries /\ Len(h) \in 1 .. Len(h)
    BY <1>1, <1>2, <1>5
  <2>3. \A i \in 1 .. Len(h) - 1 : after[i] = h[i + 1]
    <3> TAKE i \in 1 .. Len(h) - 1
    <3>1. i \in 1 .. Len(h) /\ i + 1 \in 1 .. Len(h)
      BY <1>2
    <3> QED
      BY <1>1, <2>1, <3>1
  <2>4. after[Len(after)] = entry
    BY <1>1, <2>1, <2>2
  <2>5. Lists(h) /\ Lists(after)
    BY <1>2, <2>1 DEF Lists
  <2> QED
    BY <1>2, <1>4, <2>1, <2>2, <2>3, <2>4, <2>5 DEF MovedUp
<1>6. CASE ~(Len(added) > MaxEntries)
  <2>1. after = added
    BY <1>3, <1>6
  <2>2. Len(after) \in 1 .. MaxEntries
    BY <1>1, <1>2, <1>6, <2>1
  <2>3. Lists(h) /\ Lists(after)
    BY <1>1, <1>2, <2>1 DEF Lists
  <2> QED
    BY <1>1, <1>4, <2>1, <2>2, <2>3 DEF Longer
<1> QED
  BY <1>5, <1>6

(* The rule's own new entry is its only active firing. *)
LEMMA OwnEntry ==
    ASSUME NEW h \in Seq(Entry), Len(h) <= MaxEntries, NEW id \in Ids, OpenIn(h, id) = {}
    PROVE  Recorded(WithEntry(h, id), id)
<1>1. PICK after : after = WithEntry(h, id)
  OBVIOUS
<1>2. /\ Lists(h) /\ Lists(after)
      /\ Len(after) \in 1 .. MaxEntries
      /\ Longer(h, after) \/ MovedUp(h, after)
      /\ after[Len(after)].id = id /\ after[Len(after)].open
  BY <1>1, EntriesAfter
<1>3. MaxEntries \in Nat
  BY Parameters
<1>4. \A i \in 1 .. Len(h) : ~(h[i].id = id /\ h[i].open)
  BY <1>2 DEF OpenIn, Lists
<1>5. Len(after) \in OpenIn(after, id)
  BY <1>2, <1>3 DEF OpenIn, Lists
<1>6. ASSUME NEW i \in OpenIn(after, id), i # Len(after)
      PROVE  FALSE
  <2>1. i \in 1 .. Len(after) - 1 /\ after[i].id = id /\ after[i].open
    BY <1>2, <1>6 DEF OpenIn, Lists
  <2>2. CASE Longer(h, after)
    BY <1>2, <1>4, <2>1, <2>2 DEF Longer, Lists
  <2>3. CASE MovedUp(h, after)
    <3>1. i + 1 \in 1 .. Len(h) /\ after[i] = h[i + 1]
      BY <1>2, <2>1, <2>3 DEF MovedUp, Lists
    <3> QED
      BY <1>4, <2>1, <3>1
  <2> QED
    BY <1>2, <2>2, <2>3
<1>7. OpenIn(after, id) = {Len(after)}
  BY <1>5, <1>6
<1> QED
  BY <1>1, <1>5, <1>7, Zenon DEF Recorded

(* A set of positions that moved up still has one member at most. *)
LEMMA OneMoved ==
    ASSUME NEW S, NEW T, T \subseteq Int, \A i \in T : i + 1 \in S
    PROVE  /\ S = {} => T = {}
           /\ (\E k \in S : S = {k}) => T = {} \/ \E i \in T : T = {i}
<1>1. ASSUME NEW k \in S, S = {k}, NEW i \in T
      PROVE  T = {i}
  <2>1. \A j \in T : j + 1 = k /\ j \in Int
    BY <1>1
  <2>2. \A j \in T : j = i
    BY <1>1, <2>1
  <2> QED
    BY <2>2
<1> QED
  BY <1>1

(* The firings of the other rules move up, or the oldest is dropped. *)
LEMMA OtherEntry ==
    ASSUME NEW h \in Seq(Entry), Len(h) <= MaxEntries, NEW id \in Ids, NEW other \in Ids \ {id}
    PROVE  /\ OpenIn(h, other) = {} => OpenIn(WithEntry(h, id), other) = {}
           /\ Recorded(h, other) => Recorded(WithEntry(h, id), other)
<1>1. PICK after : after = WithEntry(h, id)
  OBVIOUS
<1>2. /\ Lists(h) /\ Lists(after)
      /\ Len(after) \in 1 .. MaxEntries
      /\ Longer(h, after) \/ MovedUp(h, after)
      /\ after[Len(after)].id = id /\ after[Len(after)].open
  BY <1>1, EntriesAfter
<1>3. MaxEntries \in Nat
  BY Parameters
<1>4. after[Len(after)].id # other
  BY <1>2
<1>5. CASE Longer(h, after)
  <2>1. \A i : i \in OpenIn(after, other) <=> i \in OpenIn(h, other)
    <3> TAKE i
    <3>1. CASE i = Len(after)
      <4>1. i \notin DOMAIN h
        BY <1>2, <1>5, <3>1 DEF Longer, Lists
      <4> QED
        BY <1>4, <3>1, <4>1 DEF OpenIn
    <3>2. CASE i # Len(after)
      <4>1. i \in DOMAIN after <=> i \in DOMAIN h
        BY <1>2, <1>5, <3>2 DEF Longer, Lists
      <4>2. i \in DOMAIN h => after[i] = h[i]
        BY <1>2, <1>5 DEF Longer, Lists
      <4> QED
        BY <4>1, <4>2 DEF OpenIn
    <3> QED
      BY <3>1, <3>2
  <2>2. OpenIn(after, other) = OpenIn(h, other)
    BY <2>1
  <2>3. Len(h) # MaxEntries
    <3>1. Len(after) = Len(h) + 1 /\ Len(h) \in Nat /\ Len(after) <= MaxEntries
      BY <1>2, <1>5 DEF Longer, Lists
    <3> QED
      BY <1>3, <3>1
  <2>4. Recorded(h, other) => \E i \in OpenIn(h, other) : OpenIn(h, other) = {i}
    BY <2>3, Zenon DEF Recorded
  <2>5. Recorded(h, other) => Recorded(after, other)
    <3> SUFFICES ASSUME Recorded(h, other)
                 PROVE  Recorded(after, other)
      OBVIOUS
    <3>1. PICK i \in OpenIn(h, other) : OpenIn(h, other) = {i}
      BY <2>4
    <3>2. i \in OpenIn(after, other) /\ OpenIn(after, other) = {i}
      BY <2>2, <3>1, Zenon
    <3> QED
      BY <3>2, Zenon DEF Recorded
  <2> QED
    BY <1>1, <2>2, <2>5, Zenon
<1>6. CASE MovedUp(h, after)
  <2>1. ASSUME NEW i \in OpenIn(after, other)
        PROVE  i + 1 \in OpenIn(h, other) /\ i \in Int
    <3>1. i \in 1 .. Len(after) /\ after[i].id = other /\ after[i].open
      BY <1>2 DEF OpenIn, Lists
    <3>2. i # Len(after)
      BY <1>4, <3>1
    <3>3. i \in 1 .. Len(h) - 1 /\ i + 1 \in DOMAIN h
      BY <1>2, <1>6, <3>1, <3>2 DEF MovedUp, Lists
    <3>4. after[i] = h[i + 1]
      BY <1>6, <3>3 DEF MovedUp
    <3> QED
      BY <3>1, <3>3, <3>4 DEF OpenIn
  <2>2. /\ OpenIn(h, other) = {} => OpenIn(after, other) = {}
        /\ (\E k \in OpenIn(h, other) : OpenIn(h, other) = {k}) =>
             OpenIn(after, other) = {} \/ \E i \in OpenIn(after, other) : OpenIn(after, other) = {i}
    <3>1. OpenIn(after, other) \subseteq Int
      BY <2>1
    <3> QED
      BY <2>1, <3>1, OneMoved
  <2>3. Len(after) = MaxEntries
    BY <1>6 DEF MovedUp
  <2> QED
    BY <1>1, <2>2, <2>3, Zenon DEF Recorded
<1> QED
  BY <1>2, <1>5, <1>6

(* Closing ends the rule's one active firing and no other's. *)
LEMMA Closing ==
    ASSUME NEW h \in Seq(Entry), NEW id \in Ids, Recorded(h, id)
    PROVE  /\ OpenIn(WithoutEntry(h, id), id) = {}
           /\ \A other \in Ids \ {id} :
                /\ OpenIn(WithoutEntry(h, id), other) = OpenIn(h, other)
                /\ Recorded(h, other) => Recorded(WithoutEntry(h, id), other)
<1> DEFINE after == WithoutEntry(h, id)
<1>1. Len(after) = Len(h) /\ after \in Seq(Entry) /\ DOMAIN after = DOMAIN h
      /\ \A i \in DOMAIN h : h[i] \in Entry /\ i \in Int
  BY WithoutEntryOK
<1>2. CASE OpenIn(h, id) = {}
  <2>1. after = h
    BY <1>2 DEF WithoutEntry, OpenIn
  <2> QED
    BY <1>2, <2>1
<1>3. CASE \E i \in OpenIn(h, id) : OpenIn(h, id) = {i}
  <2>1. PICK i \in OpenIn(h, id) : OpenIn(h, id) = {i}
    BY <1>3
  <2>2. i \in DOMAIN h /\ h[i].id = id /\ i <= i
    BY <1>1, <2>1 DEF OpenIn
  <2>3. (CHOOSE k \in OpenIn(h, id) : \A j \in OpenIn(h, id) : j <= k) = i
    BY <2>1, <2>2
  <2>4. after = [h EXCEPT ![i].open = FALSE]
    BY <2>1, <2>3 DEF WithoutEntry, OpenIn
  <2>5. \A j \in DOMAIN h : after[j] = IF j = i THEN [h[i] EXCEPT !.open = FALSE] ELSE h[j]
    BY <2>2, <2>4
  <2>6. after[i].id = id /\ ~after[i].open
    BY <1>1, <2>2, <2>5 DEF Entry
  <2>7. OpenIn(after, id) = {}
    BY <1>1, <2>1, <2>5, <2>6 DEF OpenIn
  <2>8. \A other \in Ids \ {id} : OpenIn(after, other) = OpenIn(h, other)
    BY <1>1, <2>2, <2>5, <2>6 DEF OpenIn
  <2> QED
    BY <1>1, <2>7, <2>8 DEF Recorded
<1> QED
  BY <1>2, <1>3 DEF Recorded

LEMMA HistoryStep ==
    ASSUME OnePass, TypeInv, LifecycleInv, HistoryInv, [Next]_vars
    PROVE  HistoryInv'
<1>1. history \in Seq(Entry) /\ Len(history) <= MaxEntries /\ DOMAIN outstanding = Ids
  BY DEF TypeInv, AlertsOK
<1>2. ASSUME NEW p \in Passes, Fire(p)
      PROVE  HistoryInv'
  <2> PICK id : id = job[p].id
    OBVIOUS
  <2>1. id \in Ids /\ outstanding[id] = 0 /\ outstanding' = [outstanding EXCEPT ![id] = 1]
        /\ history' = WithEntry(history, id)
    BY <1>2, NoticesOf DEF Fire
  <2>2. OpenIn(history, id) = {}
    BY <2>1 DEF HistoryInv, Told
  <2>3. Told(id)' /\ Recorded(history', id)
    BY <1>1, <2>1, <2>2, OwnEntry DEF Told
  <2>4. ASSUME NEW other \in Ids \ {id}
        PROVE  IF Told(other)' THEN Recorded(history', other) ELSE OpenIn(history', other) = {}
    <3>1. Told(other)' <=> Told(other)
      BY <1>1, <2>1 DEF Told
    <3> QED
      BY <1>1, <2>1, <3>1, OtherEntry DEF HistoryInv
  <2> QED
    BY <2>1, <2>3, <2>4 DEF HistoryInv, Recorded, OpenIn
<1>3. ASSUME NEW p \in Passes, Resolve(p)
      PROVE  HistoryInv'
  <2> PICK id : id = job[p].id
    OBVIOUS
  <2>1. id \in Ids /\ outstanding[id] = 1 /\ outstanding' = [outstanding EXCEPT ![id] = 0]
        /\ history' = WithoutEntry(history, id)
    BY <1>3, NoticesOf DEF Resolve
  <2>2. Recorded(history, id)
    BY <2>1 DEF HistoryInv, Told
  <2>3. ~Told(id)' /\ OpenIn(history', id) = {}
    BY <1>1, <2>1, <2>2, Closing DEF Told
  <2>4. ASSUME NEW other \in Ids \ {id}
        PROVE  IF Told(other)' THEN Recorded(history', other) ELSE OpenIn(history', other) = {}
    <3>1. Told(other)' <=> Told(other)
      BY <1>1, <2>1 DEF Told
    <3> QED
      BY <1>1, <2>1, <2>2, <3>1, Closing DEF HistoryInv
  <2> QED
    BY <2>1, <2>3, <2>4 DEF HistoryInv, Recorded, OpenIn
<1>4. ASSUME UNCHANGED alertVars
      PROVE  HistoryInv'
  BY <1>4 DEF alertVars, HistoryInv, Recorded, OpenIn, Told
<1>5. ASSUME NEW p \in Passes,
             Collect(p) \/ Start(p) \/ (Step(p) /\ ~Fire(p) /\ ~Resolve(p))
      PROVE  UNCHANGED alertVars
  BY <1>5 DEF Collect, Start, Step, Snapshot, Skip, Read, Evaluate, EvaluateFails, Finish,
              Confirm, KeepWaiting, WriteBack
<1>6. ASSUME NEW id \in Ids,
             \/ Create(id) \/ Update(id) \/ Delete(id) \/ Enable(id) \/ Disable(id)
             \/ TestReads(id)
      PROVE  UNCHANGED alertVars
  BY <1>6 DEF Create, Update, Delete, Enable, Disable, SetEnabled, TestReads
<1>7. Tick \/ UNCHANGED vars \/ (\E t \in tests : TestJudges(t)) => UNCHANGED alertVars
  BY DEF Tick, vars, alertVars, TestJudges
<1>8. ~Restart
  BY DEF Restart, OnePass
<1> QED
  BY <1>2, <1>3, <1>4, <1>5, <1>6, <1>7, <1>8 DEF Next

(* With one collection pass at a time and rules that are created, deleted   *)
(* and tested but not edited, GET /api/alerts/history shows one active      *)
(* firing for each firing rule and none for the others, in every state but  *)
(* between the two writes of a transition; a full history may have dropped  *)
(* the entry of a rule that fires still.                                    *)
THEOREM HistoryShowsTheFiring == ASSUME OnePass PROVE Spec => []ActiveFiringMatchesRules
<1>1. Init => TypeInv /\ LifecycleInv /\ TestsInv /\ HistoryInv
  <2>1. Init => HistoryInv /\ TestsInv
    BY DEF Init, HistoryInv, OpenIn, Told, TestsInv
  <2> QED
    BY <2>1, TypeInit, LifecycleInit
<1>2. TypeInv /\ LifecycleInv /\ TestsInv /\ HistoryInv /\ [Next]_vars =>
        TypeInv' /\ LifecycleInv' /\ TestsInv' /\ HistoryInv'
  BY TypeNext, LifecycleStep, TestsKept, HistoryStep
<1>3. TypeInv /\ LifecycleInv /\ HistoryInv => ActiveFiringMatchesRules
  BY HistoryMatches DEF LifecycleInv
<1> QED
  BY <1>1, <1>2, <1>3, PTL DEF Spec
===============================================================================
