---------------------------- MODULE AlertEvaluator ----------------------------
(***************************************************************************)
(* alerts.Evaluator: goroutines ("passes") that evaluate the alert rules    *)
(* and the HTTP requests that change the rules underneath them.            *)
(*                                                                         *)
(* A pass takes copies of the enabled rules, reads for one copy after the  *)
(* other the latest metric value, judges it, and for each result enters    *)
(* updateRuleState under evaluator.mu: it decides on a transition by the   *)
(* COPY's state, sends a notice, writes the alert history and finally puts *)
(* the whole copy back into the storage.  Neither the evaluation nor the   *)
(* HTTP handlers hold evaluator.mu.                                        *)
(*                                                                         *)
(* Each collection cycle starts its own pass, the scheduler is one loop,   *)
(* and POST /api/alerts/evaluate runs a pass over the rules of both modes. *)
(* AlertStorageProofs shows ids to be unique, so the rules are a function  *)
(* from ids here.  Every rule watches a metric of its own.  Time advances  *)
(* in ticks; ages are kept only up to the longest that matters.            *)
(*                                                                         *)
(* Every change of the rules is followed by a save of the whole list.  The *)
(* two are one step: AlertStorage shows what comes in between, and that is *)
(* a failed save followed by another one, or by a restart.                 *)
(***************************************************************************)
EXTENDS Integers, Sequences, FiniteSets

CONSTANTS
    Ids,            \* rule ids
    Passes,         \* evaluation goroutines that may run at the same time
    Kind,           \* Kind[p]: "collection", "scheduled" or "all"
    Mode,           \* Mode[id]: the rule's evaluation mode
    Hold,           \* Hold[id]: the threshold's duration in ticks, 0 for none
    Interval,       \* Interval[id]: the evaluation interval in ticks, 0 for none
    Broken,         \* rules whose condition cannot be evaluated
    BodyStates,     \* the "state" fields PUT bodies carry; "" when absent
    Requests,       \* the kinds of HTTP requests and events that happen
    MaxEntries,     \* History.maxEntries
    MaxOutstanding, \* cap on the balance of notices kept per rule
    NoJob           \* a pass has no result in hand

ASSUME EvaluatorAssumption ==
    /\ Kind \in [Passes -> {"collection", "scheduled", "all"}]
    /\ Mode \in [Ids -> {"collection", "scheduled"}]
    /\ Hold \in [Ids -> Nat]
    /\ Interval \in [Ids -> Nat]
    /\ Broken \subseteq Ids
    /\ BodyStates \subseteq {"", "pending", "firing", "resolved"}
    /\ Requests \subseteq {"create", "update", "delete", "enable", "disable",
                           "test", "restart", "failed save"}
    /\ MaxEntries \in Nat \ {0}
    /\ MaxOutstanding \in Nat \ {0}

VARIABLES
    rules,          \* Storage.rules
    saved,          \* what Storage.Load would make of the file
    used,           \* ids that were given; generateID does not give them again
    deleted,        \* ids whose deletion was answered as done
    value,          \* Service.currentValues: is the rule's condition met?
    highFor,        \* for how long it has been met, -1 when it is not
    pending,        \* Evaluator.pendingAlerts: age of the entry, -1 for none
    history,        \* History.entries, oldest first
    outstanding,    \* firing notices sent minus resolved notices sent
    pc,             \* where each pass is
    todo,           \* the copies a pass has still to evaluate
    job,            \* the copy and the result a pass has in hand
    tests,          \* what the test requests under way have read
    misled          \* rules whose wait a test changed by an old value (history)

vars == <<rules, saved, used, deleted, value, highFor, pending, history,
          outstanding, pc, todo, job, tests, misled>>
passVars == <<pc, todo, job>>
testVars == <<tests, misled>>
ruleVars == <<rules, saved, used, deleted>>
metricVars == <<value, highFor>>
alertVars == <<history, outstanding>>

States == {"", "pending", "firing", "resolved"}

(* age: ticks since LastEvaluation, -1 when empty.  It is kept for          *)
(* scheduled rules only: nothing reads it for the others.                   *)
Rule == [enabled : BOOLEAN, state : States, age : Int]

(* The copy in hand, the metric value read for it, and the verdict on it.   *)
Job == [id : Ids, rule : Rule, seen : {"none", "low", "high"}, triggered : BOOLEAN]

-------------------------------------------------------------------------------
(* History. *)

Open(id) == { i \in DOMAIN history : history[i].id = id /\ history[i].open }

(* History.Add: the oldest entries give way, open or not. *)
WithEntry(h, id) ==
    LET added == Append(h, [id |-> id, open |-> TRUE])
    IN  IF Len(added) > MaxEntries THEN Tail(added) ELSE added

(* Faulty: no entry is ever closed. *)
WithoutEntryForgetful(h, id) == h

(* History.UpdateResolved: the newest open entry of the rule is closed. *)
WithoutEntry(h, id) ==
    LET open == { i \in DOMAIN h : h[i].id = id /\ h[i].open }
    IN  IF open = {} THEN h
        ELSE [h EXCEPT ![CHOOSE i \in open : \A j \in open : j <= i].open = FALSE]

-------------------------------------------------------------------------------
(* Evaluating one rule. *)

(* Faulty: a false evaluation leaves the entry in place. *)
PendingKept(id, seen) ==
    IF seen = "high" /\ Hold[id] > 0 /\ pending[id] = -1 THEN 0 ELSE pending[id]

(* Faulty: every true evaluation starts the wait again. *)
PendingRestarted(id, seen) ==
    CASE seen = "high" /\ Hold[id] > 0 -> 0
      [] seen = "low" -> -1
      [] OTHER -> pending[id]

(* evaluateThresholdCondition's bookkeeping: the first true evaluation of a *)
(* rule with a duration is remembered, a false one forgets it.              *)
PendingAfter(id, seen) ==
    CASE seen = "high" /\ Hold[id] > 0 /\ pending[id] = -1 -> 0
      [] seen = "low" -> -1
      [] OTHER -> pending[id]

(* EvaluateRule's verdict: no value yet means not triggered, and a rule     *)
(* with a duration waits until its first true evaluation is old enough.     *)
Triggered(id, seen) ==
    /\ seen = "high"
    /\ Hold[id] > 0 => pending[id] >= Hold[id]

(* EvaluateRule returns an error: the rule's operator, type or window is    *)
(* not one it knows, which it sees only once there is a value.              *)
Fails(id, seen) == id \in Broken /\ seen # "none"

(* Faulty: the interval must be exceeded by a tick that never counts. *)
DueLate(p, id, rule) ==
    Kind[p] = "scheduled" => (rule.age = -1 \/ rule.age > Interval[id])

(* The scheduled loop evaluates a rule at first, and again whenever its     *)
(* positive interval has gone by (ShouldEvaluateNow).                       *)
Due(p, id, rule) ==
    Kind[p] = "scheduled" =>
        \/ rule.age = -1
        \/ Interval[id] > 0 /\ rule.age >= Interval[id]

-------------------------------------------------------------------------------
(* The passes. *)

(* A collection cycle: each metric query succeeds with a new value or       *)
(* fails and leaves the old one, then the cycle starts its own pass.        *)
Collect(p) ==
    /\ Kind[p] = "collection"
    /\ pc[p] = "idle"
    /\ \E seen \in [Ids -> {"low", "high", "failed"}] :
        /\ value' = [id \in Ids |-> IF seen[id] = "failed" THEN value[id]
                                    ELSE seen[id]]
        /\ highFor' = [id \in Ids |-> IF value'[id] # "high" THEN -1
                                      ELSE IF value[id] = "high" THEN highFor[id]
                                      ELSE 0]
    /\ pc' = [pc EXCEPT ![p] = "started"]
    /\ UNCHANGED <<ruleVars, pending, alertVars, todo, job, testVars>>

(* The scheduler's ticker, or POST /api/alerts/evaluate. *)
Start(p) ==
    /\ Kind[p] # "collection"
    /\ pc[p] = "idle"
    /\ pc' = [pc EXCEPT ![p] = "started"]
    /\ UNCHANGED <<ruleVars, metricVars, pending, alertVars, todo, job, testVars>>

(* GetByEvaluationMode or List: copies of the enabled rules. *)
Snapshot(p) ==
    /\ pc[p] = "started"
    /\ LET mine == { id \in DOMAIN rules :
                        /\ rules[id].enabled
                        /\ Kind[p] \in {"all", Mode[id]} }
       IN  todo' = [todo EXCEPT ![p] = [id \in mine |-> rules[id]]]
    /\ pc' = [pc EXCEPT ![p] = "running"]
    /\ UNCHANGED <<ruleVars, metricVars, pending, alertVars, job, testVars>>

Remaining(p, id) == [i \in DOMAIN todo[p] \ {id} |-> todo[p][i]]

(* The scheduled loop passes over a rule that is not due yet. *)
Skip(p, id) ==
    /\ pc[p] = "running"
    /\ id \in DOMAIN todo[p]
    /\ ~Due(p, id, todo[p][id])
    /\ todo' = [todo EXCEPT ![p] = Remaining(p, id)]
    /\ UNCHANGED <<ruleVars, metricVars, pending, alertVars, pc, job, testVars>>

(* LastEvaluation as the evaluation of a rule makes it. *)
Dated(id, rule) ==
    [rule EXCEPT !.age = IF Mode[id] = "scheduled" THEN 0 ELSE -1]

(* EvaluateRule asks the service for the metric's latest value. *)
Read(p, id) ==
    /\ pc[p] = "running"
    /\ id \in DOMAIN todo[p]
    /\ Due(p, id, todo[p][id])
    /\ job' = [job EXCEPT ![p] = [id |-> id, rule |-> Dated(id, todo[p][id]),
                                  seen |-> value[id], triggered |-> FALSE]]
    /\ todo' = [todo EXCEPT ![p] = Remaining(p, id)]
    /\ pc' = [pc EXCEPT ![p] = "read"]
    /\ UNCHANGED <<ruleVars, metricVars, pending, alertVars, testVars>>

(* EvaluateRule judges the value it read, without any lock. *)
Evaluate(p) ==
    /\ pc[p] = "read"
    /\ LET id == job[p].id
           seen == job[p].seen
       IN  /\ ~Fails(id, seen)
           /\ pending' = [pending EXCEPT ![id] = PendingAfter(id, seen)]
           /\ job' = [job EXCEPT ![p].triggered = Triggered(id, seen)]
           /\ misled' = IF seen = "low" THEN misled \ {id} ELSE misled
    /\ pc' = [pc EXCEPT ![p] = "evaluated"]
    /\ UNCHANGED <<ruleVars, metricVars, alertVars, todo, tests>>

(* An evaluation error is logged and the loop goes on. *)
EvaluateFails(p) ==
    /\ pc[p] = "read"
    /\ Fails(job[p].id, job[p].seen)
    /\ job' = [job EXCEPT ![p] = NoJob]
    /\ pc' = [pc EXCEPT ![p] = "running"]
    /\ UNCHANGED <<ruleVars, metricVars, pending, alertVars, todo, testVars>>

Finish(p) ==
    /\ pc[p] = "running"
    /\ DOMAIN todo[p] = {}
    /\ pc' = [pc EXCEPT ![p] = "idle"]
    /\ UNCHANGED <<ruleVars, metricVars, pending, alertVars, todo, job, testVars>>

(* updateRuleState may begin: evaluator.mu is free. *)
Enter(p) ==
    /\ pc[p] = "evaluated"
    /\ \A q \in Passes : pc[q] # "storing"

(* Faulty: the new state is named differently. *)
WithStateRenamed(rule, state) ==
    [rule EXCEPT !.state = IF state = "resolved" THEN "ok" ELSE state]

WithState(rule, state) == [rule EXCEPT !.state = state]

(* The transition is decided; the copy with its new state is stored next. *)
Transit(p, state) ==
    /\ job' = [job EXCEPT ![p].rule = WithState(@, state)]
    /\ pc' = [pc EXCEPT ![p] = "storing"]
    /\ UNCHANGED <<ruleVars, metricVars, pending, todo, testVars>>

(* pending -> firing: a firing notice (failures are only logged) and a new  *)
(* history entry.                                                           *)
Fire(p) ==
    /\ Enter(p)
    /\ LET id == job[p].id
       IN  /\ job[p].triggered /\ job[p].rule.state # "firing"
           /\ history' = WithEntry(history, id)
           /\ outstanding' = [outstanding EXCEPT ![id] =
                                 IF @ < MaxOutstanding THEN @ + 1 ELSE @]
    /\ Transit(p, "firing")

(* firing -> resolved: a resolved notice, and the history entry is closed. *)
Resolve(p) ==
    /\ Enter(p)
    /\ LET id == job[p].id
       IN  /\ ~job[p].triggered /\ job[p].rule.state = "firing"
           /\ pending[id] = -1
           /\ history' = WithoutEntry(history, id)
           /\ outstanding' = [outstanding EXCEPT ![id] =
                                 IF @ > -MaxOutstanding THEN @ - 1 ELSE @]
    /\ Transit(p, "resolved")

(* The copy's state agrees with the result: only LastEvaluation is new. *)
Confirm(p) ==
    /\ Enter(p)
    /\ job[p].triggered <=> job[p].rule.state = "firing"
    /\ Transit(p, job[p].rule.state)
    /\ UNCHANGED alertVars

(* The rule is waiting for its duration: it stays firing, nothing is stored. *)
KeepWaiting(p) ==
    /\ Enter(p)
    /\ ~job[p].triggered /\ job[p].rule.state = "firing"
    /\ pending[job[p].id] # -1
    /\ job' = [job EXCEPT ![p] = NoJob]
    /\ pc' = [pc EXCEPT ![p] = "running"]
    /\ UNCHANGED <<ruleVars, metricVars, pending, alertVars, todo, testVars>>

(* Faulty: a rule that is not found is stored all the same. *)
StoredUpsert(id, rule) ==
    [i \in DOMAIN rules \cup {id} |-> IF i = id THEN rule ELSE rules[i]]

(* Storage.Update replaces the whole rule, and fails if it is gone. *)
Stored(id, rule) ==
    IF id \in DOMAIN rules THEN [rules EXCEPT ![id] = rule] ELSE rules

(* Storage.Save: the file holds the new list; where the disk may fail, the  *)
(* old one or, truncated, none.                                            *)
Save(done) ==
    IF done THEN saved' = rules'
    ELSE "failed save" \in Requests /\ saved' \in {saved, <<>>}

(* The copy goes back into the storage, which is saved unless the rule is   *)
(* gone, and evaluator.mu is released.                                      *)
WriteBack(p) ==
    /\ pc[p] = "storing"
    /\ rules' = Stored(job[p].id, job[p].rule)
    /\ IF job[p].id \in DOMAIN rules THEN \E done \in BOOLEAN : Save(done)
       ELSE UNCHANGED saved
    /\ job' = [job EXCEPT ![p] = NoJob]
    /\ pc' = [pc EXCEPT ![p] = "running"]
    /\ UNCHANGED <<used, deleted, metricVars, pending, alertVars, todo, testVars>>

-------------------------------------------------------------------------------
(* HTTP requests and the environment. *)

(* POST /api/alerts: a state that the body leaves out becomes "pending". *)
Create(id) ==
    /\ "create" \in Requests
    /\ id \notin used
    /\ \E on \in BOOLEAN, state \in BodyStates :
        rules' = [i \in DOMAIN rules \cup {id} |->
                    IF i # id THEN rules[i]
                    ELSE [enabled |-> on, age |-> -1,
                          state |-> IF state = "" THEN "pending" ELSE state]]
    /\ \E done \in BOOLEAN : Save(done)
    /\ used' = used \cup {id}
    /\ UNCHANGED <<deleted, metricVars, pending, alertVars, passVars, testVars>>

(* PUT /api/alerts/:id: the body replaces the whole rule, state included. *)
Update(id) ==
    /\ "update" \in Requests
    /\ id \in DOMAIN rules
    /\ \E on \in BOOLEAN, state \in BodyStates :
        rules' = [rules EXCEPT ![id] = [enabled |-> on, state |-> state, age |-> -1]]
    /\ \E done \in BOOLEAN : Save(done)
    /\ UNCHANGED <<used, deleted, metricVars, pending, alertVars, passVars, testVars>>

(* DELETE /api/alerts/:id: answered 500 when the save failed. *)
Delete(id) ==
    /\ "delete" \in Requests
    /\ id \in DOMAIN rules
    /\ rules' = [i \in DOMAIN rules \ {id} |-> rules[i]]
    /\ \E done \in BOOLEAN :
          /\ Save(done)
          /\ deleted' = IF done THEN deleted \cup {id} ELSE deleted
    /\ UNCHANGED <<used, metricVars, pending, alertVars, passVars, testVars>>

SetEnabled(id, on) ==
    /\ id \in DOMAIN rules
    /\ rules' = [rules EXCEPT ![id].enabled = on]
    /\ \E done \in BOOLEAN : Save(done)
    /\ UNCHANGED <<used, deleted, metricVars, pending, alertVars, passVars, testVars>>

(* POST /api/alerts/:id/enable *)
Enable(id) == "enable" \in Requests /\ SetEnabled(id, TRUE)

(* POST /api/alerts/:id/disable *)
Disable(id) == "disable" \in Requests /\ SetEnabled(id, FALSE)

(* POST /api/alerts/:id/test: an EvaluateRule of its own, enabled or not,   *)
(* reads the value.  Without one, or for a rule that cannot be evaluated,   *)
(* it ends there.  Tests that read the same are counted as one.             *)
TestReads(id) ==
    /\ "test" \in Requests
    /\ id \in DOMAIN rules \ Broken
    /\ value[id] # "none"
    /\ tests' = tests \cup {[id |-> id, seen |-> value[id]]}
    /\ UNCHANGED <<ruleVars, metricVars, pending, alertVars, passVars, misled>>

(* Later it judges what it read: the wait changes, whatever the value is    *)
(* by then and whatever a pass has made of it.                              *)
TestJudges(t) ==
    /\ t \in tests
    /\ pending' = [pending EXCEPT ![t.id] = PendingAfter(t.id, t.seen)]
    /\ misled' = IF t.seen = value[t.id] THEN misled ELSE misled \cup {t.id}
    /\ tests' = tests \ {t}
    /\ UNCHANGED <<ruleVars, metricVars, alertVars, passVars>>

(* The process ends, on a signal or on the runtime's concurrent map access  *)
(* error, and starts again: rules come from the file, all else is gone.     *)
Restart ==
    /\ "restart" \in Requests
    /\ value' = [id \in Ids |-> "none"]
    /\ highFor' = [id \in Ids |-> -1]
    /\ pending' = [id \in Ids |-> -1]
    /\ history' = <<>>
    /\ pc' = [p \in Passes |-> "idle"]
    /\ todo' = [p \in Passes |-> <<>>]
    /\ job' = [p \in Passes |-> NoJob]
    /\ rules' = saved
    /\ tests' = {}
    /\ misled' = {}
    /\ UNCHANGED <<saved, used, deleted, outstanding>>

(* One tick later; an age that is not running stays -1. *)
Older(age, longest) == IF age \in 0 .. longest - 1 THEN age + 1 ELSE age

OlderRules(list) ==
    [id \in DOMAIN list |-> [list[id] EXCEPT !.age = Older(@, Interval[id])]]

Tick ==
    /\ highFor' = [id \in Ids |-> Older(highFor[id], Hold[id])]
    /\ pending' = [id \in Ids |-> Older(pending[id], Hold[id])]
    /\ rules' = OlderRules(rules)
    /\ saved' = OlderRules(saved)
    /\ todo' = [p \in Passes |-> OlderRules(todo[p])]
    /\ job' = [p \in Passes |-> IF job[p] = NoJob THEN NoJob
                                ELSE [job[p] EXCEPT !.rule.age =
                                         Older(@, Interval[job[p].id])]]
    /\ UNCHANGED <<used, deleted, value, alertVars, pc, testVars>>

-------------------------------------------------------------------------------
Init ==
    /\ \E stored \in SUBSET Ids :
          rules \in [stored -> [enabled : BOOLEAN, state : {"pending"}, age : {-1}]]
    /\ saved = rules
    /\ used = DOMAIN rules
    /\ deleted = {}
    /\ value = [id \in Ids |-> "none"]
    /\ highFor = [id \in Ids |-> -1]
    /\ pending = [id \in Ids |-> -1]
    /\ history = <<>>
    /\ outstanding = [id \in Ids |-> 0]
    /\ pc = [p \in Passes |-> "idle"]
    /\ todo = [p \in Passes |-> <<>>]
    /\ job = [p \in Passes |-> NoJob]
    /\ tests = {}
    /\ misled = {}

(* What a pass does once it is running; nothing here waits for the outside. *)
Step(p) ==
    \/ Snapshot(p)
    \/ \E id \in Ids : Skip(p, id) \/ Read(p, id)
    \/ Evaluate(p)
    \/ EvaluateFails(p)
    \/ Finish(p)
    \/ Fire(p)
    \/ Resolve(p)
    \/ Confirm(p)
    \/ KeepWaiting(p)
    \/ WriteBack(p)

Next ==
    \/ \E p \in Passes : Collect(p) \/ Start(p) \/ Step(p)
    \/ \E id \in Ids :
        \/ Create(id)
        \/ Update(id)
        \/ Delete(id)
        \/ Enable(id)
        \/ Disable(id)
        \/ TestReads(id)
    \/ \E t \in tests : TestJudges(t)
    \/ Restart
    \/ Tick

Spec == Init /\ [][Next]_vars

(* Go runs every goroutine, evaluator.mu starves nobody, the tickers of the *)
(* collection and of the scheduler keep firing, and time goes on.           *)
Fairness ==
    /\ \A p \in Passes : SF_vars(Step(p))
    /\ \A p \in Passes :
        /\ WF_vars(Collect(p))
        /\ Kind[p] = "scheduled" => WF_vars(Start(p))
    /\ WF_vars(Tick)

FairSpec == Spec /\ Fairness

-------------------------------------------------------------------------------
(* The types of the evaluator's variables; the ages stop at their bounds. *)
TypeOK ==
    /\ DOMAIN rules \cup DOMAIN saved \subseteq used /\ used \subseteq Ids
    /\ \A id \in DOMAIN rules : rules[id] \in Rule /\ rules[id].age \in -1 .. Interval[id]
    /\ \A id \in DOMAIN saved : saved[id] \in Rule /\ saved[id].age \in -1 .. Interval[id]
    /\ deleted \subseteq used
    /\ value \in [Ids -> {"none", "low", "high"}]
    /\ highFor \in [Ids -> Int]
    /\ \A id \in Ids : highFor[id] \in -1 .. Hold[id]
    /\ pending \in [Ids -> Int]
    /\ \A id \in Ids : pending[id] \in -1 .. Hold[id]
    /\ history \in Seq([id : Ids, open : BOOLEAN])
    /\ Len(history) <= MaxEntries
    /\ outstanding \in [Ids -> -MaxOutstanding .. MaxOutstanding]
    /\ pc \in [Passes -> {"idle", "started", "running", "read", "evaluated", "storing"}]
    /\ \A p \in Passes :
          /\ DOMAIN todo[p] \subseteq Ids
          /\ \A id \in DOMAIN todo[p] : todo[p][id] \in Rule
          /\ pc[p] \in {"idle", "started", "running"} => job[p] = NoJob
          /\ pc[p] \in {"read", "evaluated", "storing"} => job[p] \in Job
    /\ tests \subseteq [id : Ids, seen : {"low", "high"}]
    /\ misled \subseteq Ids

(* A rule whose deletion was answered as done never comes back, whatever    *)
(* copy of it a pass still holds then, and whatever fails or restarts later.*)
DeletedStaysDeleted == deleted \cap DOMAIN rules = {}

(* A pass has written the history of a rule and not yet its state. *)
BeingStored(id) == \E p \in Passes : pc[p] = "storing" /\ job[p].id = id

(* The history shows one active firing for each firing rule and none for    *)
(* the others; only an entry that a full history has dropped is missing.    *)
ActiveFiringMatchesRules ==
    \A id \in DOMAIN rules :
        ~BeingStored(id) =>
            IF rules[id].state = "firing"
            THEN \/ Cardinality(Open(id)) = 1
                 \/ Open(id) = {} /\ Len(history) = MaxEntries
            ELSE Open(id) = {}

(* Only an enable or an update request enables a rule: no evaluation undoes *)
(* a disable request.                                                       *)
DisableSticks ==
    [][ \A p \in Passes : WriteBack(p) =>
            \A id \in DOMAIN rules : rules'[id].enabled => rules[id].enabled ]_vars

Lifecycle == INSTANCE AlertLifecycle WITH told <- outstanding

(* What the evaluator promises of each rule's notices, in every order of    *)
(* collections, evaluations, ticks and requests.                            *)
ImplementsLifecycle == Lifecycle!Spec

(* A rule is watched: stored, enabled, and its condition can be evaluated. *)
Watched(id) == id \in DOMAIN rules /\ rules[id].enabled /\ id \notin Broken

Firing(id) == id \in DOMAIN rules /\ rules[id].state = "firing"

(* A condition that stays met makes its rule fire and keeps it firing,      *)
(* however the passes overlap and whatever earlier values they still hold.  *)
HighFires ==
    \A id \in Ids :
        <>[](Watched(id) /\ value[id] = "high") => <>[]Firing(id)

(* A condition that stays unmet makes its rule leave the firing state. *)
LowResolves ==
    \A id \in Ids :
        <>[](Watched(id) /\ value[id] = "low") => <>[]~Firing(id)

===============================================================================
