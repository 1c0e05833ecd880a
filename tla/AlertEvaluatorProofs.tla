------------------------ MODULE AlertEvaluatorProofs ------------------------
(***************************************************************************)
(* Theorems about AlertEvaluator, for any rules, passes, durations,         *)
(* intervals and requests: types, and rules that stay deleted.              *)
(***************************************************************************)
EXTENDS AlertEvaluator, SequenceTheorems, TLAPS

(* A set of rules, in the storage or in the hands of a pass. *)
RulesOK(list) ==
    /\ DOMAIN list \subseteq Ids
    /\ \A id \in DOMAIN list : list[id] \in Rule /\ list[id].age \in -1 .. Interval[id]

AgesOK(ages) ==
    /\ ages \in [Ids -> Int]
    /\ \A id \in Ids : ages[id] \in -1 .. Hold[id]

Entry == [id : Ids, open : BOOLEAN]

AlertsOK ==
    /\ history \in Seq(Entry)
    /\ Len(history) <= MaxEntries
    /\ outstanding \in [Ids -> -MaxOutstanding .. MaxOutstanding]

AtRest == {"idle", "started", "running"}
AtWork == {"read", "evaluated", "storing"}

GoodJob(j) == j \in Job /\ j.rule.age \in -1 .. Interval[j.id]

JobOK(p) ==
    /\ pc[p] \in AtRest => job[p] = NoJob
    /\ pc[p] \in AtWork => GoodJob(job[p])

PassesOK ==
    /\ pc \in [Passes -> AtRest \cup AtWork]
    /\ DOMAIN todo = Passes
    /\ DOMAIN job = Passes
    /\ \A p \in Passes : RulesOK(todo[p]) /\ JobOK(p)

TestsOK ==
    /\ tests \subseteq [id : Ids, seen : {"low", "high"}]
    /\ misled \subseteq Ids

FileOK ==
    /\ RulesOK(saved)
    /\ DOMAIN rules \cup DOMAIN saved \subseteq used
    /\ used \subseteq Ids
    /\ deleted \subseteq used

(* TypeOK with what a step needs to keep it: a rule is written back with    *)
(* the age its copy had in the hands of a pass, so those ages are bounded.  *)
TypeInv ==
    /\ RulesOK(rules)
    /\ FileOK
    /\ value \in [Ids -> {"none", "low", "high"}]
    /\ AgesOK(highFor)
    /\ AgesOK(pending)
    /\ AlertsOK
    /\ PassesOK
    /\ TestsOK

LEMMA TypeInvImpliesTypeOK == TypeInv => TypeOK
BY DEF TypeInv, TypeOK, RulesOK, FileOK, AgesOK, AlertsOK, PassesOK, TestsOK, JobOK, GoodJob,
       Entry, AtRest, AtWork

-------------------------------------------------------------------------------
(* The operators. *)

(* The numbers among the parameters. *)
LEMMA Parameters ==
    /\ Hold \in [Ids -> Nat]
    /\ Interval \in [Ids -> Nat]
    /\ MaxEntries \in Nat \ {0}
    /\ MaxOutstanding \in Nat \ {0}
BY EvaluatorAssumption, Zenon DEF EvaluatorAssumption

(* An age stays within its bound as time passes. *)
LEMMA OlderBounded ==
    ASSUME NEW n \in Nat, NEW age \in -1 .. n
    PROVE  Older(age, n) \in -1 .. n
BY DEF Older

(* Rules remain rules as time passes. *)
LEMMA OlderRulesOK ==
    ASSUME NEW list, RulesOK(list)
    PROVE  RulesOK(OlderRules(list))
<1>1. SUFFICES ASSUME NEW id \in DOMAIN list
               PROVE  /\ [list[id] EXCEPT !.age = Older(@, Interval[id])] \in Rule
                      /\ [list[id] EXCEPT !.age = Older(@, Interval[id])].age
                            \in -1 .. Interval[id]
  BY DEF RulesOK, OlderRules
<1>2. Interval[id] \in Nat /\ list[id] \in Rule /\ list[id].age \in -1 .. Interval[id]
  BY Parameters DEF RulesOK
<1>3. Older(list[id].age, Interval[id]) \in -1 .. Interval[id]
  BY <1>2, OlderBounded
<1> QED
  BY <1>2, <1>3 DEF Rule

(* The remaining copies of a pass are rules. *)
LEMMA RestrictionOK ==
    ASSUME NEW list, RulesOK(list), NEW S \in SUBSET DOMAIN list
    PROVE  RulesOK([id \in S |-> list[id]])
BY DEF RulesOK

(* A new entry keeps the history within its bound. *)
LEMMA WithEntryOK ==
    ASSUME NEW h \in Seq(Entry), Len(h) <= MaxEntries, NEW id \in Ids
    PROVE  WithEntry(h, id) \in Seq(Entry) /\ Len(WithEntry(h, id)) <= MaxEntries
<1> DEFINE added == Append(h, [id |-> id, open |-> TRUE])
<1>1. added \in Seq(Entry) /\ Len(added) = Len(h) + 1
  BY DEF Entry
<1>2. Tail(added) \in Seq(Entry) /\ Len(Tail(added)) = Len(h)
  BY <1>1
<1>3. MaxEntries \in Nat /\ Len(h) \in Nat
  BY Parameters
<1> HIDE DEF added
<1>4. IF Len(added) > MaxEntries
      THEN Len(Tail(added)) <= MaxEntries ELSE Len(added) <= MaxEntries
  BY <1>1, <1>2, <1>3
<1>5. WithEntry(h, id) = IF Len(added) > MaxEntries THEN Tail(added) ELSE added
  BY DEF WithEntry, added
<1> QED
  BY <1>1, <1>2, <1>4, <1>5

(* Closing an entry changes no more than that entry. *)
LEMMA WithoutEntryOK ==
    ASSUME NEW h \in Seq(Entry), NEW id \in Ids
    PROVE  WithoutEntry(h, id) \in Seq(Entry) /\ Len(WithoutEntry(h, id)) = Len(h)
<1> DEFINE open == { i \in DOMAIN h : h[i].id = id /\ h[i].open }
           last == CHOOSE i \in open : \A j \in open : j <= i
           closed == [h EXCEPT ![last].open = FALSE]
<1>1. closed \in Seq(Entry) /\ Len(closed) = Len(h)
  <2>1. h \in [1 .. Len(h) -> Entry] /\ Len(h) \in Nat
    BY LenProperties
  <2>2. CASE last \in 1 .. Len(h)
    <3>1. [h[last] EXCEPT !.open = FALSE] \in Entry
      BY <2>1, <2>2 DEF Entry
    <3> QED
      BY <2>2, <3>1, ExceptSeq
  <2>3. CASE last \notin 1 .. Len(h)
    BY <2>1, <2>3
  <2> QED
    BY <2>2, <2>3
<1> QED
  BY <1>1 DEF WithoutEntry

(* A wait is absent, new, or what it was. *)
LEMMA PendingAfterOK ==
    ASSUME AgesOK(pending), NEW id \in Ids, NEW seen
    PROVE  AgesOK([pending EXCEPT ![id] = PendingAfter(id, seen)])
<1>1. Hold[id] \in Nat
  BY Parameters
<1>2. PendingAfter(id, seen) \in -1 .. Hold[id]
  BY <1>1 DEF PendingAfter, AgesOK
<1> QED
  BY <1>1, <1>2 DEF AgesOK

-------------------------------------------------------------------------------
(* Types. *)

LEMMA TypeInit == Init => TypeInv
<1> SUFFICES ASSUME Init PROVE TypeInv
  OBVIOUS
<1>1. RulesOK(rules)
  <2>1. PICK stored \in SUBSET Ids :
          rules \in [stored -> [enabled : BOOLEAN, state : {"pending"}, age : {-1}]]
    BY DEF Init
  <2>2. \A id \in DOMAIN rules :
            /\ id \in stored
            /\ rules[id] \in [enabled : BOOLEAN, state : {"pending"}, age : {-1}]
    BY <2>1
  <2>3. DOMAIN rules \subseteq Ids
    BY <2>1
  <2>4. \A id \in DOMAIN rules : Interval[id] \in Nat
    BY <2>3, Parameters
  <2>5. \A id \in DOMAIN rules : rules[id] \in Rule /\ rules[id].age = -1
    <3>1. SUFFICES ASSUME NEW id \in DOMAIN rules
                   PROVE  rules[id] \in Rule /\ rules[id].age = -1
      OBVIOUS
    <3>2. rules[id] \in [enabled : BOOLEAN, state : {"pending"}, age : {-1}]
      BY <2>2
    <3>3. rules[id].age = -1
      BY <3>2
    <3>4. PICK on \in BOOLEAN : rules[id] = [enabled |-> on, state |-> "pending", age |-> -1]
      BY <3>2
    <3> QED
      BY <3>4 DEF Rule, States
  <2> QED
    BY <2>3, <2>4, <2>5 DEF RulesOK
<1>2. AgesOK(highFor) /\ AgesOK(pending)
  BY Parameters DEF Init, AgesOK
<1>3. AlertsOK
  <2>1. history = <<>> /\ history \in Seq(Entry) /\ Len(history) = 0
    BY EmptySeq DEF Init
  <2>2. outstanding \in [Ids -> -MaxOutstanding .. MaxOutstanding]
    BY Parameters DEF Init
  <2> QED
    BY <2>1, <2>2, Parameters DEF AlertsOK
<1>4. PassesOK
  BY DEF Init, PassesOK, RulesOK, JobOK, AtRest, AtWork
<1>5. FileOK /\ TestsOK
  BY <1>1 DEF Init, FileOK, TestsOK, RulesOK
<1> QED
  BY <1>1, <1>2, <1>3, <1>4, <1>5 DEF Init, TypeInv

(* A step of a pass changes its own place, copies and job at most. *)
OnlyPass(p) ==
    /\ pc' \in [Passes -> AtRest \cup AtWork]
    /\ DOMAIN todo' = Passes
    /\ DOMAIN job' = Passes
    /\ \A q \in Passes \ {p} :
          pc'[q] = pc[q] /\ todo'[q] = todo[q] /\ job'[q] = job[q]

LEMMA PassStep ==
    ASSUME PassesOK, NEW p \in Passes, OnlyPass(p), RulesOK(todo'[p]),
           pc'[p] \in AtRest => job'[p] = NoJob,
           pc'[p] \in AtWork => GoodJob(job'[p])
    PROVE  PassesOK'
<1>1. ASSUME NEW q \in Passes
      PROVE  RulesOK(todo[q])' /\ JobOK(q)'
  <2>1. CASE q = p
    BY <2>1 DEF JobOK, GoodJob, RulesOK
  <2>2. CASE q # p
    <3>1. pc'[q] = pc[q] /\ todo'[q] = todo[q] /\ job'[q] = job[q]
      BY <2>2 DEF OnlyPass
    <3> QED
      BY <3>1 DEF PassesOK, JobOK, GoodJob, RulesOK
  <2> QED
    BY <2>1, <2>2
<1> QED
  BY <1>1 DEF PassesOK, OnlyPass

(* The file holds rules that were there, whether a save is done or fails.   *)
LEMMA SavedOK ==
    ASSUME FileOK, RulesOK(rules'), DOMAIN rules' \subseteq used',
           used \subseteq used', used' \subseteq Ids,
           UNCHANGED saved \/ \E done \in BOOLEAN : Save(done),
           deleted' \subseteq used'
    PROVE  FileOK'
<1>1. CASE UNCHANGED saved
  BY <1>1 DEF FileOK, RulesOK
<1>2. ASSUME NEW done \in BOOLEAN, Save(done)
      PROVE  FileOK'
  <2>1. saved' \in {rules', saved, <<>>}
    BY <1>2 DEF Save
  <2>2. CASE saved' = <<>>
    BY <2>2 DEF FileOK, RulesOK
  <2> QED
    BY <2>1, <2>2 DEF FileOK, RulesOK
<1> QED
  BY <1>1, <1>2

(* The steps of a pass.  Most change its own variables only. *)
LEMMA TypePass ==
    ASSUME TypeInv, NEW p \in Passes, Collect(p) \/ Start(p) \/ Step(p)
    PROVE  TypeInv'
<1>0. /\ RulesOK(todo[p]) /\ JobOK(p) /\ pc[p] \in AtRest \cup AtWork
      /\ PassesOK /\ RulesOK(rules) /\ AlertsOK /\ AgesOK(pending)
      /\ DOMAIN todo = Passes /\ DOMAIN job = Passes
  BY DEF TypeInv, PassesOK
<1>1. CASE Collect(p)
  <2>1. value' \in [Ids -> {"none", "low", "high"}]
    BY <1>1 DEF Collect, TypeInv
  <2>2. AgesOK(highFor')
    BY <1>1, Parameters DEF Collect, TypeInv, AgesOK
  <2>3. PassesOK'
    <3>1. OnlyPass(p) /\ pc'[p] = "started" /\ todo'[p] = todo[p] /\ job'[p] = job[p]
          /\ pc[p] = "idle"
      BY <1>0, <1>1 DEF Collect, OnlyPass, PassesOK, AtRest, AtWork
    <3> QED
      BY <1>0, <3>1, PassStep DEF JobOK, AtRest, AtWork
  <2> QED
    BY <1>1, <2>1, <2>2, <2>3 DEF Collect, TypeInv, ruleVars, alertVars, testVars, AlertsOK, FileOK, TestsOK
<1>2. CASE Start(p) \/ Finish(p)
  <2>1. PassesOK'
    <3>1. OnlyPass(p) /\ pc'[p] \in AtRest /\ todo'[p] = todo[p] /\ job'[p] = job[p]
          /\ pc[p] \in AtRest
      BY <1>0, <1>2 DEF Start, Finish, OnlyPass, PassesOK, AtRest, AtWork
    <3> QED
      BY <1>0, <3>1, PassStep DEF JobOK, AtRest, AtWork
  <2> QED
    BY <1>2, <2>1 DEF Start, Finish, TypeInv, ruleVars, metricVars, alertVars, testVars, AlertsOK,
                     FileOK, TestsOK
<1>3. CASE Snapshot(p)
  <2>1. PassesOK'
    <3> DEFINE mine == { id \in DOMAIN rules : /\ rules[id].enabled
                                              /\ Kind[p] \in {"all", Mode[id]} }
    <3>1. OnlyPass(p) /\ pc'[p] = "running" /\ todo'[p] = [id \in mine |-> rules[id]]
          /\ job'[p] = job[p] /\ pc[p] = "started"
      BY <1>0, <1>3 DEF Snapshot, OnlyPass, PassesOK, AtRest, AtWork
    <3>2. RulesOK([id \in mine |-> rules[id]])
      BY <1>0, RestrictionOK
    <3> HIDE DEF mine
    <3> QED
      BY <1>0, <3>1, <3>2, PassStep DEF JobOK, AtRest, AtWork
  <2> QED
    BY <1>3, <2>1 DEF Snapshot, TypeInv, ruleVars, metricVars, alertVars, testVars, AlertsOK,
                     FileOK, TestsOK
<1>4. ASSUME NEW id \in Ids, Skip(p, id)
      PROVE  TypeInv'
  <2>1. RulesOK(Remaining(p, id))
    BY <1>0, RestrictionOK DEF Remaining
  <2>2. PassesOK'
    <3>1. OnlyPass(p) /\ pc'[p] = "running" /\ todo'[p] = Remaining(p, id)
          /\ job'[p] = job[p] /\ pc[p] = "running"
      BY <1>0, <1>4 DEF Skip, OnlyPass, PassesOK, AtRest, AtWork
    <3> QED
      BY <1>0, <2>1, <3>1, PassStep DEF JobOK, AtRest, AtWork
  <2> QED
    BY <1>4, <2>2 DEF Skip, TypeInv, ruleVars, metricVars, alertVars, testVars, AlertsOK,
                     FileOK, TestsOK
<1>5. ASSUME NEW id \in Ids, Read(p, id)
      PROVE  TypeInv'
  <2>1. RulesOK(Remaining(p, id))
    BY <1>0, RestrictionOK DEF Remaining
  <2> DEFINE j == [id |-> id, rule |-> Dated(id, todo[p][id]), seen |-> value[id],
                   triggered |-> FALSE]
  <2>2. Dated(id, todo[p][id]) \in Rule /\ Dated(id, todo[p][id]).age \in -1 .. Interval[id]
    BY <1>0, <1>5, Parameters DEF Read, RulesOK, Dated, Rule
  <2>3. GoodJob(j)
    BY <2>2 DEF GoodJob, Job, TypeInv
  <2> HIDE DEF j
  <2>4. PassesOK'
    <3>1. OnlyPass(p) /\ pc'[p] = "read" /\ todo'[p] = Remaining(p, id) /\ job'[p] = j
      BY <1>0, <1>5 DEF Read, j, OnlyPass, PassesOK, AtRest, AtWork
    <3> QED
      BY <1>0, <2>1, <2>3, <3>1, PassStep DEF AtRest, AtWork
  <2> QED
    BY <1>5, <2>4 DEF Read, TypeInv, ruleVars, metricVars, alertVars, testVars, AlertsOK,
                     FileOK, TestsOK
<1>6. CASE Evaluate(p)
  <2>1. GoodJob(job[p])
    BY <1>0, <1>6 DEF Evaluate, JobOK, AtWork
  <2> DEFINE t == Triggered(job[p].id, job[p].seen)
             j == [job[p] EXCEPT !.triggered = t]
  <2>2. t \in BOOLEAN
    BY DEF Triggered
  <2> HIDE DEF t
  <2>3. GoodJob(j)
    BY <2>1, <2>2 DEF GoodJob, Job
  <2>4. PassesOK'
    <3>1. OnlyPass(p) /\ pc'[p] = "evaluated" /\ todo'[p] = todo[p] /\ job'[p] = j
      BY <1>0, <1>6 DEF Evaluate, t, OnlyPass, PassesOK, AtRest, AtWork
    <3> QED
      BY <1>0, <2>3, <3>1, PassStep DEF AtRest, AtWork
  <2>5. AgesOK(pending')
    BY <1>0, <1>6, <2>1, PendingAfterOK DEF Evaluate, GoodJob, Job
  <2> QED
    BY <1>6, <2>4, <2>5 DEF Evaluate, TypeInv, ruleVars, metricVars, alertVars, testVars, AlertsOK,
                     FileOK, TestsOK
<1>7. CASE EvaluateFails(p) \/ KeepWaiting(p)
  <2>1. PassesOK'
    <3>1. OnlyPass(p) /\ pc'[p] = "running" /\ todo'[p] = todo[p] /\ job'[p] = NoJob
      BY <1>0, <1>7 DEF EvaluateFails, KeepWaiting, OnlyPass, PassesOK, AtRest, AtWork
    <3> QED
      BY <1>0, <3>1, PassStep DEF AtRest, AtWork
  <2> QED
    BY <1>7, <2>1 DEF EvaluateFails, KeepWaiting, TypeInv, ruleVars, metricVars, alertVars, testVars,
                     AlertsOK, FileOK, TestsOK
<1>8. ASSUME NEW state \in States, Enter(p), Transit(p, state), AlertsOK'
      PROVE  TypeInv'
  <2>1. GoodJob(job[p])
    BY <1>0, <1>8 DEF Enter, JobOK, AtWork
  <2> DEFINE j == [job[p] EXCEPT !.rule = WithState(job[p].rule, state)]
  <2>2. GoodJob(j)
    BY <1>8, <2>1 DEF GoodJob, Job, WithState, Rule
  <2>3. PassesOK'
    <3>1. OnlyPass(p) /\ pc'[p] = "storing" /\ todo'[p] = todo[p] /\ job'[p] = j
      BY <1>0, <1>8 DEF Transit, OnlyPass, PassesOK, AtRest, AtWork
    <3> QED
      BY <1>0, <2>2, <3>1, PassStep DEF AtRest, AtWork
  <2> QED
    BY <1>8, <2>3 DEF Transit, TypeInv, ruleVars, metricVars, testVars, FileOK, TestsOK
<1>9. CASE Fire(p)
  <2>1. job[p].id \in Ids
    BY <1>0, <1>9 DEF Fire, Enter, JobOK, AtWork, GoodJob, Job
  <2>2. outstanding' \in [Ids -> -MaxOutstanding .. MaxOutstanding]
    BY <1>0, <1>9, <2>1, Parameters DEF Fire, AlertsOK
  <2>3. AlertsOK'
    BY <1>0, <1>9, <2>1, <2>2, WithEntryOK DEF Fire, AlertsOK
  <2> QED
    BY <1>8, <1>9, <2>3 DEF Fire, States
<1>10. CASE Resolve(p)
  <2>1. job[p].id \in Ids
    BY <1>0, <1>10 DEF Resolve, Enter, JobOK, AtWork, GoodJob, Job
  <2>2. outstanding' \in [Ids -> -MaxOutstanding .. MaxOutstanding]
    BY <1>0, <1>10, <2>1, Parameters DEF Resolve, AlertsOK
  <2>3. AlertsOK'
    BY <1>0, <1>10, <2>1, <2>2, WithoutEntryOK DEF Resolve, AlertsOK
  <2> QED
    BY <1>8, <1>10, <2>3 DEF Resolve, States
<1>11. CASE Confirm(p)
  <2>1. job[p].rule.state \in States
    BY <1>0, <1>11 DEF Confirm, Enter, JobOK, AtWork, GoodJob, Job, Rule
  <2>2. AlertsOK'
    BY <1>0, <1>11 DEF Confirm, alertVars, AlertsOK
  <2> QED
    BY <1>8, <1>11, <2>1, <2>2 DEF Confirm
<1>12. CASE WriteBack(p)
  <2>1. GoodJob(job[p])
    BY <1>0, <1>12 DEF WriteBack, JobOK, AtWork
  <2>2. RulesOK(rules') /\ DOMAIN rules' = DOMAIN rules
    BY <1>0, <1>12, <2>1 DEF WriteBack, Stored, RulesOK, GoodJob, Job
  <2>3. PassesOK'
    <3>1. OnlyPass(p) /\ pc'[p] = "running" /\ todo'[p] = todo[p] /\ job'[p] = NoJob
      BY <1>0, <1>12 DEF WriteBack, OnlyPass, PassesOK, AtRest, AtWork
    <3> QED
      BY <1>0, <3>1, PassStep DEF AtRest, AtWork
  <2>4. FileOK'
    BY <1>12, <2>2, SavedOK DEF WriteBack, TypeInv, FileOK
  <2> QED
    BY <1>12, <2>2, <2>3, <2>4 DEF WriteBack, TypeInv, metricVars, alertVars, testVars, AlertsOK,
                                 TestsOK
<1> QED
  BY <1>1, <1>2, <1>3, <1>4, <1>5, <1>6, <1>7, <1>9, <1>10, <1>11, <1>12 DEF Step

(* Requests, restarts and time. *)
LEMMA TypeRequest ==
    ASSUME TypeInv, NEW id \in Ids,
           \/ Create(id) \/ Update(id) \/ Delete(id)
           \/ Enable(id) \/ Disable(id) \/ TestReads(id)
    PROVE  TypeInv'
<1>0. /\ RulesOK(rules) /\ PassesOK /\ AlertsOK /\ AgesOK(pending) /\ BodyStates \subseteq States
      /\ DOMAIN rules \subseteq used /\ used \subseteq Ids /\ deleted \subseteq used /\ FileOK
  BY EvaluatorAssumption, Zenon DEF EvaluatorAssumption, TypeInv, FileOK, States
<1>1. Interval[id] \in Nat
  BY Parameters
<1>2. ASSUME UNCHANGED <<metricVars, alertVars, passVars, testVars>>, pending' = pending,
             RulesOK(rules'), FileOK'
      PROVE  TypeInv'
  BY <1>0, <1>2 DEF metricVars, alertVars, passVars, testVars, TypeInv, AlertsOK, PassesOK, JobOK,
                    GoodJob, RulesOK, TestsOK
<1>3. CASE Create(id)
  <2>1. RulesOK(rules')
    <3>1. PICK on \in BOOLEAN, state \in BodyStates :
            rules' = [i \in DOMAIN rules \cup {id} |->
                        IF i # id THEN rules[i]
                        ELSE [enabled |-> on, age |-> -1,
                              state |-> IF state = "" THEN "pending" ELSE state]]
      BY <1>3 DEF Create
    <3> DEFINE start == IF state = "" THEN "pending" ELSE state
               new == [enabled |-> on, age |-> -1, state |-> start]
    <3>2. start \in States
      BY <1>0 DEF States
    <3>3. rules' = [i \in DOMAIN rules \cup {id} |-> IF i # id THEN rules[i] ELSE new]
      BY <3>1
    <3> HIDE DEF start
    <3>4. new \in Rule /\ new.age \in -1 .. Interval[id]
      BY <1>1, <3>2 DEF Rule
    <3> HIDE DEF new
    <3> QED
      BY <1>0, <3>3, <3>4 DEF RulesOK
  <2>2. FileOK'
    <3>1. DOMAIN rules' = DOMAIN rules \cup {id} /\ used' = used \cup {id} /\ deleted' = deleted
          /\ \E done \in BOOLEAN : Save(done)
      BY <1>3 DEF Create
    <3> QED
      BY <1>0, <2>1, <3>1, SavedOK
  <2> QED
    BY <1>2, <1>3, <2>1, <2>2 DEF Create
<1>4. CASE Update(id)
  <2>1. RulesOK(rules')
    <3>1. PICK on \in BOOLEAN, state \in BodyStates :
            rules' = [rules EXCEPT ![id] = [enabled |-> on, state |-> state, age |-> -1]]
      BY <1>4 DEF Update
    <3> DEFINE new == [enabled |-> on, state |-> state, age |-> -1]
    <3>2. new \in Rule /\ new.age \in -1 .. Interval[id]
      BY <1>0, <1>1 DEF Rule
    <3> HIDE DEF new
    <3>3. rules' = [rules EXCEPT ![id] = new]
      BY <3>1 DEF new
    <3> QED
      BY <1>0, <3>2, <3>3 DEF RulesOK
  <2>2. FileOK'
    <3>1. /\ DOMAIN rules' \subseteq DOMAIN rules /\ used' = used /\ deleted' \subseteq used
          /\ \E done \in BOOLEAN : Save(done)
      BY <1>0, <1>4 DEF Update
    <3> QED
      BY <1>0, <2>1, <3>1, SavedOK
  <2> QED
    BY <1>2, <1>4, <2>1, <2>2 DEF Update
<1>5. CASE Delete(id)
  <2>1. RulesOK(rules')
    BY <1>0, <1>5 DEF Delete, RulesOK
  <2>2. FileOK'
    <3>1. /\ DOMAIN rules' \subseteq DOMAIN rules /\ used' = used /\ deleted' \subseteq used
          /\ \E done \in BOOLEAN : Save(done)
      BY <1>0, <1>5 DEF Delete
    <3> QED
      BY <1>0, <2>1, <3>1, SavedOK
  <2> QED
    BY <1>2, <1>5, <2>1, <2>2 DEF Delete
<1>6. CASE Enable(id) \/ Disable(id)
  <2>1. RulesOK(rules')
    BY <1>0, <1>6 DEF Enable, Disable, SetEnabled, RulesOK, Rule
  <2>2. FileOK'
    <3>1. /\ DOMAIN rules' \subseteq DOMAIN rules /\ used' = used /\ deleted' \subseteq used
          /\ \E done \in BOOLEAN : Save(done)
      BY <1>0, <1>6 DEF Enable, Disable, SetEnabled
    <3> QED
      BY <1>0, <2>1, <3>1, SavedOK
  <2> QED
    BY <1>2, <1>6, <2>1, <2>2 DEF Enable, Disable, SetEnabled
<1>7. CASE TestReads(id)
  <2>1. [id |-> id, seen |-> value[id]] \in [id : Ids, seen : {"low", "high"}]
    BY <1>7 DEF TestReads, TypeInv
  <2>2. TestsOK'
    BY <1>7, <2>1 DEF TestReads, TypeInv, TestsOK
  <2> QED
    BY <1>0, <1>7, <2>2 DEF TestReads, ruleVars, metricVars, alertVars, passVars, TypeInv, AlertsOK,
                     PassesOK, JobOK, GoodJob, RulesOK, FileOK
<1> QED
  BY <1>3, <1>4, <1>5, <1>6, <1>7

LEMMA TypeTest == ASSUME TypeInv, NEW t \in tests, TestJudges(t) PROVE TypeInv'
<1>1. t.id \in Ids /\ TestsOK'
  BY DEF TestJudges, TypeInv, TestsOK
<1>2. AgesOK(pending')
  BY <1>1, PendingAfterOK DEF TestJudges, TypeInv
<1> QED
  BY <1>1, <1>2 DEF TestJudges, ruleVars, metricVars, alertVars, passVars, TypeInv, AlertsOK,
                    PassesOK, JobOK, GoodJob, RulesOK, FileOK

LEMMA TypeRestart == TypeInv /\ Restart => TypeInv'
<1> SUFFICES ASSUME TypeInv, Restart PROVE TypeInv'
  OBVIOUS
<1>1. AgesOK(highFor') /\ AgesOK(pending')
  BY Parameters DEF Restart, AgesOK
<1>2. AlertsOK'
  <2>1. history' \in Seq(Entry) /\ Len(history') = 0
    BY EmptySeq DEF Restart
  <2> QED
    BY <2>1, Parameters DEF Restart, TypeInv, AlertsOK
<1>3. PassesOK'
  BY DEF Restart, PassesOK, RulesOK, JobOK, AtRest, AtWork
<1>4. value' \in [Ids -> {"none", "low", "high"}]
  BY DEF Restart
<1>5. RulesOK(rules') /\ FileOK' /\ TestsOK'
  BY DEF Restart, TypeInv, FileOK, RulesOK, TestsOK
<1> QED
  BY <1>1, <1>2, <1>3, <1>4, <1>5 DEF Restart, TypeInv

LEMMA TypeTick == TypeInv /\ Tick => TypeInv'
<1> SUFFICES ASSUME TypeInv, Tick PROVE TypeInv'
  OBVIOUS
<1>1. AgesOK(highFor') /\ AgesOK(pending')
  <2>1. \A id \in Ids : /\ Older(highFor[id], Hold[id]) \in -1 .. Hold[id]
                        /\ Older(pending[id], Hold[id]) \in -1 .. Hold[id]
    BY Parameters, OlderBounded DEF TypeInv, AgesOK
  <2> QED
    BY <2>1, Parameters DEF Tick, AgesOK
<1>2. RulesOK(rules') /\ FileOK'
  <2>1. RulesOK(OlderRules(rules)) /\ RulesOK(OlderRules(saved))
    BY OlderRulesOK DEF TypeInv, FileOK
  <2>2. DOMAIN OlderRules(rules) = DOMAIN rules /\ DOMAIN OlderRules(saved) = DOMAIN saved
    BY DEF OlderRules
  <2> QED
    BY <2>1, <2>2 DEF Tick, TypeInv, FileOK, RulesOK
<1>3. PassesOK'
  <2>1. ASSUME NEW p \in Passes
        PROVE  RulesOK(todo'[p])
    BY OlderRulesOK DEF Tick, TypeInv, PassesOK
  <2>2. ASSUME NEW p \in Passes
        PROVE  JobOK(p)'
    <3> DEFINE j == [job[p] EXCEPT !.rule.age = Older(@, Interval[job[p].id])]
    <3>1. ASSUME GoodJob(job[p])
          PROVE  GoodJob(j)
      <4>1. Interval[job[p].id] \in Nat
        BY <3>1, Parameters DEF GoodJob, Job
      <4>2. Older(job[p].rule.age, Interval[job[p].id]) \in -1 .. Interval[job[p].id]
        BY <3>1, <4>1, OlderBounded DEF GoodJob
      <4> QED
        BY <3>1, <4>1, <4>2 DEF GoodJob, Job, Rule
    <3>2. job'[p] = IF job[p] = NoJob THEN NoJob ELSE j
      BY DEF Tick
    <3>3. pc'[p] = pc[p] /\ JobOK(p)
      BY DEF Tick, TypeInv, PassesOK
    <3> HIDE DEF j
    <3> QED
      BY <3>1, <3>2, <3>3 DEF JobOK, GoodJob
  <2> QED
    BY <2>1, <2>2 DEF Tick, TypeInv, PassesOK, RulesOK
<1> QED
  BY <1>1, <1>2, <1>3 DEF Tick, TypeInv, alertVars, testVars, AlertsOK, TestsOK

LEMMA TypeNext == TypeInv /\ [Next]_vars => TypeInv'
<1> SUFFICES ASSUME TypeInv, [Next]_vars PROVE TypeInv'
  OBVIOUS
<1>1. CASE UNCHANGED vars
  BY <1>1 DEF vars, TypeInv, RulesOK, FileOK, AgesOK, AlertsOK, PassesOK, TestsOK, JobOK, GoodJob
<1>2. CASE Next
  BY <1>2, TypePass, TypeRequest, TypeTest, TypeRestart, TypeTick DEF Next
<1> QED
  BY <1>1, <1>2

(* The evaluator's variables keep their types, and every age, rule and      *)
(* history stays within its bound.                                          *)
THEOREM TypeCorrect == Spec => []TypeOK
BY TypeInit, TypeNext, TypeInvImpliesTypeOK, PTL DEF Spec

-------------------------------------------------------------------------------
(* Deleted rules. *)

(* A deletion that was answered as done has reached the file too.           *)
GoneForGood == deleted \cap (DOMAIN rules \cup DOMAIN saved) = {}

(* A rule whose deletion was answered as done never comes back: a pass that *)
(* still holds a copy of it finds it gone, no request brings its id again,  *)
(* and the file that a restart loads does not have it, whatever fails.      *)
THEOREM NoResurrection == Spec => []DeletedStaysDeleted
<1>1. Init => GoneForGood
  BY DEF Init, GoneForGood
<1>2. TypeInv /\ GoneForGood /\ [Next]_vars => GoneForGood'
  <2> SUFFICES ASSUME TypeInv, GoneForGood, [Next]_vars
               PROVE  GoneForGood'
    OBVIOUS
  <2>1. CASE UNCHANGED ruleVars
    BY <2>1 DEF ruleVars, GoneForGood
  <2>2. ASSUME UNCHANGED deleted, DOMAIN rules' \subseteq DOMAIN rules,
               UNCHANGED saved \/ \E done \in BOOLEAN : Save(done)
        PROVE  GoneForGood'
    <3>1. saved' \in {saved, rules', <<>>}
      BY <2>2 DEF Save
    <3>2. DOMAIN saved' \subseteq DOMAIN saved \cup DOMAIN rules
      BY <2>2, <3>1
    <3> QED
      BY <2>2, <3>2 DEF GoneForGood
  <2>3. ASSUME NEW p \in Passes, WriteBack(p)
        PROVE  GoneForGood'
    <3>1. DOMAIN rules' \subseteq DOMAIN rules
      BY <2>3 DEF WriteBack, Stored
    <3> QED
      BY <2>2, <2>3, <3>1 DEF WriteBack
  <2>4. ASSUME NEW id \in Ids, Create(id)
        PROVE  GoneForGood'
    <3>1. DOMAIN rules' = DOMAIN rules \cup {id} /\ id \notin deleted /\ deleted' = deleted
      BY <2>4 DEF Create, TypeInv, FileOK
    <3>2. saved' \in {saved, rules', <<>>}
      BY <2>4 DEF Create, Save
    <3>3. DOMAIN saved' \subseteq DOMAIN saved \cup DOMAIN rules'
      BY <3>2
    <3> QED
      BY <3>1, <3>3 DEF GoneForGood
  <2>5. ASSUME NEW id \in Ids, Update(id) \/ Enable(id) \/ Disable(id)
        PROVE  GoneForGood'
    <3>1. DOMAIN rules' \subseteq DOMAIN rules /\ deleted' = deleted
      BY <2>5 DEF Update, Enable, Disable, SetEnabled
    <3> QED
      BY <2>2, <2>5, <3>1 DEF Update, Enable, Disable, SetEnabled
  <2>6. ASSUME NEW id \in Ids, Delete(id)
        PROVE  GoneForGood'
    <3>1. PICK done \in BOOLEAN :
            Save(done) /\ deleted' = IF done THEN deleted \cup {id} ELSE deleted
      BY <2>6 DEF Delete
    <3>2. DOMAIN rules' = DOMAIN rules \ {id}
      BY <2>6 DEF Delete
    <3>3. CASE done
      <4>1. saved' = rules' /\ deleted' = deleted \cup {id}
        BY <3>1, <3>3 DEF Save
      <4> QED
        BY <4>1, <3>2 DEF GoneForGood
    <3>4. CASE ~done
      <4>1. saved' \in {saved, <<>>} /\ deleted' = deleted
        BY <3>1, <3>4 DEF Save
      <4>2. DOMAIN saved' \subseteq DOMAIN saved
        BY <4>1
      <4> QED
        BY <4>1, <4>2, <3>2 DEF GoneForGood
    <3> QED
      BY <3>1, <3>3, <3>4
  <2>7. CASE Tick
    BY <2>7 DEF Tick, OlderRules, GoneForGood
  <2>8. CASE Restart
    BY <2>8 DEF Restart, GoneForGood
  <2>9. ASSUME NEW p \in Passes,
               Collect(p) \/ Start(p) \/ (Step(p) /\ ~WriteBack(p))
        PROVE  UNCHANGED ruleVars
    BY <2>9 DEF Collect, Start, Step, Snapshot, Skip, Read, Evaluate, EvaluateFails, Finish,
               Fire, Resolve, Confirm, Transit, KeepWaiting
  <2>10. ASSUME NEW id \in Ids, TestReads(id)
         PROVE  UNCHANGED ruleVars
    BY <2>10 DEF TestReads
  <2>11. ASSUME NEW t \in tests, TestJudges(t)
         PROVE  UNCHANGED ruleVars
    BY <2>11 DEF TestJudges
  <2> QED
    BY <2>1, <2>3, <2>4, <2>5, <2>6, <2>7, <2>8, <2>9, <2>10, <2>11 DEF Next, vars, ruleVars
<1>3. GoneForGood => DeletedStaysDeleted
  BY DEF GoneForGood, DeletedStaysDeleted
<1> QED
  BY <1>1, <1>2, <1>3, TypeInit, TypeNext, PTL DEF Spec

===============================================================================
