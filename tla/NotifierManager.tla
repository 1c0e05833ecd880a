---------------------------- MODULE NotifierManager ----------------------------
(***************************************************************************)
(* notifier.Manager: the evaluator hands firing alerts to a goroutine       *)
(* through a channel of limited capacity; the goroutine gathers them into   *)
(* groups and, at every tick of its ticker, notifies the groups that are    *)
(* due, holding manager.mu while it talks to the channels.  Resolved alerts *)
(* take manager.mu for a moment and are sent by the evaluator itself.       *)
(*                                                                         *)
(* evaluator.mu lets one alert at a time through, so there is one sender.   *)
(* A group is the alerts of one rule name and severity.  Of the alerts of a *)
(* group only their number counts: the first one stands for all of them in  *)
(* every notice.  Channel failures are logged and change nothing.           *)
(***************************************************************************)
EXTENDS Integers, Sequences, FiniteSets

CONSTANTS
    Rules,          \* the rules that fire
    Groups,         \* group keys
    GroupOf,        \* calculateGroupKey
    Capacity,       \* of alertChan
    GroupWait,      \* ticks before the first notice of a group
    GroupInterval,  \* ticks between two checks of the groups
    RepeatInterval, \* ticks between two notices of a group, 0 for never
    MaxAlerts,      \* cap on the alerts sent per group
    CanStop         \* whether Stop is called; main.go never does

ASSUME NotifierAssumption ==
    /\ GroupOf \in [Rules -> Groups]
    /\ Capacity \in Nat \ {0}
    /\ GroupWait \in Nat
    /\ GroupInterval \in Nat \ {0}
    /\ RepeatInterval \in Nat
    /\ MaxAlerts \in Nat
    /\ CanStop \in BOOLEAN

VARIABLES
    sender,         \* the evaluator inside SendAlert or SendResolved
    sent,           \* sent[g]: alerts of the group given to SendAlert so far
    alertChan,      \* Manager.alertChan: the groups of the alerts in it
    groups,         \* Manager.pendingAlerts
    alertHistory,   \* Manager.alertHistory: the ids in it
    loop,           \* processAlerts: "select", "checking" or "stopped"
    due,            \* the groups checkPendingAlerts has still to look at
    sinceCheck,     \* ticks since that check began
    clock,          \* ticks since the ticker last fired
    ticked,         \* a tick waits in ticker.C
    stopped         \* Manager.ctx is done

vars == <<sender, sent, alertChan, groups, alertHistory, loop, due, sinceCheck,
          clock, ticked, stopped>>
timeVars == <<sinceCheck, clock, ticked>>

Idle == [at |-> "idle"]

(* A PendingAlert: its number of alerts, the ticks since FirstSeen, whether *)
(* it was notified, the ticks since then, and how many alerts it had then.  *)
Group == [count : Nat, age : Nat, notified : BOOLEAN, since : Nat, covered : Nat]

Least(a, b) == IF a < b THEN a ELSE b

-------------------------------------------------------------------------------
(* The evaluator. *)

(* It calls SendAlert or SendResolved. *)
Call(rule, at) ==
    /\ sender = Idle
    /\ sender' = [at |-> at, rule |-> rule]
    /\ UNCHANGED <<alertChan, groups, alertHistory, loop, due, timeVars, stopped>>

Fire(rule) ==
    /\ sent[GroupOf[rule]] < MaxAlerts
    /\ Call(rule, "sending")
    /\ sent' = [sent EXCEPT ![GroupOf[rule]] = @ + 1]

Resolve(rule) == Call(rule, "clearing") /\ UNCHANGED sent

(* Faulty: the channel takes alerts without limit. *)
EnqueueUnbounded ==
    /\ sender.at = "sending"
    /\ alertChan' = Append(alertChan, sender.rule)
    /\ sender' = Idle
    /\ UNCHANGED <<sent, groups, alertHistory, loop, due, timeVars, stopped>>

(* SendAlert: the alert enters the channel once there is room. *)
Enqueue ==
    /\ sender.at = "sending"
    /\ Len(alertChan) < Capacity
    /\ alertChan' = Append(alertChan, sender.rule)
    /\ sender' = Idle
    /\ UNCHANGED <<sent, groups, alertHistory, loop, due, timeVars, stopped>>

(* Faulty: SendAlert waits for the channel alone. *)
RefuseNever == FALSE

(* SendAlert gives up: the manager is stopped. *)
Refuse ==
    /\ sender.at = "sending"
    /\ stopped
    /\ sender' = Idle
    /\ sent' = [sent EXCEPT ![GroupOf[sender.rule]] = @ - 1]
    /\ UNCHANGED <<alertChan, groups, alertHistory, loop, due, timeVars, stopped>>

(* manager.mu is free: the loop holds it for as long as a check takes. *)
MuFree == loop # "checking"

(* SendResolved forgets the rule under manager.mu ... *)
Clear ==
    /\ sender.at = "clearing"
    /\ MuFree
    /\ alertHistory' = alertHistory \ {sender.rule}
    /\ sender' = [sender EXCEPT !.at = "resolving"]
    /\ UNCHANGED <<sent, alertChan, groups, loop, due, timeVars, stopped>>

(* ... and sends the resolved notice outside of it. *)
Resolved ==
    /\ sender.at = "resolving"
    /\ sender' = Idle
    /\ UNCHANGED <<sent, alertChan, groups, alertHistory, loop, due, timeVars, stopped>>

-------------------------------------------------------------------------------
(* processAlerts. *)

NewGroup == [count |-> 1, age |-> 0, notified |-> FALSE, since |-> 0, covered |-> 0]

(* Faulty: an alert of a known group starts the group afresh. *)
GroupsWithRestarted(g) ==
    [k \in DOMAIN groups \cup {g} |-> IF k = g THEN NewGroup ELSE groups[k]]

(* The groups with one more alert in group g. *)
GroupsWith(g) ==
    IF g \in DOMAIN groups THEN [groups EXCEPT ![g].count = @ + 1]
    ELSE [k \in DOMAIN groups \cup {g} |-> IF k = g THEN NewGroup ELSE groups[k]]

(* handleIncomingAlert; manager.mu is free, as the loop itself is the only  *)
(* one to hold it for long.                                                 *)
Receive ==
    /\ loop = "select"
    /\ alertChan # <<>>
    /\ LET rule == Head(alertChan)
       IN  /\ groups' = GroupsWith(GroupOf[rule])
           /\ alertHistory' = IF GroupOf[rule] \in DOMAIN groups THEN alertHistory
                              ELSE alertHistory \cup {rule}
    /\ alertChan' = Tail(alertChan)
    /\ UNCHANGED <<sender, sent, loop, due, timeVars, stopped>>

(* Faulty: a group that was notified once is never looked at again. *)
ShouldSendOnce(g) == ~groups[g].notified /\ due[g].age >= GroupWait

(* A group is due: its first wait is over, or its repeat interval is.       *)
ShouldSend(g) ==
    \/ ~groups[g].notified /\ due[g].age >= GroupWait
    \/ groups[g].notified /\ RepeatInterval > 0 /\ due[g].since >= RepeatInterval

(* checkPendingAlerts reads the clock and starts on the groups. *)
Check ==
    /\ loop = "select"
    /\ ticked
    /\ ticked' = FALSE
    /\ loop' = "checking"
    /\ due' = groups
    /\ sinceCheck' = 0
    /\ UNCHANGED <<sender, sent, alertChan, groups, alertHistory, clock, stopped>>

DueWithout(g) == [k \in DOMAIN due \ {g} |-> due[k]]

(* sendGroupNotification: the group counts as notified when the check began. *)
Notify(g) ==
    /\ loop = "checking"
    /\ g \in DOMAIN due
    /\ ShouldSend(g)
    /\ groups' = [groups EXCEPT ![g].notified = TRUE,
                                ![g].since = Least(sinceCheck, RepeatInterval),
                                ![g].covered = groups[g].count]
    /\ due' = DueWithout(g)
    /\ UNCHANGED <<sender, sent, alertChan, alertHistory, loop, timeVars, stopped>>

Pass(g) ==
    /\ loop = "checking"
    /\ g \in DOMAIN due
    /\ ~ShouldSend(g)
    /\ due' = DueWithout(g)
    /\ UNCHANGED <<sender, sent, alertChan, groups, alertHistory, loop, timeVars,
                   stopped>>

EndCheck ==
    /\ loop = "checking"
    /\ DOMAIN due = {}
    /\ loop' = "select"
    /\ sinceCheck' = 0
    /\ UNCHANGED <<sender, sent, alertChan, groups, alertHistory, due, clock, ticked,
                   stopped>>

(* ctx.Done: the loop ends; whatever is in the channel stays there. *)
Leave ==
    /\ loop = "select"
    /\ stopped
    /\ loop' = "stopped"
    /\ UNCHANGED <<sender, sent, alertChan, groups, alertHistory, due, timeVars, stopped>>

-------------------------------------------------------------------------------
Stop ==
    /\ CanStop
    /\ ~stopped
    /\ stopped' = TRUE
    /\ UNCHANGED <<sender, sent, alertChan, groups, alertHistory, loop, due, timeVars>>

(* One tick later.  The ticker keeps one tick for a loop that is busy. *)
Tick ==
    /\ clock' = (clock + 1) % GroupInterval
    /\ ticked' = (ticked \/ clock' = 0)
    /\ sinceCheck' = IF loop = "checking" THEN Least(sinceCheck + 1, RepeatInterval) ELSE 0
    /\ groups' = [g \in DOMAIN groups |->
                    [groups[g] EXCEPT !.age = Least(@ + 1, GroupWait),
                                      !.since = IF groups[g].notified
                                                THEN Least(@ + 1, RepeatInterval) ELSE 0]]
    /\ UNCHANGED <<sender, sent, alertChan, alertHistory, loop, due, stopped>>

Init ==
    /\ sender = Idle
    /\ sent = [g \in Groups |-> 0]
    /\ alertChan = <<>>
    /\ groups = [g \in {} |-> NewGroup]
    /\ alertHistory = {}
    /\ loop = "select"
    /\ due = [g \in {} |-> NewGroup]
    /\ sinceCheck = 0
    /\ clock = 0
    /\ ticked = FALSE
    /\ stopped = FALSE

(* The goroutine that evaluates, inside the manager. *)
SenderStep == Enqueue \/ Refuse \/ Clear \/ Resolved

(* The manager's own goroutine. *)
LoopStep ==
    \/ Receive
    \/ Check
    \/ \E g \in Groups : Notify(g) \/ Pass(g)
    \/ EndCheck
    \/ Leave

Next ==
    \/ \E rule \in Rules : Fire(rule) \/ Resolve(rule)
    \/ SenderStep
    \/ LoopStep
    \/ Stop
    \/ Tick

Spec == Init /\ [][Next]_vars

(* Both goroutines run, a Go mutex starves nobody, select chooses at random *)
(* between what is ready, channel calls return or time out, time goes on.   *)
Fairness ==
    /\ SF_vars(SenderStep)
    /\ SF_vars(Receive)
    /\ SF_vars(Check)
    /\ SF_vars(Leave)
    /\ WF_vars(\E g \in Groups : Notify(g) \/ Pass(g))
    /\ WF_vars(EndCheck)
    /\ WF_vars(Tick)

FairSpec == Spec /\ Fairness

-------------------------------------------------------------------------------
(* The types of the manager's variables. *)
TypeOK ==
    /\ \/ sender = Idle
       \/ sender \in [at : {"sending", "clearing", "resolving"}, rule : Rules]
    /\ sent \in [Groups -> Nat]
    /\ alertChan \in Seq(Rules)
    /\ Len(alertChan) <= Capacity
    /\ DOMAIN groups \subseteq Groups
    /\ \A g \in DOMAIN groups : groups[g] \in Group
    /\ alertHistory \subseteq Rules
    /\ loop \in {"select", "checking", "stopped"}
    /\ DOMAIN due \subseteq DOMAIN groups
    /\ \A g \in DOMAIN due : due[g] \in Group
    /\ sinceCheck \in 0 .. RepeatInterval
    /\ clock \in 0 .. GroupInterval - 1
    /\ ticked \in BOOLEAN
    /\ stopped \in BOOLEAN

InChannel(g) == { i \in DOMAIN alertChan : GroupOf[alertChan[i]] = g }

InGroup(g) == IF g \in DOMAIN groups THEN groups[g].count ELSE 0

BeingSent(g) == IF sender.at = "sending" /\ GroupOf[sender.rule] = g THEN 1 ELSE 0

(* Every alert that SendAlert took is in the channel or in its group, once; *)
(* a full channel and a stopping manager lose none and double none.         *)
NoAlertLost ==
    \A g \in Groups :
        sent[g] = BeingSent(g) + Cardinality(InChannel(g)) + InGroup(g)

(* SendAlert and SendResolved return, whether the channel is full, the loop *)
(* is busy with a slow channel or the manager is being stopped: evaluations *)
(* never stop for good behind evaluator.mu.                                 *)
SenderReturns == sender # Idle ~> sender = Idle

(* The alerts of a group are waiting to be sent: each of them is followed   *)
(* by a notice of its group, unless the manager is stopped first.           *)
WaitingAlertsAreSent ==
    \A g \in Groups, n \in 1 .. MaxAlerts :
        sent[g] >= n ~> \/ g \in DOMAIN groups /\ groups[g].covered >= n
                        \/ stopped

===============================================================================
