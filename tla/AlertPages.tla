----------------------------- MODULE AlertPages -----------------------------
(***************************************************************************)
(* The console's pages of alert rules: the list with its switches and its  *)
(* deletion dialog, the page of one rule, and the form that edits or       *)
(* creates a rule.  The cache has an entry for the list, one for each rule *)
(* and one for the configuration; the server's rules change by the calls   *)
(* of the console and by the evaluator.  Beside what the form has, a rule  *)
(* keeps its interval in milliseconds (ms), its state, and what the        *)
(* evaluator noted of it: seen says that last_evaluation, last_triggered   *)
(* or trigger_count is there.                                              *)
(***************************************************************************)
EXTENDS AlertFormFields, Naturals, Functions

CONSTANTS
    None,           \* nothing
    Ids,            \* of rules
    Sessions,       \* the users, some of whom wait for the console and some
                    \* hurry; the rules they find; the fields they type into
    MaxClicks,      \* cap on the calls the user makes
    MaxEvents       \* cap on calls and changes by others together

INSTANCE QueryCache

VARIABLES
    server,         \* id -> rule, as the server stores them
    list,           \* the cache entry ['alerts']
    rules,          \* id -> the cache entry ['alerts', id]
    config,         \* the cache entry ['config']: "none", "asked" or "there"
    page,           \* where the user is
    dialog,         \* list: the id to be deleted, or None
    form,           \* the form that is open, or None
    calls,          \* the calls in flight
    clicks,
    others,         \* changes that the console is not told of
    stale,          \* the entries that differ from the server, known why
    habit

vars == <<server, list, rules, config, page, dialog, form, calls, clicks,
          others, stale, habit>>
cache == <<list, rules, config>>
pageVars == <<page, dialog, form>>
bounds == <<clicks, others, habit>>

States == {"pending", "firing", "resolved", ""}
Rule == [name: {"", "old", "new"}, enabled: BOOLEAN, text: {"", "old", "new"},
         mode: {"collection", "scheduled"}, interval: Windows, ms: Windows,
         condition: Condition, labels: SUBSET LabelKeys, state: States,
         seen: BOOLEAN]
IsStore(s) == DOMAIN s \subseteq Ids /\ \A id \in DOMAIN s : s[id] \in Rule

(* A page is the list, the form of a new rule, or a rule's page by its id. *)
Pages == {"list", "new"} \cup Ids

Quiet == calls = {} /\ ~Fetching(list) /\ config # "asked"
             /\ \A id \in Ids : ~Fetching(rules[id])
Ready == habit.waits => Quiet

Shown(id) == page = id /\ rules[id].data # None /\ config = "there"

Loading(q) == q.data = None /\ Fetching(q)
-----------------------------------------------------------------------------
(* The user. *)

Look == UNCHANGED <<server, calls, stale>> /\ UNCHANGED bounds

(* Fetching the configuration anew shows nothing new here.                 *)
Mount(p) ==
    /\ list' = IF p = "list" THEN Mounted(list) ELSE list
    /\ rules' = [id \in Ids |-> IF p = id THEN Mounted(rules[id]) ELSE rules[id]]
    /\ config' = IF p = "list" \/ config # "none" THEN config ELSE "asked"

Leave(p) == page' = p /\ dialog' = None /\ Mount(p)

NewForm == [rule |-> NewRule, typed |-> {}]

(* The page of a new rule opens its form as soon as the configuration is   *)
(* there; a rule's page shows the rule first.                              *)
Open(p) ==
    /\ p # page /\ Ready /\ dialog = None
    /\ p \in Ids => page = "list" /\ list.data # None /\ p \in DOMAIN list.data
    /\ p = "new" => page = "list" /\ ~Loading(list)
    /\ Leave(p)
    /\ form' = IF p = "new" /\ config = "there" THEN NewForm ELSE None
    /\ Look

Click(c) ==
    /\ clicks < MaxClicks /\ clicks + others < MaxEvents
    /\ Ready
    /\ clicks' = clicks + 1
    /\ calls' = calls \cup {c}
    /\ UNCHANGED <<server, others, stale, habit>> /\ UNCHANGED cache

Call(op, id) == [n |-> clicks + 1, op |-> op, id |-> id, rule |-> None,
                 typed |-> {}, phase |-> "sent"]

OnList(id) == page = "list" /\ dialog = None /\ list.data # None /\ id \in DOMAIN list.data

Toggle(id) ==
    /\ OnList(id)
    /\ Click(Call(IF list.data[id].enabled THEN "disable" ELSE "enable", id))
    /\ UNCHANGED pageVars

AskDelete(id) ==
    /\ OnList(id) /\ Ready
    /\ dialog' = id
    /\ UNCHANGED <<page, form>> /\ UNCHANGED cache /\ Look

(* The dialog closes at once, and once more when a deletion succeeds.      *)
AnswerDialog(confirmed) ==
    /\ dialog # None
    /\ IF confirmed THEN Click(Call("delete", dialog)) ELSE Look /\ UNCHANGED cache
    /\ dialog' = None
    /\ UNCHANGED <<page, form>>

(* What the form makes of a rule.                                          *)
Copied(rule) == [f \in Fields |-> IF f = "interval" THEN Given(rule[f]) ELSE rule[f]]

(* Faulty: the switch of a rule that is off counts as missing. *)
StartEditEnabled(id) ==
    /\ Shown(id) /\ form = None /\ Ready
    /\ form' = [rule |-> [Copied(rules[id].data) EXCEPT !.enabled = TRUE], typed |-> {}]
    /\ UNCHANGED <<page, dialog>> /\ UNCHANGED cache /\ Look

(* The form copies what the page shows, and never looks at it again.       *)
StartEdit(id) ==
    /\ Shown(id) /\ form = None /\ Ready
    /\ form' = [rule |-> Copied(rules[id].data), typed |-> {}]
    /\ UNCHANGED <<page, dialog>> /\ UNCHANGED cache /\ Look

Saving == \E c \in calls : c.op \in {"update", "create"}

CancelForm ==
    /\ form # None /\ ~Saving /\ Ready
    /\ form' = None
    /\ IF page = "new" THEN Leave("list")
       ELSE UNCHANGED <<page, dialog>> /\ UNCHANGED cache
    /\ Look

(* The form with the change, if any, that the user makes before he saves.  *)
Typed ==
    {form} \cup {[rule |-> [form.rule EXCEPT ![e.field] = e.value],
                  typed |-> form.typed \cup {e.field}] :
                     e \in {d \in Edits(form.rule) : d.field \in habit.types}}

SaveForm ==
    /\ form # None /\ ~Saving
    /\ \E f \in Typed :
           /\ f.rule.name # ""
           /\ form' = f
           /\ Click([Call(IF page = "new" THEN "create" ELSE "update", page) EXCEPT
                         !.rule = f.rule, !.typed = f.typed])
    /\ UNCHANGED <<page, dialog>>

-----------------------------------------------------------------------------
(* The server. *)

Taken(name, id) == \E o \in DOMAIN server \ {id} : server[o].name = name

(* Faulty: the text of the window is stored and not parsed. *)
ParsedNever(condition) == condition

(* The windows are parsed where they are given.                            *)
Parsed(condition) ==
    IF condition.type = "threshold" \/ condition.window = "blank" THEN condition
    ELSE [condition EXCEPT !.ms = condition.window]

(* The form sends neither the milliseconds nor what the evaluator noted.   *)
Stored(rule, state) ==
    [f \in Fields \cup {"ms", "state", "seen"} |->
        CASE f = "ms" -> rule.interval
          [] f = "state" -> state
          [] f = "seen" -> FALSE
          [] f = "condition" -> Parsed(rule.condition)
          [] OTHER -> rule[f]]

(* An update replaces the whole rule by what was sent: its state is none,  *)
(* and the evaluator has seen nothing of it.                               *)
Accepts(c) ==
    CASE c.op = "create" -> DOMAIN server # Ids /\ ~Taken(c.rule.name, None)
      [] c.op = "update" -> c.id \in DOMAIN server /\
             (c.rule.name = server[c.id].name \/ ~Taken(c.rule.name, c.id))
      [] OTHER -> c.id \in DOMAIN server

Results(c) ==
    CASE c.op = "create" ->
            {[i \in DOMAIN server \cup {id} |->
                 IF i = id THEN Stored(c.rule, "pending") ELSE server[i]] :
                     id \in Ids \ DOMAIN server}
      [] c.op = "update" -> {[server EXCEPT ![c.id] = Stored(c.rule, "")]}
      [] c.op = "delete" -> {Restrict(server, DOMAIN server \ {c.id})}
      [] OTHER -> {[server EXCEPT ![c.id].enabled = c.op = "enable"]}

(* A change of the rules that no answer tells the console of.              *)
Unheard ==
    /\ clicks + others < MaxEvents
    /\ others' = others + 1
    /\ stale' = {"list"} \cup Ids

Update(c, d) == calls' = (calls \ {c}) \cup {d}

Handle(c) ==
    /\ c.phase = "sent"
    /\ IF Accepts(c) THEN server' \in Results(c) ELSE UNCHANGED server
    /\ Update(c, [c EXCEPT !.phase = IF Accepts(c) THEN "ok" ELSE "refused"])
    /\ UNCHANGED stale /\ UNCHANGED cache /\ UNCHANGED pageVars /\ UNCHANGED bounds

(* The file cannot be written: what was changed stays, the call is refused.*)
HandleUnsaved(c) ==
    /\ c.phase = "sent" /\ Accepts(c)
    /\ Unheard
    /\ server' \in Results(c)
    /\ Update(c, [c EXCEPT !.phase = "refused"])
    /\ UNCHANGED <<clicks, habit>> /\ UNCHANGED cache /\ UNCHANGED pageVars

(* The evaluator finds an enabled rule triggered.                          *)
Fire ==
    /\ Unheard
    /\ \E id \in DOMAIN server :
           /\ server[id].enabled /\ server[id].state # "firing"
           /\ server' = [server EXCEPT ![id].state = "firing", ![id].seen = TRUE]
    /\ UNCHANGED <<calls, clicks, habit>> /\ UNCHANGED cache /\ UNCHANGED pageVars

-----------------------------------------------------------------------------
(* The answers. *)

(* Faulty: an exact key, that does not match the rules' own entries. *)
InvalidatedListOnly ==
    [list |-> Invalidated(list, page = "list"), rules |-> rules, stale |-> stale]

(* invalidateQueries(['alerts']) is about the list and about every rule.   *)
InvalidatedAlerts ==
    [list |-> Invalidated(list, page = "list"),
     rules |-> [id \in Ids |-> Invalidated(rules[id], page = id)],
     stale |-> stale \cup {id \in Ids : Overtaken(rules[id], page = id)}
                  \cup (IF Overtaken(list, page = "list") THEN {"list"} ELSE {})]

InvalidateAlerts ==
    /\ list' = InvalidatedAlerts.list
    /\ rules' = InvalidatedAlerts.rules
    /\ stale' = InvalidatedAlerts.stale

DeliverListCall(c) ==
    /\ c.op \in {"enable", "disable", "delete"}
    /\ IF c.phase = "ok" THEN InvalidateAlerts ELSE UNCHANGED <<list, rules, stale>>
    /\ dialog' = IF c.op = "delete" /\ c.phase = "ok" THEN None ELSE dialog
    /\ UNCHANGED <<config, page, form>>

(* A save that succeeds goes to the list, wherever the user is by then.    *)
DeliverSave(c) ==
    /\ c.op \in {"update", "create"}
    /\ \/ /\ c.phase = "ok"
          /\ list' = Mounted(InvalidatedAlerts.list)
          /\ rules' = InvalidatedAlerts.rules
          /\ stale' = InvalidatedAlerts.stale
          /\ page' = "list" /\ form' = None
          /\ dialog' = IF page = "list" THEN dialog ELSE None
       \/ c.phase = "refused" /\ UNCHANGED <<list, rules, stale>> /\ UNCHANGED pageVars
    /\ UNCHANGED config

Deliver(c) ==
    /\ c.phase # "sent"
    /\ calls' = calls \ {c}
    /\ DeliverListCall(c) \/ DeliverSave(c)
    /\ UNCHANGED server /\ UNCHANGED bounds

AnswerList ==
    /\ list.fetch = "asked"
    /\ list' = Answered(list, server)
    /\ stale' = stale \ {"list"}
    /\ UNCHANGED <<server, rules, config, calls>> /\ UNCHANGED pageVars /\ UNCHANGED bounds

ArriveList ==
    /\ list.fetch = "answered"
    /\ list' = Arrived(list)
    /\ UNCHANGED <<server, rules, config, calls, stale>>
    /\ UNCHANGED pageVars /\ UNCHANGED bounds

(* A rule that is not there fails the fetch, and an old copy goes on being *)
(* shown.                                                                  *)
AnswerRule(id) ==
    /\ rules[id].fetch = "asked"
    /\ rules' = [rules EXCEPT ![id] =
                    IF id \in DOMAIN server THEN Answered(@, server[id]) ELSE Failed(@)]
    /\ stale' = stale \ {id}
    /\ UNCHANGED <<server, list, config, calls>> /\ UNCHANGED pageVars /\ UNCHANGED bounds

ArriveRule(id) ==
    /\ rules[id].fetch = "answered"
    /\ rules' = [rules EXCEPT ![id] = Arrived(@)]
    /\ UNCHANGED <<server, list, config, calls, stale>>
    /\ UNCHANGED pageVars /\ UNCHANGED bounds

ArriveConfig ==
    /\ config = "asked"
    /\ config' = "there"
    /\ form' = IF page = "new" /\ form = None THEN NewForm ELSE form
    /\ UNCHANGED <<server, list, rules, page, dialog, calls, stale>> /\ UNCHANGED bounds

-----------------------------------------------------------------------------
(* The user opens the console at any of its pages.                         *)
Init ==
    /\ \E s \in Sessions :
           /\ server = s.rules
           /\ habit = [waits |-> s.waits, types |-> s.types]
    /\ page \in {"list"} \cup DOMAIN server
    /\ list = IF page = "list" THEN Mounted(EmptyQuery) ELSE EmptyQuery
    /\ rules = [id \in Ids |-> IF page = id THEN Mounted(EmptyQuery) ELSE EmptyQuery]
    /\ config = IF page = "list" THEN "none" ELSE "asked"
    /\ dialog = None /\ form = None
    /\ calls = {}
    /\ clicks = 0 /\ others = 0
    /\ stale = {}

User ==
    \/ \E p \in Pages : Open(p)
    \/ \E id \in Ids : Toggle(id) \/ AskDelete(id) \/ StartEdit(id)
    \/ \E confirmed \in BOOLEAN : AnswerDialog(confirmed)
    \/ CancelForm \/ SaveForm

FetchList == AnswerList \/ ArriveList
FetchRule(id) == AnswerRule(id) \/ ArriveRule(id)
Serve == \E c \in calls : Handle(c) \/ Deliver(c)

Next ==
    \/ User \/ FetchList \/ ArriveConfig \/ Serve
    \/ \E id \in Ids : FetchRule(id)
    \/ Fire
    \/ \E c \in calls : HandleUnsaved(c)

Spec == Init /\ [][Next]_vars

-----------------------------------------------------------------------------
TypeOK ==
    /\ IsStore(server)
    /\ \A s \in {list.data, list.answer} \ {None} : IsStore(s)
    /\ \A id \in Ids : rules[id] \in Query(Rule)
    /\ page \in Pages
    /\ dialog \in Ids \cup {None}
    /\ form # None => form.typed \subseteq Fields
    /\ \A c \in calls : c.phase \in {"sent", "ok", "refused"}

(* Once all answers are in, the list and the page of a rule show what the  *)
(* server has, unless somebody else changed it.                            *)
AlertsAreCurrent ==
    Quiet => /\ page = "list" /\ "list" \notin stale => list.data = server
             /\ \A id \in DOMAIN server \ stale :
                    page = id => rules[id].data = server[id]

Handled(c) == c \in calls /\ c.phase = "sent" /\ c \notin calls'

(* A user who waits for the console and is alone: what he saves changes no *)
(* other rule and, of this one, no field of the form that he left alone,   *)
(* but that an interval which was not given becomes 5m.  (The rest of the  *)
(* rule is not kept: see Stored.)  What he switches is the rule he sees;   *)
(* what he deletes is what the dialog names.  In particular an edit never  *)
(* enables a rule that was disabled.                                       *)
EditIsExact ==
    habit.waits /\ others = 0 =>
        \A c \in calls : Handled(c) /\ server' # server =>
            /\ \A id \in DOMAIN server \ {c.id} : server'[id] = server[id]
            /\ c.op = "update" =>
                   \A f \in Fields \ c.typed :
                       server'[c.id][f] = Copied(server[c.id])[f]

(* A window or interval that is given is the one the evaluator goes by,    *)
(* whichever way the rule was edited.                                      *)
AreMeant(s) ==
    \A id \in DOMAIN s :
        LET condition == s[id].condition
        IN  /\ condition.type # "threshold" /\ condition.window # "blank" =>
                   condition.ms = condition.window
            /\ s[id].interval # "blank" => s[id].ms = s[id].interval

WindowsAreMeant == AreMeant(server)

(* Every call is answered, and the list comes to show what the calls did.  *)
Settled == calls = {} /\ (page = "list" /\ "list" \notin stale => list.data \in {None, server})
=============================================================================
