----------------------------- MODULE ConfigPages -----------------------------
(***************************************************************************)
(* The console's pages that share one cached copy of the configuration:    *)
(* Dashboard, Metrics (with MetricForm and SaveAndApply) and Settings, in  *)
(* one browser tab.  The pages show the cached copy and change the         *)
(* server's through calls: metrics by their index in the copy, the         *)
(* settings by sending the whole copy back.  Other people may change the   *)
(* configuration too.                                                      *)
(*                                                                         *)
(* A metric is its name, its switch and its body, which stands for all     *)
(* other fields.  Of the settings there are the interval, which the page   *)
(* treats specially, the listener, which stands for address and port, and  *)
(* prometheus.url, which the page has no field for.                        *)
(***************************************************************************)
EXTENDS Naturals, Sequences, SequencesExt, FiniteSets

CONSTANTS
    None,           \* nothing
    Names,          \* of metrics
    InitConfigs,    \* the users, some of whom wait for the console and some
                    \* hurry; the metrics and the url they find
    Troubles,       \* what may go wrong, each once
    MaxClicks,      \* cap on the calls the user makes
    MaxEvents       \* cap on calls and troubles together

INSTANCE QueryCache

VARIABLES
    server,         \* the configuration that the server's API holds
    query,          \* the cache entry ['config']
    page,           \* the page that is open
    dialog,         \* Metrics: the row whose deletion is to be confirmed
    editor,         \* Metrics: editingMetric and editingIndex
    form,           \* Settings: the fields
    calls,          \* the calls in flight
    clicks,
    troubles,       \* what has gone wrong
    missed,         \* the server differs from the copy for a known reason
    habit

vars == <<server, query, page, dialog, editor, form, calls, clicks,
          troubles, missed, habit>>
pageVars == <<page, dialog, editor, form>>
boundVars == <<clicks, troubles, habit>>

Blank == "blank"
Values == {"old", "new"}
Metric == [name: Names, enabled: {"unset", "on", "off"}, body: Values]
Urls == {Blank, "old"}
Config == [metrics: Seq(Metric), interval: Values, listener: Values, url: Urls]
Fields == {"interval", "listener"}
Form == [interval: Values \cup {Blank}, listener: Values \cup {Blank},
         typed: SUBSET Fields]      \* typed into since it was filled in
EmptyForm == [interval |-> Blank, listener |-> Blank, typed |-> {}]

(* "away" is any page without the configuration; a page whose rendering    *)
(* throws takes the whole console with it, as nothing catches the error.   *)
(* Dashboard is Metrics without its buttons as far as the copy goes, so    *)
(* "metrics" stands for it too.                                            *)
ConfigUsers == {"metrics", "settings"}
Pages == ConfigUsers \cup {"away", "crashed"}

Used == page \in ConfigUsers
Shown == Used /\ query.data # None
AllTroubles ==
    {"edit",        \* another person changes the configuration
     "fetch",       \* a fetch fails
     "server",      \* the server cannot save or reload
     "reload"}      \* the user loads the console anew

Trouble(t) ==
    /\ t \in Troubles \ troubles
    /\ clicks + Cardinality(troubles) < MaxEvents
    /\ troubles' = troubles \cup {t}

Quiet == calls = {} /\ ~Fetching(query)

(* A careful user clicks only when nothing is in flight.                   *)
MayAct == Shown /\ (habit = "waits" => Quiet)

-----------------------------------------------------------------------------
(* The server's side of the calls. *)

Valid(config) ==
    /\ config.metrics # <<>>
    /\ \A i, j \in 1..Len(config.metrics) :
           i # j => config.metrics[i].name # config.metrics[j].name

ByIndex == {"delete", "update", "enable", "disable"}
InPlace == ByIndex \cup {"create"}

Found(config, c) == c.kind \in ByIndex => c.index <= Len(config.metrics)

Switched(metric, kind) ==
    [metric EXCEPT !.enabled = IF kind = "enable" THEN "on" ELSE "off"]

(* The call asks for what is there already, and is answered at once.       *)
Unneeded(config, c) ==
    \/ c.kind \in {"enable", "disable"}
       /\ config.metrics[c.index] = Switched(config.metrics[c.index], c.kind)
    \/ c.kind = "create"
       /\ \E i \in 1..Len(config.metrics) :
              /\ config.metrics[i].name = c.metric.name
              /\ config.metrics[i].body = c.metric.body

Changed(config, c) ==
    CASE c.kind = "delete" ->
            [config EXCEPT !.metrics = RemoveAt(@, c.index)]
      [] c.kind = "update" ->
            [config EXCEPT !.metrics[c.index] = c.metric]
      [] c.kind \in {"enable", "disable"} ->
            [config EXCEPT !.metrics[c.index] = Switched(@, c.kind)]
      [] c.kind = "create" ->
            [config EXCEPT !.metrics = Append(@, c.metric)]
      [] OTHER -> c.config

(* What a handler leaves behind, and whether it reports success; broken    *)
(* says that saving or reloading fails.  Handlers of metrics change the    *)
(* shared configuration before they validate it, so a refused change stays.*)
Outcome(config, c, broken) ==
    IF ~Found(config, c) THEN [config |-> config, ok |-> FALSE]
    ELSE IF Unneeded(config, c) THEN [config |-> config, ok |-> TRUE]
    ELSE LET new == Changed(config, c)
             ok == Valid(new) /\ ~broken
         IN  [config |-> IF ok \/ c.kind \in InPlace THEN new ELSE config,
              ok |-> ok]

-----------------------------------------------------------------------------
(* The user. *)

(* A call and its phase; row is the name of the row it is about, and heard *)
(* says whether a console is there to take the answer.                     *)
Call(kind) == [id |-> clicks + 1, kind |-> kind, phase |-> "sent",
               heard |-> TRUE, index |-> 0, row |-> None, metric |-> None,
               config |-> None]

CallOn(kind, row, m) ==
    [Call(kind) EXCEPT !.index = row.index, !.row = row.metric.name, !.metric = m]

(* A row of the table, as the copy shows it.                               *)
Row(i) == [index |-> i, metric |-> query.data.metrics[i]]

Click(c) ==
    /\ clicks < MaxClicks
    /\ clicks + Cardinality(troubles) < MaxEvents
    /\ clicks' = clicks + 1
    /\ calls' = calls \cup {c}
    /\ UNCHANGED <<server, query, troubles, missed, habit>>

Look == UNCHANGED <<server, query, calls, missed>> /\ UNCHANGED boundVars

Pending(kinds) == \E c \in calls : c.heard /\ c.kind \in kinds

OnMetrics == page = "metrics" /\ MayAct /\ dialog = None

(* The buttons of a row; index and metric are those of the copy.           *)
Toggle(i) ==
    LET kind == IF query.data.metrics[i].enabled = "on" THEN "disable"
                ELSE "enable"
    IN  /\ OnMetrics
        /\ ~Pending({"enable", "disable"})
        /\ Click(CallOn(kind, Row(i), None))
        /\ UNCHANGED pageVars

AskDelete(i) ==
    /\ OnMetrics
    /\ editor = None
    /\ dialog' = Row(i)
    /\ Look /\ UNCHANGED <<page, editor, form>>

CancelDelete ==
    /\ dialog # None
    /\ dialog' = None
    /\ Look /\ UNCHANGED <<page, editor, form>>

ConfirmDelete ==
    /\ dialog # None
    /\ MayAct
    /\ Click(CallOn("delete", dialog, None))
    /\ dialog' = None
    /\ UNCHANGED <<page, editor, form>>

Edit(i) ==
    /\ OnMetrics
    /\ editor = None
    /\ editor' = Row(i)
    /\ Look /\ UNCHANGED <<page, dialog, form>>

Add ==
    /\ OnMetrics
    /\ editor = None
    /\ editor' = [index |-> 0, metric |-> None]
    /\ Look /\ UNCHANGED <<page, dialog, form>>

CancelEdit ==
    /\ OnMetrics
    /\ editor # None
    /\ editor' = None
    /\ Look /\ UNCHANGED <<page, dialog, form>>

(* MetricForm: the user types a name and a new body; what was edited is    *)
(* saved by index, a new metric is created.                                *)
SaveMetric(m) ==
    /\ OnMetrics
    /\ editor # None
    /\ ~Pending({"update", "create"})
    /\ m.body = "new"
    /\ editor.index # 0 => m.enabled = editor.metric.enabled
    /\ editor.index = 0 => m.enabled = "unset"
    /\ Click(IF editor.index = 0 THEN [Call("create") EXCEPT !.metric = m]
             ELSE CallOn("update", editor, m))
    /\ UNCHANGED pageVars

SaveAndApply ==
    /\ OnMetrics
    /\ ~Pending({"apply"})
    /\ Click([Call("apply") EXCEPT !.phase = "get"])
    /\ UNCHANGED pageVars

(* Faulty: the fields stay empty. *)
FilledNever == EmptyForm

(* Settings.  An empty interval makes the effect fill in all fields again, *)
(* from the copy of that moment.                                           *)
Filled ==
    IF query.data = None THEN EmptyForm
    ELSE [interval |-> query.data.interval, listener |-> query.data.listener,
          typed |-> {}]

ClearInterval ==
    /\ page = "settings" /\ MayAct
    /\ form' = Filled
    /\ Look /\ UNCHANGED <<page, dialog, editor>>

(* The user types into some of the fields and saves them all.  What is     *)
(* sent is the copy, but for schedule and prometheus, which are made anew  *)
(* of the fields: the url is not in them.                                  *)
Typed(fields) ==
    [form EXCEPT !.interval = IF "interval" \in fields THEN "new" ELSE @,
                 !.listener = IF "listener" \in fields THEN "new" ELSE @,
                 !.typed = @ \cup fields]

SaveSettings(fields) ==
    LET f == Typed(fields)
    IN  /\ page = "settings" /\ MayAct
        /\ ~Pending({"settings"})
        /\ form' = f
        /\ Click([Call("settings") EXCEPT
                      !.row = f.typed,
                      !.config = [query.data EXCEPT !.interval = f.interval,
                                                    !.listener = f.listener,
                                                    !.url = Blank]])
        /\ UNCHANGED <<page, dialog, editor>>

(* The router unmounts the old page and mounts the new one.                *)
Open(p) ==
    /\ p # page
    /\ page # "crashed"
    /\ dialog = None
    /\ habit = "waits" => Quiet
    /\ page' = p
    /\ query' = IF p \in ConfigUsers THEN Mounted(query) ELSE query
    /\ form' = IF p = "settings" THEN Filled ELSE EmptyForm
    /\ editor' = None
    /\ UNCHANGED <<dialog, server, calls, missed>> /\ UNCHANGED boundVars

(* The browser loads the console anew: all of its state is gone, while     *)
(* what it sent may still reach the server.                                *)
Reload(p) ==
    /\ IF page = "crashed" THEN UNCHANGED troubles ELSE Trouble("reload")
    /\ habit = "waits" => Quiet
    /\ page' = p
    /\ query' = IF p \in ConfigUsers THEN Mounted(EmptyQuery) ELSE EmptyQuery
    /\ dialog' = None
    /\ editor' = None
    /\ form' = EmptyForm
    /\ calls' = {[c EXCEPT !.heard = FALSE] :
                     c \in {d \in calls : d.phase \in {"sent", "put"}}}
    /\ UNCHANGED <<server, missed, clicks, habit>>

-----------------------------------------------------------------------------
(* The server and the network. *)

Update(c, d) == calls' = (calls \ {c}) \cup {d}

(* One request of a call other than SaveAndApply's reads.                  *)
Handle(c, broken) ==
    /\ c.phase \in {"sent", "put"}
    /\ IF broken THEN Trouble("server") ELSE UNCHANGED troubles
    /\ LET o == Outcome(server, c, broken)
       IN  /\ server' = o.config
           /\ Update(c, [c EXCEPT !.phase = IF o.ok THEN "ok" ELSE "refused"])
           /\ missed' = (missed \/ (server' # server /\ (~o.ok \/ ~c.heard)))
    /\ UNCHANGED <<query, clicks, habit>> /\ UNCHANGED pageVars

(* SaveAndApply reads the configuration, has the server validate its own,  *)
(* and sends back what it read.                                            *)
ApplyRead(c) ==
    /\ c.phase = "get"
    /\ Update(c, [c EXCEPT !.phase = "validate", !.config = server])
    /\ UNCHANGED <<server, query, missed>>
    /\ UNCHANGED pageVars /\ UNCHANGED boundVars

ApplyValidate(c) ==
    /\ c.phase = "validate"
    /\ Update(c, [c EXCEPT !.phase = IF Valid(server) THEN "put" ELSE "refused"])
    /\ UNCHANGED <<server, query, missed>>
    /\ UNCHANGED pageVars /\ UNCHANGED boundVars

(* Faulty: the page forgets to invalidate the cache. *)
DoneForgetful(c) == query

(* What onSuccess and onError make of the cache.                           *)
Done(c) == IF c.heard /\ c.phase = "ok" THEN Invalidated(query, Used) ELSE query

(* The answer of a call; onSave closes whatever editor is open.            *)
Deliver(c) ==
    /\ c.phase \in {"ok", "refused"}
    /\ calls' = calls \ {c}
    /\ query' = Done(c)
    /\ missed' = (missed \/ Overtaken(query, Used))
    /\ editor' = IF c.heard /\ c.phase = "ok" /\ c.kind \in {"update", "create"}
                 THEN None ELSE editor
    /\ UNCHANGED <<page, dialog, form, server>> /\ UNCHANGED boundVars

AnswerFetch ==
    /\ query.fetch = "asked"
    /\ query' = Answered(query, server)
    /\ missed' = FALSE
    /\ UNCHANGED <<server, calls>> /\ UNCHANGED pageVars /\ UNCHANGED boundVars

(* A row is a new one if its index shows another name, and its dialog goes *)
(* with it.  Settings has hooks behind its early return, so the first data *)
(* to arrive while it is open make React throw.                            *)
SameRow(d, config) ==
    /\ d.index <= Len(config.metrics)
    /\ config.metrics[d.index].name = d.metric.name

ArriveFetch ==
    /\ query.fetch = "answered"
    /\ query' = Arrived(query)
    /\ LET throws == page = "settings" /\ query.data = None
       IN  page' = IF throws THEN "crashed" ELSE page
    /\ dialog' = IF dialog # None /\ SameRow(dialog, query.answer)
                 THEN [dialog EXCEPT !.metric = query.answer.metrics[dialog.index]]
                 ELSE None
    /\ UNCHANGED <<editor, form, server, calls, missed>> /\ UNCHANGED boundVars

FailFetch ==
    /\ Fetching(query)
    /\ Trouble("fetch")
    /\ query' = Failed(query)
    /\ missed' = TRUE
    /\ UNCHANGED <<server, calls, clicks, habit>> /\ UNCHANGED pageVars

(* Another person, in another console, deletes or switches a metric.       *)
OtherEdit ==
    /\ Trouble("edit")
    /\ \E i \in 1..Len(server.metrics), kind \in {"delete", "enable", "disable"} :
           LET new == Changed(server, [kind |-> kind, index |-> i])
           IN  Valid(new) /\ new # server /\ server' = new
    /\ missed' = TRUE
    /\ UNCHANGED <<query, calls, clicks, habit>> /\ UNCHANGED pageVars

-----------------------------------------------------------------------------
Init ==
    /\ \E s \in InitConfigs :
           /\ habit = s.habit
           /\ server = [metrics |-> s.metrics, interval |-> "old", listener |-> "old",
                        url |-> s.url]
    /\ page \in ConfigUsers
    /\ query = Mounted(EmptyQuery)
    /\ dialog = None /\ editor = None
    /\ form = EmptyForm
    /\ calls = {}
    /\ clicks = 0 /\ troubles = {}
    /\ missed = FALSE

Rows == IF query.data = None THEN {} ELSE 1..Len(query.data.metrics)

User ==
    \/ \E i \in Rows : Toggle(i) \/ AskDelete(i) \/ Edit(i)
    \/ CancelDelete \/ ConfirmDelete \/ Add \/ CancelEdit
    \/ \E m \in Metric : SaveMetric(m)
    \/ SaveAndApply
    \/ ClearInterval
    \/ \E fields \in SUBSET Fields : SaveSettings(fields)
    \/ \E p \in Pages \ {"crashed"} : Open(p)

Fetch == AnswerFetch \/ ArriveFetch
Serve ==
    \E c \in calls :
        Handle(c, FALSE) \/ ApplyRead(c) \/ ApplyValidate(c) \/ Deliver(c)

Next ==
    \/ User \/ Fetch \/ Serve
    \/ FailFetch \/ OtherEdit
    \/ \E p \in Pages \ {"crashed"} : Reload(p)
    \/ \E c \in calls : Handle(c, TRUE)

Spec == Init /\ [][Next]_vars

-----------------------------------------------------------------------------
TypeOK ==
    /\ server \in Config
    /\ query \in Query(Config)
    /\ page \in Pages
    /\ form \in Form
    /\ \A row \in {dialog, editor} \ {None} :
           row.index = 0 \/ row.metric \in Metric
    /\ \A c \in calls : c.phase \in {"sent", "get", "validate", "put", "ok", "refused"}
    /\ missed \in BOOLEAN

(* Once all answers are in, a page shows the configuration the server has, *)
(* unless somebody else changed it, a fetch failed, or a refused request   *)
(* left a trace: each successful change of the user's own is fetched.      *)
ShownIsCurrent == Used /\ Quiet /\ ~missed => query.data = server

Handled(c) == c \in calls /\ c \notin calls' /\ \E d \in calls' : d.id = c.id

(* A user who waits for the console before each click, and is alone, hits  *)
(* the rows that are shown and leaves the settings as they are; saving the *)
(* settings changes only the fields that were typed into and, whatever was *)
(* typed, the url; "save and apply" changes nothing.  An open editor keeps *)
(* the row it opened with, so it hits that row only if no refused change   *)
(* was left in the server's configuration meanwhile.                       *)
NothingRefusedStays == "server" \notin troubles /\ Valid(server)

LeftAlone(c) == IF c.kind = "settings" THEN Fields \ c.row ELSE Fields \cup {"url"}

HitsWhatIsShown(c) ==
    /\ c.kind \in ByIndex /\ (c.kind = "update" => NothingRefusedStays) =>
           /\ c.index <= Len(server.metrics)
           /\ server.metrics[c.index].name = c.row
    /\ \A field \in LeftAlone(c) : server'[field] = server[field]
    /\ c.kind = "settings" => server'.metrics = server.metrics
    /\ c.kind = "apply" => server' = server

UseIsSafe ==
    habit = "waits" /\ troubles \cap {"edit", "fetch"} = {} /\ ~missed =>
        \A c \in calls : Handled(c) => HitsWhatIsShown(c)

(* After the last change the open page comes to show the server's          *)
(* configuration, and no call is left without an answer.                   *)
Settled == calls = {} /\ (missed \/ ~Used \/ query.data \in {None, server})
=============================================================================
