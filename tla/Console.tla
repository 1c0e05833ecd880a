------------------------------- MODULE Console -------------------------------
(***************************************************************************)
(* The web console as its router mounts it: one page at a time, each with  *)
(* the part of the server it talks to.  A behaviour is a session with one  *)
(* of the pages (or with one family of pages that share a cached query:    *)
(* those of the configuration, those of the alert rules); the variables of *)
(* the others are unused and stay None.  Pages that keep the same kind of  *)
(* state share the variable.                                               *)
(***************************************************************************)
CONSTANTS
    None,           \* nothing
    Habits,         \* the users: some wait for the console, some hurry
    MaxClicks,      \* cap on the calls the user makes
    MaxEvents,      \* cap on calls and troubles together
    MaxVisits,      \* cap on the times the notification page is opened
    Names, InitConfigs, Troubles,                       \* ConfigPages
    Default, Other, SessionKinds,                       \* DataSourcesPage
    MaxTests, MaxTyped,                                 \* the two forms
    Ids, Sessions,                                      \* AlertPages
    ChannelIds, RouteIds, InitChannels, InitRoutes, RouteHabits, \* RoutesPage
    InitSettings,                                       \* NotificationsPage
    Scripts, MaxStored, MaxChatEvents                   \* ChatPage

VARIABLES
    open,           \* the page of this session
    \* of several pages
    server, query, page, dialog, form, calls, clicks, troubles, missed, habit,
    testing, tests, started, verdict, typed, fate, saving, loading, visit,
    \* of one page
    editor, editing, session, kind, settings, metric, response, confirming,
    list, rules, config, others, stale, channels, routes, generated, shown,
    loads, loaded, memory, file, raced, messages, thread, controller, stored, storing,
    requests, ended, strayed, cuts

Config == INSTANCE ConfigPages
Sources == INSTANCE DataSourcesPage
SourceForm == INSTANCE DataSourceForm
Metric == INSTANCE MetricForm
Alerts == INSTANCE AlertPages
Routes == INSTANCE RoutesPage WITH Habits <- RouteHabits
Notifications == INSTANCE NotificationsPage
Chat == INSTANCE ChatPage WITH MaxEvents <- MaxChatEvents

(* Nothing is not a configuration of data sources, an id or a stored       *)
(* history; the ids of rules are not the words of the console's addresses  *)
(* (/alerts, /alerts/new); what a session begins with is such as the       *)
(* server stores; answers are sequences of the events the console knows.   *)
ASSUME ConsoleAssumption ==
    /\ SessionKinds \subseteq SUBSET Sources!Kinds
    /\ None \notin Sources!Servers
    /\ {"list", "new"} \cap Ids = {}
    /\ \A s \in Sessions : Alerts!IsStore(s.rules) /\ Alerts!AreMeant(s.rules)
    /\ None \notin ChannelIds \cup RouteIds
    /\ Routes!IsStore(InitChannels, ChannelIds, Routes!Channel)
    /\ Routes!IsStore(InitRoutes, RouteIds, Routes!Route(ChannelIds))
    /\ \A s \in InitSettings : Notifications!IsSettings(s)
    /\ \A s \in InitConfigs :
           s.metrics \in Config!Seq(Config!Metric) /\ s.url \in Config!Urls
    /\ None \notin Chat!Histories
    /\ MaxStored \in Chat!Nat \ {0}
    /\ Scripts \subseteq Chat!Seq(Chat!Events)

Forms == {"source form", "metric form"}
Pages == {"config", "sources", "alerts", "routes", "notifications", "chat"} \cup Forms

ofSources == <<editing, session>>
ofForms == <<tests, started, verdict, typed, fate>>
ofSourceForm == <<kind, settings>>
ofMetricForm == <<metric, response, confirming>>
ofAlerts == <<list, rules, config, others, stale>>
ofRoutes == <<channels, routes, generated, shown, loads, loaded>>
ofNotifications == <<memory, file, raced>>
ofChat == <<messages, thread, controller, stored, storing, requests, ended,
            strayed, cuts>>

vars == <<open, server, query, page, dialog, form, calls, clicks, troubles, missed,
          habit, testing, saving, loading, visit, editor, ofForms, ofSources,
          ofSourceForm, ofMetricForm, ofAlerts, ofRoutes, ofNotifications, ofChat>>

(* A variable that only these pages use.                                   *)
OnlyOf(pages, v) == IF open \in pages THEN TRUE ELSE UNCHANGED v

Unused ==
    /\ OnlyOf({"config", "sources", "alerts"}, server)
    /\ OnlyOf({"config", "sources"}, <<query, missed>>)
    /\ OnlyOf({"config", "alerts"}, page)
    /\ OnlyOf({"config", "alerts", "routes"}, dialog)
    /\ OnlyOf({"config", "sources", "alerts", "notifications"}, form)
    /\ OnlyOf(Pages \ (Forms \cup {"chat"}), <<calls, habit>>)
    /\ OnlyOf(Pages \ Forms, clicks)
    /\ OnlyOf(Pages \ (Forms \cup {"alerts"}), troubles)
    /\ OnlyOf(Forms \cup {"notifications"}, testing)
    /\ OnlyOf({"metric form", "notifications"}, saving)
    /\ OnlyOf(Forms, ofForms)
    /\ OnlyOf({"routes", "notifications", "chat"}, loading)
    /\ OnlyOf({"notifications", "chat"}, visit)
    /\ OnlyOf({"config"}, editor)
    /\ OnlyOf({"sources"}, ofSources)
    /\ OnlyOf({"source form"}, ofSourceForm)
    /\ OnlyOf({"metric form"}, ofMetricForm)
    /\ OnlyOf({"alerts"}, ofAlerts)
    /\ OnlyOf({"routes"}, ofRoutes)
    /\ OnlyOf({"notifications"}, ofNotifications)
    /\ OnlyOf({"chat"}, ofChat)

On(p) == open = p /\ UNCHANGED open /\ Unused

-----------------------------------------------------------------------------
InitUnused ==
    /\ open \in {"config", "sources", "alerts"} \/ server = None
    /\ open \in {"config", "sources"} \/ (query = None /\ missed = None)
    /\ open \in {"config", "alerts"} \/ page = None
    /\ open \in {"config", "alerts", "routes"} \/ dialog = None
    /\ open \in {"config", "sources", "alerts", "notifications"} \/ form = None
    /\ open \notin Forms \cup {"chat"} \/ (calls = None /\ habit = None)
    /\ open \notin Forms \/ clicks = None
    /\ open \notin Forms \cup {"alerts"} \/ troubles = None
    /\ open \in Forms \cup {"notifications"} \/ testing = None
    /\ open \in {"metric form", "notifications"} \/ saving = None
    /\ open \in Forms \/
           (tests = None /\ started = None /\ verdict = None /\ typed = None /\ fate = None)
    /\ open \in {"routes", "notifications", "chat"} \/ loading = None
    /\ open \in {"notifications", "chat"} \/ visit = None
    /\ open = "config" \/ editor = None
    /\ open = "sources" \/ (editing = None /\ session = None)
    /\ open = "source form" \/
           (kind = None /\ settings = None)
    /\ open = "metric form" \/
           (metric = None /\ response = None /\ confirming = None)
    /\ open = "alerts" \/
           (list = None /\ rules = None /\ config = None /\ others = None /\ stale = None)
    /\ open = "routes" \/
           (channels = None /\ routes = None /\ generated = None /\ shown = None
                /\ loads = None /\ loaded = None)
    /\ open = "notifications" \/ (memory = None /\ file = None /\ raced = None)
    /\ open = "chat" \/
           (messages = None /\ thread = None /\ controller = None /\ stored = None
                /\ storing = None /\ requests = None /\ ended = None /\ strayed = None /\ cuts = None)

Init ==
    /\ \/ open = "config" /\ Config!Init
       \/ open = "sources" /\ Sources!Init
       \/ open = "source form" /\ SourceForm!Init
       \/ open = "metric form" /\ Metric!Init
       \/ open = "alerts" /\ Alerts!Init
       \/ open = "routes" /\ Routes!Init
       \/ open = "notifications" /\ Notifications!Init
       \/ open = "chat" /\ Chat!Init
    /\ InitUnused

Next ==
    \/ On("config") /\ Config!Next
    \/ On("sources") /\ Sources!Next
    \/ On("source form") /\ SourceForm!Next
    \/ On("metric form") /\ Metric!Next
    \/ On("alerts") /\ Alerts!Next
    \/ On("routes") /\ Routes!Next
    \/ On("notifications") /\ Notifications!Next
    \/ On("chat") /\ Chat!Next

Spec == Init /\ [][Next]_vars

(* What the server and the network do without the user, page by page.      *)
Fetch ==
    \/ On("config") /\ Config!Fetch
    \/ On("sources") /\ Sources!Fetch
    \/ On("alerts") /\ Alerts!FetchList
    \/ On("routes") /\ Routes!Load

Serve ==
    \/ On("config") /\ Config!Serve
    \/ On("sources") /\ Sources!Serve
    \/ On("source form") /\ SourceForm!Answer
    \/ On("metric form") /\ Metric!Serve
    \/ On("alerts") /\ Alerts!Serve
    \/ On("routes") /\ Routes!Serve
    \/ On("notifications") /\ Notifications!Serve
    \/ On("chat") /\ Chat!Serve

FairSpec == Spec /\ WF_vars(Fetch) /\ WF_vars(Serve)

-----------------------------------------------------------------------------
TypeOK ==
    CASE open = "config" -> Config!TypeOK
      [] open = "sources" -> Sources!TypeOK
      [] open = "source form" -> settings \in SourceForm!Settings(kind)
      [] open = "metric form" -> Metric!TypeOK
      [] open = "alerts" -> Alerts!TypeOK
      [] open = "routes" -> Routes!TypeOK
      [] open = "notifications" -> Notifications!TypeOK
      [] open = "chat" -> Chat!TypeOK

(* Once all answers are in, the pages of the configuration show the one    *)
(* the server has, unless somebody else changed it, a fetch failed or a    *)
(* refused request left a trace.                                           *)
ConfigIsCurrent == open = "config" => Config!ShownIsCurrent

(* A user of these pages who waits for the console, and is alone, hits the *)
(* rows that are shown, changes by a save of the settings only those he    *)
(* typed and the url, which is lost, and nothing by "save and apply".      *)
ConfigUseIsSafe == [][open = "config" => Config!UseIsSafe]_vars

(* Once all answers are in, the page of data sources shows the connections *)
(* that the server has, unless another person changed them or a fetch      *)
(* failed.                                                                 *)
SourcesAreCurrent == open = "sources" => Sources!SourcesAreCurrent

(* Saving or deleting a connection changes no other, nor fields of it that *)
(* a user who waits and is alone left as they were.                        *)
SourceSavesAreExact == [][open = "sources" => Sources!SaveIsExact]_vars

(* An answer closes the editor of the connection it is about and no other, *)
(* for a user who waits.                                                   *)
AnswersCloseTheirOwn == [][open = "sources" => Sources!AnswerClosesItsOwn]_vars

(* The verdict beside the buttons that try a connection or a query out is  *)
(* never a late one of an earlier try.                                     *)
VerdictIsTheLatest ==
    /\ open = "source form" => SourceForm!VerdictIsTheLatest
    /\ open = "metric form" => Metric!VerdictIsTheLatest

(* Once all answers are in, the list of rules and the page of a rule show  *)
(* what the server has, unless the evaluator has changed it since.         *)
AlertsAreCurrent == open = "alerts" => Alerts!AlertsAreCurrent

(* A user who waits and is alone changes no other rule and, of the rule he *)
(* edits, no field of the form he left alone but an interval that was not  *)
(* given: an edit never enables a disabled rule.                           *)
AlertEditsAreExact == [][open = "alerts" => Alerts!EditIsExact]_vars

(* A window or interval that is given is the one the evaluator goes by,    *)
(* whichever way the rule was edited.                                      *)
WindowsAreMeant == open = "alerts" => Alerts!WindowsAreMeant

(* Once all loads are in, the page of routes shows the server's two lists, *)
(* if the load it shows is the last one.                                   *)
RoutesAreCurrent == open = "routes" => Routes!ListsAreCurrent

(* A user who waits and is alone never makes a second channel or route by  *)
(* an edit, and keeps the fields and the items he did not touch.           *)
RouteSavesAreExact == [][open = "routes" => Routes!SaveIsExact]_vars

(* The notification page is saving just as long as a save of this visit    *)
(* runs, and a button that spins has a test running.                       *)
PageShowsItsCalls == open = "notifications" => Notifications!PageShowsItsCalls

(* When all saves are answered and none failed, the file holds what the    *)
(* server goes by, in whatever order the steps of two visits' saves come,  *)
(* unless the settings changed while an older image was being written.     *)
FileIsCurrent == open = "notifications" => Notifications!FileIsCurrent

(* A save of a user who waits changes just the settings he changed.        *)
NotifierSavesAreExact == [][open = "notifications" => Notifications!SaveIsExact]_vars

(* The chat is loading just as long as a request of its own runs: one at   *)
(* most, which was not aborted.                                            *)
LoadingIsRunning == open = "chat" => Chat!LoadingIsRunning

(* What streams in goes to the message of its own request, each part once  *)
(* and in order.                                                           *)
AnswersStayApart == open = "chat" => Chat!AnswersStayApart

(* After a complete answer the browser stores the messages that are shown, *)
(* unless they were cleared while that was still to be done.               *)
HistoryIsKept == open = "chat" => Chat!HistoryIsKept

(* Nothing is under way, and the page shows what the calls did.            *)
Settled ==
    CASE open = "config" -> Config!Settled
      [] open = "sources" -> Sources!Settled
      [] open = "source form" -> SourceForm!Open => ~testing
      [] open = "metric form" -> Metric!Settled
      [] open = "alerts" -> Alerts!Settled
      [] open = "routes" -> Routes!Settled
      [] open = "notifications" -> Notifications!Settled
      [] open = "chat" -> Chat!Settled

(* Whatever page is open: every call is answered in the end, no indicator  *)
(* goes on spinning, and the page comes to show what the calls did.        *)
EndsSettled == <>[]Settled
=============================================================================
