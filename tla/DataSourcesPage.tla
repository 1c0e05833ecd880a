--------------------------- MODULE DataSourcesPage ---------------------------
(***************************************************************************)
(* The console's page of data sources: the cached copy of the              *)
(* configuration, one editor per kind of source, and the calls that save   *)
(* and delete connections by name.  The server clones its configuration,   *)
(* changes, saves and reloads the clone, and publishes it: two calls that  *)
(* overlap may lose one change.                                            *)
(***************************************************************************)
EXTENDS DataSourceSettings, Naturals, FiniteSets, Functions

CONSTANTS
    None,           \* nothing
    Default,        \* the connection that is never deleted
    Other,          \* the name of another connection
    SessionKinds,   \* the kinds a session is about: a set of sets of kinds
    Habits,         \* the users: some wait for the console, some hurry
    MaxClicks,      \* cap on the calls the user makes
    MaxEvents       \* cap on calls, failures and edits of others together

INSTANCE QueryCache

VARIABLES
    server,         \* kind -> name -> settings, as the server holds them
    query,          \* the cache entry ['config']
    editing,        \* kind -> the name being edited, or None
    form,           \* kind -> the form that is open, or None
    calls,          \* the calls in flight
    clicks, troubles,
    missed,         \* the server differs from the copy for a known reason
    session,        \* the kinds this session is about
    habit

vars == <<server, query, editing, form, calls, clicks, troubles, missed,
          session, habit>>
editors == <<editing, form>>
bounds == <<clicks, troubles, session, habit>>

NamesOf(kind) == IF kind = "iotdb" THEN {Default} ELSE {Default, Other}

(* What a server may hold: some names of each kind.                        *)
Connections(kind) == UNION {[names -> Settings(kind)] : names \in SUBSET {Default, Other}}

Servers == [Kinds -> UNION {Connections(kind) : kind \in Kinds}]

IsSources(s) == s \in Servers /\ \A kind \in Kinds : s[kind] \in Connections(kind)

Quiet == calls = {} /\ ~Fetching(query)
MayAct == query.data # None /\ (habit = "waits" => Quiet)

(* Faulty: whatever is added starts from nothing. *)
RowSettingsNew(kind, name) == DefaultSettings(kind)

(* The row of a name: the name being added has one before it exists.       *)
RowSettings(kind, name) ==
    IF name \in DOMAIN query.data[kind] THEN query.data[kind][name]
    ELSE DefaultSettings(kind)

-----------------------------------------------------------------------------
(* The user. *)

Look == UNCHANGED <<server, query, calls, missed>> /\ UNCHANGED bounds

(* Setting editingX mounts the form of that row and unmounts the former.   *)
OpenEditor(kind, name) ==
    /\ editing' = [editing EXCEPT ![kind] = name]
    /\ form' = [form EXCEPT ![kind] =
                  [settings |-> RowSettings(kind, name), typed |-> {}]]

CloseEditor(kind) ==
    /\ editing' = [editing EXCEPT ![kind] = None]
    /\ form' = [form EXCEPT ![kind] = None]

Edit(kind, name) ==
    /\ MayAct
    /\ name \in DOMAIN query.data[kind] \ {editing[kind]}
    /\ OpenEditor(kind, name)
    /\ Look

(* AddConnectionDialog: a name that is in use opens that connection.  The  *)
(* name that is being edited already changes nothing.                      *)
Add(kind, name) ==
    /\ MayAct
    /\ kind # "iotdb"
    /\ name # editing[kind]
    /\ OpenEditor(kind, name)
    /\ Look

Cancel(kind) ==
    /\ MayAct
    /\ editing[kind] # None
    /\ CloseEditor(kind)
    /\ Look

Click(c) ==
    /\ clicks < MaxClicks
    /\ clicks + troubles < MaxEvents
    /\ clicks' = clicks + 1
    /\ calls' = calls \cup {c}
    /\ UNCHANGED <<server, query, missed, troubles, session, habit>>

Call(op, kind, name) ==
    [id |-> clicks + 1, op |-> op, kind |-> kind, name |-> name,
     settings |-> None, typed |-> {}, phase |-> "sent", clone |-> None]

(* The form with the change, if any, that the user makes before he saves.  *)
Typed(kind) ==
    {form[kind]} \cup
        {[settings |-> [form[kind].settings EXCEPT ![e.field] = e.value],
          typed |-> form[kind].typed \cup {e.field}] :
             e \in Edits(kind, form[kind].settings)}

(* Nothing keeps the user from pressing the button again before the answer.*)
SaveConnection(kind) ==
    /\ MayAct
    /\ form[kind] # None
    /\ \E f \in Typed(kind) :
           /\ Complete(f.settings)
           /\ form' = [form EXCEPT ![kind] = f]
           /\ Click([Call("save", kind, editing[kind]) EXCEPT
                         !.settings = f.settings, !.typed = f.typed])
    /\ UNCHANGED editing

(* The button of a row, and the dialog that asks once more.                *)
DeleteConnection(kind, name) ==
    /\ MayAct
    /\ kind # "iotdb"
    /\ name \in DOMAIN query.data[kind] \ {Default, editing[kind]}
    /\ Click(Call("delete", kind, name))
    /\ UNCHANGED editors

Section(kind) ==
    /\ kind \in session
    /\ \/ \E name \in NamesOf(kind) :
              Edit(kind, name) \/ Add(kind, name) \/ DeleteConnection(kind, name)
       \/ Cancel(kind) \/ SaveConnection(kind)

MySQLSection == Section("mysql")
RedisSection == Section("redis")
IoTDBSection == Section("iotdb")
RestAPISection == Section("restapi")

-----------------------------------------------------------------------------
(* The server and the network. *)

Update(c, d) == calls' = (calls \ {c}) \cup {d}

Missing(config, c) == c.op = "delete" /\ c.name \notin DOMAIN config[c.kind]

Changed(config, c) ==
    LET names == DOMAIN config[c.kind]
    IN  [config EXCEPT ![c.kind] =
            IF c.op = "delete" THEN Restrict(@, names \ {c.name})
            ELSE [n \in names \cup {c.name} |->
                      IF n = c.name THEN c.settings ELSE @[n]]]

Clone(c) ==
    /\ c.phase = "sent"
    /\ Update(c, IF Missing(server, c) THEN [c EXCEPT !.phase = "refused"]
                 ELSE [c EXCEPT !.phase = "cloned", !.clone = server])
    /\ UNCHANGED <<server, query, missed>>
    /\ UNCHANGED editors /\ UNCHANGED bounds

Publish(c) ==
    /\ c.phase = "cloned"
    /\ server' = Changed(c.clone, c)
    /\ Update(c, [c EXCEPT !.phase = "ok"])
    /\ UNCHANGED <<query, missed>> /\ UNCHANGED editors /\ UNCHANGED bounds

(* Saving the file or reloading fails.                                     *)
Refuse(c) ==
    /\ c.phase = "cloned"
    /\ clicks + troubles < MaxEvents
    /\ troubles' = troubles + 1
    /\ Update(c, [c EXCEPT !.phase = "refused"])
    /\ UNCHANGED <<server, query, missed, clicks, session, habit>>
    /\ UNCHANGED editors

(* Faulty: the page forgets to invalidate the cache. *)
DeliverForgetful(c) ==
    /\ calls' = calls \ {c}
    /\ c.phase \in {"ok", "refused"}
    /\ IF c.phase = "ok" /\ c.op = "save" THEN CloseEditor(c.kind)
       ELSE UNCHANGED editors
    /\ UNCHANGED <<server, query, missed>> /\ UNCHANGED bounds

(* Faulty: a save closes the editors of all kinds. *)
DeliverToAll(c) ==
    /\ calls' = calls \ {c}
    /\ \/ /\ c.phase = "ok"
          /\ query' = Invalidated(query, TRUE)
          /\ editing' = [kind \in Kinds |-> None]
          /\ form' = [kind \in Kinds |-> None]
       \/ c.phase = "refused" /\ UNCHANGED query /\ UNCHANGED editors
    /\ UNCHANGED <<server, missed>> /\ UNCHANGED bounds

(* The answer.  Success fetches anew, and a save closes whatever editor of *)
(* the kind is open; a failure is thrown at nobody and changes nothing.    *)
Deliver(c) ==
    /\ calls' = calls \ {c}
    /\ \/ /\ c.phase = "ok"
          /\ query' = Invalidated(query, TRUE)
          /\ IF c.op = "save" THEN CloseEditor(c.kind) ELSE UNCHANGED editors
       \/ c.phase = "refused" /\ UNCHANGED query /\ UNCHANGED editors
    /\ UNCHANGED <<server, missed>> /\ UNCHANGED bounds

AnswerFetch ==
    /\ query.fetch = "asked"
    /\ query' = Answered(query, server)
    /\ missed' = FALSE
    /\ UNCHANGED <<server, calls>> /\ UNCHANGED editors /\ UNCHANGED bounds

(* The forms that are open keep what they copied when they opened.         *)
ArriveFetch ==
    /\ query.fetch = "answered"
    /\ query' = Arrived(query)
    /\ UNCHANGED <<server, calls, missed>> /\ UNCHANGED editors /\ UNCHANGED bounds

FailFetch ==
    /\ Fetching(query)
    /\ clicks + troubles < MaxEvents
    /\ troubles' = troubles + 1
    /\ query' = Failed(query)
    /\ missed' = TRUE
    /\ UNCHANGED <<server, calls, clicks, session, habit>> /\ UNCHANGED editors

(* Another person saves a connection.                                      *)
OtherEdit ==
    /\ clicks + troubles < MaxEvents
    /\ troubles' = troubles + 1
    /\ \E kind \in session :
           server' = Changed(server, [op |-> "save", kind |-> kind, name |-> Default,
                                      settings |-> [DefaultSettings(kind) EXCEPT
                                                        !.main = "new"]])
    /\ missed' = TRUE
    /\ UNCHANGED <<query, calls, clicks, session, habit>> /\ UNCHANGED editors

-----------------------------------------------------------------------------
SavedSettings(kind) ==
    CASE kind = "redis" -> [main |-> "old", tls |-> TRUE, skip |-> FALSE]
      [] kind = "restapi" -> [main |-> "old", skip |-> FALSE, auth |-> "token"]
      [] OTHER -> [main |-> "old"]

Init ==
    /\ server = [kind \in Kinds |-> [name \in {Default} |-> SavedSettings(kind)]]
    /\ query = Mounted(EmptyQuery)
    /\ editing = [kind \in Kinds |-> None]
    /\ form = [kind \in Kinds |-> None]
    /\ calls = {}
    /\ clicks = 0 /\ troubles = 0
    /\ missed = FALSE
    /\ session \in SessionKinds
    /\ habit \in Habits

Fetch == AnswerFetch \/ ArriveFetch
Serve == \E c \in calls : Clone(c) \/ Publish(c) \/ Deliver(c)

Next ==
    \/ MySQLSection \/ RedisSection \/ IoTDBSection \/ RestAPISection
    \/ Fetch \/ Serve
    \/ \E c \in calls : Refuse(c)
    \/ FailFetch \/ OtherEdit

Spec == Init /\ [][Next]_vars

-----------------------------------------------------------------------------
TypeOK ==
    /\ \A s \in {server, query.data, query.answer} \ {None} : IsSources(s)
    /\ editing \in [Kinds -> {Default, Other, None}]
    /\ \A kind \in Kinds : form[kind] # None =>
           form[kind].settings \in Settings(kind) /\ form[kind].typed \subseteq Fields
    /\ \A c \in calls : c.phase \in {"sent", "cloned", "ok", "refused"}
    /\ missed \in BOOLEAN

(* Once all answers are in, the page shows the connections that the server *)
(* has, unless another person changed them or a fetch failed: no change of *)
(* the user's own fails to show.                                           *)
SourcesAreCurrent == Quiet /\ ~missed => query.data = server

(* The user who waits for the console and is alone changes what he means   *)
(* to: saving a connection changes no other and none of the fields he left *)
(* alone, and adding under a name in use does not reset that connection.   *)
Before(kind, name) ==
    IF name \in DOMAIN server[kind] THEN server[kind][name] ELSE DefaultSettings(kind)

ChangesOnly(c) ==
    /\ \A kind \in Kinds \ {c.kind} : server'[kind] = server[kind]
    /\ \A name \in NamesOf(c.kind) \ {c.name} :
           /\ name \in DOMAIN server'[c.kind] <=> name \in DOMAIN server[c.kind]
           /\ name \in DOMAIN server[c.kind] =>
                  server'[c.kind][name] = server[c.kind][name]
    /\ c.op = "save" =>
           \A field \in DOMAIN c.settings \ c.typed :
               server'[c.kind][c.name][field] = Before(c.kind, c.name)[field]

SaveIsExact ==
    habit = "waits" /\ troubles' = 0 =>
        \A c \in calls : c.phase = "cloned" /\ server' # server => ChangesOnly(c)

(* An answer closes the editor of the connection it is about and no other: *)
(* a user who waits never loses what he types elsewhere on the page.       *)
AnswerClosesItsOwn ==
    habit = "waits" =>
        \A c \in calls \ calls', kind \in Kinds :
            c.phase \in {"ok", "refused"} /\ editing'[kind] # editing[kind] =>
                c.kind = kind /\ c.name = editing[kind]

(* Every call is answered in the end, and the page shows what it did.      *)
Settled == calls = {} /\ (missed \/ query.data = server)
=============================================================================
