-------------------------- MODULE ConsoleQueryProofs --------------------------
(***************************************************************************)
(* Proofs that the pages of the console come to show what the server has:  *)
(* those that share an entry of the query cache (configuration, data       *)
(* sources, alert rules) and the page of routes, which loads two lists.    *)
(***************************************************************************)
EXTENDS ConsoleProofs

Cache == INSTANCE QueryCache

-----------------------------------------------------------------------------
(* One entry of the cache. *)

IsEntry(q) ==
    /\ DOMAIN q = {"data", "fetch", "answer"}
    /\ q.fetch \in {"idle", "asked", "answered"}

(* The entry shows v or is about to: a fetch that has still to be answered *)
(* will bring v, one that was answered brings it if that was v, and data   *)
(* that nobody uses are fetched anew when a page opens.                    *)
Fresh(q, v, used) ==
    \/ q.fetch = "asked"
    \/ q.fetch = "answered" /\ q.answer = v
    \/ q.fetch = "idle" /\ (used => q.data = v)

LEMMA MountedIsFresh ==
    ASSUME NEW q, IsEntry(q), NEW v, NEW used
    PROVE  /\ IsEntry(Cache!Mounted(q))
           /\ Fresh(q, v, used) => Fresh(Cache!Mounted(q), v, TRUE)
  BY DEF IsEntry, Fresh, Cache!Mounted, Cache!Fetching, Cache!Asked

LEMMA EmptyIsFresh ==
    ASSUME NEW v
    PROVE  /\ IsEntry(Cache!EmptyQuery)
           /\ Fresh(Cache!EmptyQuery, v, FALSE)
           /\ Fresh(Cache!Mounted(Cache!EmptyQuery), v, TRUE)
  BY DEF IsEntry, Fresh, Cache!Mounted, Cache!Fetching, Cache!Asked, Cache!EmptyQuery

(* An invalidation that overtakes no fetch makes the entry fresh, whatever *)
(* it was; one that does leaves a fresh entry fresh.                       *)
LEMMA InvalidatedIsFresh ==
    ASSUME NEW q, IsEntry(q), NEW v, NEW used \in BOOLEAN
    PROVE  /\ IsEntry(Cache!Invalidated(q, used))
           /\ Cache!Overtaken(q, used) \/ Fresh(Cache!Invalidated(q, used), v, used)
           /\ Fresh(q, v, used) => Fresh(Cache!Invalidated(q, used), v, used)
  BY DEF IsEntry, Fresh, Cache!Mounted, Cache!Fetching, Cache!Asked, Cache!Invalidated,
         Cache!Overtaken

LEMMA AnsweredIsFresh ==
    ASSUME NEW q, IsEntry(q), NEW v, NEW used
    PROVE  /\ IsEntry(Cache!Answered(q, v))
           /\ Fresh(Cache!Answered(q, v), v, used)
  BY DEF IsEntry, Fresh, Cache!Answered

LEMMA ArrivedIsFresh ==
    ASSUME NEW q, IsEntry(q), NEW v, NEW used, NEW usedThen
    PROVE  /\ IsEntry(Cache!Arrived(q))
           /\ q.fetch = "answered" /\ Fresh(q, v, used) =>
                  Fresh(Cache!Arrived(q), v, usedThen)
  BY DEF IsEntry, Fresh, Cache!Arrived

LEMMA FailedIsEntry ==
    ASSUME NEW q, IsEntry(q)
    PROVE  IsEntry(Cache!Failed(q))
  BY DEF IsEntry, Cache!Failed

(* All pages use the cache in the same way.                                *)
LEMMA OneCache ==
    ASSUME NEW q, NEW v, NEW used
    PROVE  /\ Config!EmptyQuery = Cache!EmptyQuery
           /\ Config!Mounted(q) = Cache!Mounted(q)
           /\ Config!Invalidated(q, used) = Cache!Invalidated(q, used)
           /\ Config!Answered(q, v) = Cache!Answered(q, v)
           /\ Config!Arrived(q) = Cache!Arrived(q)
           /\ Config!Failed(q) = Cache!Failed(q)
           /\ Sources!EmptyQuery = Cache!EmptyQuery
           /\ Sources!Mounted(q) = Cache!Mounted(q)
           /\ Sources!Invalidated(q, used) = Cache!Invalidated(q, used)
           /\ Sources!Answered(q, v) = Cache!Answered(q, v)
           /\ Sources!Arrived(q) = Cache!Arrived(q)
           /\ Sources!Failed(q) = Cache!Failed(q)
           /\ Alerts!EmptyQuery = Cache!EmptyQuery
           /\ Alerts!Mounted(q) = Cache!Mounted(q)
           /\ Alerts!Invalidated(q, used) = Cache!Invalidated(q, used)
           /\ Alerts!Answered(q, v) = Cache!Answered(q, v)
           /\ Alerts!Arrived(q) = Cache!Arrived(q)
           /\ Alerts!Failed(q) = Cache!Failed(q)
<1> USE DEF Cache!EmptyQuery, Cache!Mounted, Cache!Invalidated, Cache!Answered,
            Cache!Arrived, Cache!Failed, Cache!Fetching, Cache!Asked
<1>1. /\ Config!EmptyQuery = Cache!EmptyQuery
      /\ Config!Mounted(q) = Cache!Mounted(q)
      /\ Config!Invalidated(q, used) = Cache!Invalidated(q, used)
      /\ Config!Answered(q, v) = Cache!Answered(q, v)
      /\ Config!Arrived(q) = Cache!Arrived(q)
      /\ Config!Failed(q) = Cache!Failed(q)
  BY Zenon DEF Config!EmptyQuery, Config!Mounted, Config!Invalidated, Config!Answered,
            Config!Arrived, Config!Failed, Config!Fetching, Config!Asked
<1>2. /\ Sources!EmptyQuery = Cache!EmptyQuery
      /\ Sources!Mounted(q) = Cache!Mounted(q)
      /\ Sources!Invalidated(q, used) = Cache!Invalidated(q, used)
      /\ Sources!Answered(q, v) = Cache!Answered(q, v)
      /\ Sources!Arrived(q) = Cache!Arrived(q)
      /\ Sources!Failed(q) = Cache!Failed(q)
  BY Zenon DEF Sources!EmptyQuery, Sources!Mounted, Sources!Invalidated, Sources!Answered,
            Sources!Arrived, Sources!Failed, Sources!Fetching, Sources!Asked
<1>3. /\ Alerts!EmptyQuery = Cache!EmptyQuery
      /\ Alerts!Mounted(q) = Cache!Mounted(q)
      /\ Alerts!Invalidated(q, used) = Cache!Invalidated(q, used)
      /\ Alerts!Answered(q, v) = Cache!Answered(q, v)
      /\ Alerts!Arrived(q) = Cache!Arrived(q)
      /\ Alerts!Failed(q) = Cache!Failed(q)
  BY Zenon DEF Alerts!EmptyQuery, Alerts!Mounted, Alerts!Invalidated, Alerts!Answered,
            Alerts!Arrived, Alerts!Failed, Alerts!Fetching, Alerts!Asked
<1>4. QED
  BY <1>1, <1>2, <1>3

-----------------------------------------------------------------------------
(* The pages of the configuration. *)

IsConfigCall(c) ==
    DOMAIN c = {"id", "kind", "phase", "heard", "index", "row", "metric", "config"}

(* A success that a page has still to hear of, and will fetch after.       *)
SuccessIsToCome == \E c \in calls : c.heard /\ c.phase = "ok"

ConfigInv ==
    /\ IsEntry(query)
    /\ \A c \in calls : IsConfigCall(c)
    /\ missed \/ SuccessIsToCome \/ Fresh(query, server, Config!Used)

LEMMA ConfigBegins == Config!Init => ConfigInv
<1> SUFFICES ASSUME Config!Init PROVE ConfigInv
  OBVIOUS
<1>1. query = Cache!Mounted(Cache!EmptyQuery) /\ calls = {} /\ Config!Used
  BY OneCache DEF Config!Init, Config!Used
<1>2. IsEntry(query) /\ Fresh(query, server, TRUE)
  BY <1>1, EmptyIsFresh, MountedIsFresh
<1>3. QED
  BY <1>1, <1>2 DEF ConfigInv

(* What the user does with a page leaves the server and the copy alone.    *)
LEMMA ConfigClicks ==
    ASSUME ConfigInv, UNCHANGED <<server, query, missed, page>>,
           \/ UNCHANGED calls
           \/ \E c : IsConfigCall(c) /\ calls' = calls \cup {c}
    PROVE  ConfigInv'
<1>1. Config!Used' = Config!Used
  BY DEF Config!Used
<1>2. Fresh(query, server, Config!Used)' = Fresh(query, server, Config!Used)
  BY <1>1 DEF Fresh
<1>3. SuccessIsToCome => SuccessIsToCome'
  BY DEF SuccessIsToCome
<1>4. IsEntry(query)' /\ \A c \in calls' : IsConfigCall(c)
  BY DEF ConfigInv
<1>5. QED
  BY <1>2, <1>3, <1>4, Zenon DEF ConfigInv

LEMMA ConfigUserKept == ConfigInv /\ Config!User => ConfigInv'
<1> SUFFICES ASSUME ConfigInv, Config!User PROVE ConfigInv'
  OBVIOUS
<1>1. ASSUME NEW c, IsConfigCall(c), Config!Click(c), UNCHANGED page
      PROVE  ConfigInv'
  BY <1>1, ConfigClicks DEF Config!Click
<1>2. ASSUME Config!Look, UNCHANGED page
      PROVE  ConfigInv'
  BY <1>2, ConfigClicks DEF Config!Look
<1>3. ASSUME NEW k, NEW row, NEW m
      PROVE  IsConfigCall(Config!CallOn(k, row, m))
  BY DEF IsConfigCall, Config!CallOn, Config!Call
<1>4. ASSUME NEW i \in Config!Rows,
             Config!Toggle(i) \/ Config!AskDelete(i) \/ Config!Edit(i)
      PROVE  ConfigInv'
  BY <1>1, <1>2, <1>3, <1>4
     DEF Config!Toggle, Config!AskDelete, Config!Edit, Config!pageVars
<1>5. CASE Config!CancelDelete \/ Config!Add \/ Config!CancelEdit \/ Config!ClearInterval
  BY <1>2, <1>5
     DEF Config!CancelDelete, Config!Add, Config!CancelEdit, Config!ClearInterval
<1>6. CASE Config!ConfirmDelete
  BY <1>1, <1>3, <1>6 DEF Config!ConfirmDelete
<1>7. ASSUME NEW m, Config!SaveMetric(m)
      PROVE  ConfigInv'
  <2>1. IsConfigCall([Config!Call("create") EXCEPT !.metric = m])
    BY DEF IsConfigCall, Config!Call
  <2>2. QED
    BY <1>1, <1>3, <1>7, <2>1 DEF Config!SaveMetric, Config!pageVars
<1>8. CASE Config!SaveAndApply
  <2>1. IsConfigCall([Config!Call("apply") EXCEPT !.phase = "get"])
    BY DEF IsConfigCall, Config!Call
  <2>2. QED
    BY <1>1, <1>8, <2>1 DEF Config!SaveAndApply, Config!pageVars
<1>9. ASSUME NEW fields, Config!SaveSettings(fields)
      PROVE  ConfigInv'
  <2>1. ASSUME NEW row, NEW c
        PROVE  IsConfigCall([Config!Call("settings") EXCEPT !.row = row, !.config = c])
    BY DEF IsConfigCall, Config!Call
  <2>2. QED
    BY <1>1, <1>9, <2>1 DEF Config!SaveSettings
<1>10. ASSUME NEW p, Config!Open(p)
       PROVE  ConfigInv'
  <2>1. UNCHANGED <<server, calls, missed>> /\ page' = p
    BY <1>10 DEF Config!Open
  <2>2. SuccessIsToCome' = SuccessIsToCome
    BY <2>1 DEF SuccessIsToCome
  <2>3. IsEntry(query)' /\ (Fresh(query, server, Config!Used) => Fresh(query, server, Config!Used)')
    <3>1. CASE p \in Config!ConfigUsers
      <4>1. query' = Cache!Mounted(query) /\ Config!Used'
        BY <1>10, <2>1, <3>1, OneCache DEF Config!Open, Config!Used
      <4>2. IsEntry(query') /\ (Fresh(query, server, Config!Used) => Fresh(query', server, TRUE))
        BY <4>1, MountedIsFresh DEF ConfigInv
      <4>3. QED
        BY <2>1, <4>1, <4>2 DEF Fresh
    <3>2. CASE p \notin Config!ConfigUsers
      <4>1. query' = query /\ ~Config!Used'
        BY <1>10, <2>1, <3>2 DEF Config!Open, Config!Used
      <4>2. QED
        BY <2>1, <4>1 DEF Fresh, ConfigInv
    <3>3. QED
      BY <3>1, <3>2
  <2>4. QED
    BY <2>1, <2>2, <2>3 DEF ConfigInv
<1>11. QED
  BY <1>4, <1>5, <1>6, <1>7, <1>8, <1>9, <1>10, Zenon DEF Config!User

(* A request that changes the server's configuration succeeds and is still *)
(* to be heard of, or the change is known to be missed.                    *)
LEMMA ConfigHandleKept ==
    ASSUME ConfigInv, NEW c \in calls, NEW broken, Config!Handle(c, broken)
    PROVE  ConfigInv'
<1> DEFINE o == Config!Outcome(server, c, broken)
           d == [c EXCEPT !.phase = IF o.ok THEN "ok" ELSE "refused"]
<1>1. /\ c.phase \in {"sent", "put"} /\ IsConfigCall(c)
      /\ calls' = (calls \ {c}) \cup {d}
      /\ UNCHANGED <<query, page>>
  BY DEF Config!Handle, Config!Update, Config!pageVars, ConfigInv
<1>2. IsConfigCall(d) /\ d.heard = c.heard /\ (o.ok => d.phase = "ok")
  BY <1>1 DEF IsConfigCall
<1>3. missed => missed'
  BY Zenon DEF Config!Handle
<1>4. missed' \/ server' = server \/ (o.ok /\ c.heard)
  BY Zenon DEF Config!Handle
<1> HIDE DEF o, d
<1>5. IsEntry(query)' /\ \A e \in calls' : IsConfigCall(e)
  BY <1>1, <1>2 DEF ConfigInv
<1>6. CASE o.ok /\ c.heard
  <2>1. d \in calls' /\ d.heard /\ d.phase = "ok"
    BY <1>1, <1>2, <1>6
  <2>2. SuccessIsToCome'
    BY <2>1, Zenon DEF SuccessIsToCome
  <2>3. QED
    BY <1>5, <2>2 DEF ConfigInv
<1>7. CASE server' = server
  <2>1. SuccessIsToCome => SuccessIsToCome'
    BY <1>1 DEF SuccessIsToCome
  <2>2. Fresh(query, server, Config!Used)' = Fresh(query, server, Config!Used)
    BY <1>1, <1>7 DEF Fresh, Config!Used
  <2>3. QED
    BY <1>3, <1>5, <2>1, <2>2, Zenon DEF ConfigInv
<1>8. CASE missed'
  BY <1>5, <1>8, Zenon DEF ConfigInv
<1>9. QED
  BY <1>4, <1>6, <1>7, <1>8

(* The pages fetch anew after each success they hear of, and know when     *)
(* that fetch is not one from after the change.                            *)
LEMMA ConfigDeliverKept ==
    ASSUME ConfigInv, NEW c \in calls, Config!Deliver(c)
    PROVE  ConfigInv'
<1>1. /\ calls' = calls \ {c} /\ query' = Config!Done(c)
      /\ UNCHANGED <<server, page>>
  BY DEF Config!Deliver
<1>2. missed \/ Config!Overtaken(query, Config!Used) => missed'
  BY Zenon DEF Config!Deliver
<1>3. Config!Used' = Config!Used /\ Config!Used \in BOOLEAN
  BY <1>1 DEF Config!Used
<1>4. \A e \in calls' : IsConfigCall(e)
  BY <1>1 DEF ConfigInv
<1>5. CASE c.heard /\ c.phase = "ok"
  <2>1. query' = Cache!Invalidated(query, Config!Used)
    BY <1>1, <1>5, OneCache, Zenon DEF Config!Done
  <2>2. /\ IsEntry(query')
        /\ Cache!Overtaken(query, Config!Used) \/ Fresh(query', server, Config!Used)
    BY <1>3, <2>1, InvalidatedIsFresh DEF ConfigInv
  <2>3. Cache!Overtaken(query, Config!Used) => missed'
    BY <1>2, Zenon DEF Config!Overtaken, Cache!Overtaken, Config!Fetching, Cache!Fetching
  <2>4. Fresh(query', server, Config!Used) => Fresh(query, server, Config!Used)'
    BY <1>1, <1>3 DEF Fresh
  <2>5. QED
    BY <1>4, <2>2, <2>3, <2>4, Zenon DEF ConfigInv
<1>6. CASE ~(c.heard /\ c.phase = "ok")
  <2>1. query' = query
    BY <1>1, <1>6, Zenon DEF Config!Done
  <2>2. SuccessIsToCome => SuccessIsToCome'
    BY <1>1, <1>6, Zenon DEF SuccessIsToCome
  <2>3. Fresh(query, server, Config!Used)' = Fresh(query, server, Config!Used)
    BY <1>1, <1>3, <2>1 DEF Fresh
  <2>4. QED
    BY <1>2, <1>4, <2>1, <2>2, <2>3, Zenon DEF ConfigInv
<1>7. QED
  BY <1>5, <1>6

LEMMA ConfigReloadKept ==
    ASSUME ConfigInv, NEW p, Config!Reload(p)
    PROVE  ConfigInv'
<1>1. page' = p /\ UNCHANGED <<server, missed>>
  BY DEF Config!Reload
<1>2. \A c \in calls' : IsConfigCall(c)
  <2>1. calls' = {[c EXCEPT !.heard = FALSE] :
                      c \in {d \in calls : d.phase \in {"sent", "put"}}}
    BY DEF Config!Reload
  <2>2. QED
    BY <2>1 DEF ConfigInv, IsConfigCall
<1>3. IsEntry(query') /\ Fresh(query', server, Config!Used')
  <2>1. CASE p \in Config!ConfigUsers
    <3>1. query' = Cache!Mounted(Cache!EmptyQuery)
      BY <2>1, OneCache, Zenon DEF Config!Reload
    <3>2. Config!Used'
      BY <1>1, <2>1 DEF Config!Used
    <3>3. QED
      BY <3>1, <3>2, EmptyIsFresh, MountedIsFresh DEF Fresh
  <2>2. CASE p \notin Config!ConfigUsers
    <3>1. query' = Cache!EmptyQuery
      BY <2>2, OneCache, Zenon DEF Config!Reload
    <3>2. ~Config!Used'
      BY <1>1, <2>2 DEF Config!Used
    <3>3. QED
      BY <3>1, <3>2, EmptyIsFresh DEF Fresh
  <2>3. QED
    BY <2>1, <2>2
<1>4. Fresh(query, server, Config!Used)'
  BY <1>1, <1>3 DEF Fresh
<1>5. QED
  BY <1>2, <1>3, <1>4 DEF ConfigInv

LEMMA ConfigKept == ConfigInv /\ [Config!Next]_(Config!vars) => ConfigInv'
<1> SUFFICES ASSUME ConfigInv, [Config!Next]_(Config!vars) PROVE ConfigInv'
  OBVIOUS
<1>1. ASSUME NEW c \in calls, Config!ApplyRead(c) \/ Config!ApplyValidate(c)
      PROVE  ConfigInv'
  <2>1. \E d : IsConfigCall(d) /\ calls' = (calls \ {c}) \cup {d}
    BY <1>1
       DEF Config!ApplyRead, Config!ApplyValidate, Config!Update, ConfigInv, IsConfigCall
  <2>2. c.phase # "ok" /\ UNCHANGED <<server, query, missed, page>>
    BY <1>1 DEF Config!ApplyRead, Config!ApplyValidate, Config!pageVars
  <2>3. SuccessIsToCome => SuccessIsToCome'
    BY <2>1, <2>2 DEF SuccessIsToCome
  <2>4. Fresh(query, server, Config!Used)' = Fresh(query, server, Config!Used)
    BY <2>2 DEF Fresh, Config!Used
  <2>5. QED
    BY <2>1, <2>2, <2>3, <2>4 DEF ConfigInv
<1>2. CASE Config!AnswerFetch
  <2>1. query' = Cache!Answered(query, server) /\ UNCHANGED <<server, calls, page>>
    BY <1>2, OneCache DEF Config!AnswerFetch, Config!pageVars
  <2>2. IsEntry(query') /\ Fresh(query', server, Config!Used')
    BY <2>1, AnsweredIsFresh DEF ConfigInv
  <2>3. Fresh(query, server, Config!Used)'
    BY <2>1, <2>2 DEF Fresh
  <2>4. QED
    BY <2>1, <2>2, <2>3 DEF ConfigInv
<1>3. CASE Config!ArriveFetch
  <2>1. /\ query' = Cache!Arrived(query) /\ query.fetch = "answered"
        /\ UNCHANGED <<server, calls, missed>>
    BY <1>3, OneCache DEF Config!ArriveFetch
  <2>2. /\ IsEntry(query')
        /\ Fresh(query, server, Config!Used) => Fresh(query', server, Config!Used')
    BY <2>1, ArrivedIsFresh DEF ConfigInv
  <2>3. Fresh(query', server, Config!Used') => Fresh(query, server, Config!Used)'
    BY <2>1 DEF Fresh
  <2>4. SuccessIsToCome' = SuccessIsToCome
    BY <2>1 DEF SuccessIsToCome
  <2>5. QED
    BY <2>1, <2>2, <2>3, <2>4 DEF ConfigInv
<1>4. CASE Config!FailFetch
  <2>1. IsEntry(query') /\ calls' = calls
    BY <1>4, OneCache, FailedIsEntry DEF Config!FailFetch, ConfigInv
  <2>2. missed'
    BY <1>4, Zenon DEF Config!FailFetch
  <2>3. QED
    BY <2>1, <2>2 DEF ConfigInv
<1>5. CASE Config!OtherEdit
  <2>1. query' = query /\ calls' = calls
    BY <1>5 DEF Config!OtherEdit
  <2>2. missed'
    BY <1>5, Zenon DEF Config!OtherEdit
  <2>3. QED
    BY <2>1, <2>2 DEF ConfigInv
<1>6. CASE UNCHANGED Config!vars
  BY <1>6, ConfigClicks DEF Config!vars
<1>7. QED
  BY <1>1, <1>2, <1>3, <1>4, <1>5, <1>6, ConfigUserKept, ConfigHandleKept,
     ConfigDeliverKept, ConfigReloadKept, Zenon
     DEF Config!Next, Config!Fetch, Config!Serve

(* Whatever the user clicks and others change, however calls and fetches   *)
(* overlap, fail or are forgotten by a reload: when nothing is in flight,  *)
(* an open page shows the server's configuration, unless a change is known *)
(* to have passed it by.                                                   *)
THEOREM ConfigurationIsShown == Spec => []ConfigIsCurrent
<1> DEFINE Inv == open = "config" => ConfigInv
<1>1. Init => Inv
  BY ConfigSession, ConfigBegins
<1>2. Inv /\ [Next]_vars => Inv'
  BY OpenStays, ConfigSession, ConfigKept
<1>3. Inv => ConfigIsCurrent
  <2>1. ASSUME ConfigInv, Config!Used, Config!Quiet, ~missed
        PROVE  query.data = server
    BY <2>1
       DEF ConfigInv, SuccessIsToCome, IsEntry, Fresh, Config!Quiet, Config!Fetching
  <2>2. QED
    BY <2>1, Zenon DEF ConfigIsCurrent, Config!ShownIsCurrent
<1>4. QED
  BY <1>1, <1>2, <1>3, PTL DEF Spec

-----------------------------------------------------------------------------
(* The page of data sources. *)

(* What a change in a form leaves of the settings of a kind.               *)
LEMMA EditKeepsSettings ==
    ASSUME NEW k \in Sources!Kinds, NEW s \in Sources!Settings(k),
           NEW e \in Sources!Edits(k, s)
    PROVE  /\ e.field \in Sources!Fields
           /\ e.field \in DOMAIN s
           /\ [s EXCEPT ![e.field] = e.value] \in Sources!Settings(k)
<1>1. ASSUME NEW fields, NEW value, e \in Sources!Set(fields, value)
      PROVE  e.field = fields /\ e.value \in value
  BY <1>1 DEF Sources!Set
<1>2. CASE k \in {"mysql", "iotdb"}
  <2>1. Sources!Settings(k) = [main: Sources!Mains]
    BY <1>2 DEF Sources!Settings
  <2>2. s \in [main: Sources!Mains]
    BY <2>1, Zenon
  <2>3. e \in Sources!Set("main", {"new"})
    BY <1>2 DEF Sources!Edits, Sources!MySQLEdits, Sources!IoTDBEdits
  <2>4. e.field = "main" /\ e.value = "new"
    BY <1>1, <2>3
  <2>5. "new" \in Sources!Mains /\ "main" \in Sources!Fields
    BY DEF Sources!Mains, Sources!Fields
  <2>6. e.field \in DOMAIN s /\ [s EXCEPT ![e.field] = e.value] \in [main: Sources!Mains]
    BY <2>2, <2>4, <2>5
  <2>7. QED
    BY <2>1, <2>4, <2>5, <2>6, Zenon
<1>3. CASE k = "redis"
  <2> DEFINE R == [main: Sources!Mains, tls: BOOLEAN, skip: BOOLEAN]
  <2>1. Sources!Settings(k) = R
    BY <1>3 DEF Sources!Settings
  <2>2. s \in R
    BY <2>1, Zenon
  <2>3. \/ e \in Sources!Set("main", {"new"})
        \/ e \in Sources!Set("tls", {~s.tls})
        \/ e \in Sources!Set("skip", {~s.skip})
    BY <1>3 DEF Sources!Edits, Sources!RedisEdits
  <2>4. \/ e.field = "main" /\ e.value = "new"
        \/ e.field = "tls" /\ e.value \in BOOLEAN
        \/ e.field = "skip" /\ e.value \in BOOLEAN
    BY <1>1, <2>3
  <2>5. "new" \in Sources!Mains /\ {"main", "tls", "skip"} \subseteq Sources!Fields
    BY DEF Sources!Mains, Sources!Fields
  <2>6. e.field \in DOMAIN s /\ [s EXCEPT ![e.field] = e.value] \in R
    BY <2>2, <2>4, <2>5
  <2>7. QED
    BY <2>1, <2>4, <2>5, <2>6
<1>4. CASE k = "restapi"
  <2> DEFINE R == [main: Sources!Mains, skip: BOOLEAN, auth: Sources!Headers]
  <2>1. Sources!Settings(k) = R
    BY <1>4 DEF Sources!Settings
  <2>2. s \in R
    BY <2>1, Zenon
  <2>3. \/ e \in Sources!Set("main", {"new"})
        \/ e \in Sources!Set("skip", {~s.skip})
        \/ \E heads \in SUBSET Sources!Headers : e \in Sources!Set("auth", heads)
    <3>1. {Sources!AuthChosen(kind_) : kind_ \in {"none", "bearer", "apikey"}
                \ {Sources!AuthKind(s.auth)}} \subseteq Sources!Headers
      BY DEF Sources!AuthChosen, Sources!Headers
    <3>2. Sources!AuthTyped(s.auth) \subseteq Sources!Headers
      BY DEF Sources!AuthTyped, Sources!Headers
    <3>3. Sources!Edits(k, s) = Sources!RestAPIEdits(s)
      BY <1>4 DEF Sources!Edits
    <3>4. QED
      BY <3>1, <3>2, <3>3 DEF Sources!RestAPIEdits
  <2>4. \/ e.field = "main" /\ e.value = "new"
        \/ e.field = "skip" /\ e.value \in BOOLEAN
        \/ e.field = "auth" /\ e.value \in Sources!Headers
    BY <1>1, <2>3
  <2>5. "new" \in Sources!Mains /\ {"main", "skip", "auth"} \subseteq Sources!Fields
    BY DEF Sources!Mains, Sources!Fields
  <2>6. e.field \in DOMAIN s /\ [s EXCEPT ![e.field] = e.value] \in R
    BY <2>2, <2>4, <2>5
  <2>7. QED
    BY <2>1, <2>4, <2>5, <2>6
<1>5. QED
  BY <1>2, <1>3, <1>4 DEF Sources!Kinds

LEMMA DefaultSettingsType ==
    ASSUME NEW k \in Sources!Kinds
    PROVE  /\ Sources!DefaultSettings(k) \in Sources!Settings(k)
           /\ [Sources!DefaultSettings(k) EXCEPT !.main = "new"] \in Sources!Settings(k)
<1>1. {"blank", "new"} \subseteq Sources!Mains /\ "absent" \in Sources!Headers
  BY DEF Sources!Mains, Sources!Headers
<1>2. CASE k \in {"mysql", "iotdb"}
  <2>1. /\ Sources!Settings(k) = [main: Sources!Mains]
        /\ Sources!DefaultSettings(k) = [main |-> "blank"]
    BY <1>2 DEF Sources!Settings, Sources!DefaultSettings
  <2>2. QED
    BY <1>1, <2>1
<1>3. CASE k = "redis"
  <2>1. /\ Sources!Settings(k) = [main: Sources!Mains, tls: BOOLEAN, skip: BOOLEAN]
        /\ Sources!DefaultSettings(k) = [main |-> "blank", tls |-> FALSE, skip |-> FALSE]
    BY <1>3 DEF Sources!Settings, Sources!DefaultSettings
  <2>2. QED
    BY <1>1, <2>1
<1>4. CASE k = "restapi"
  <2>1. /\ Sources!Settings(k) = [main: Sources!Mains, skip: BOOLEAN, auth: Sources!Headers]
        /\ Sources!DefaultSettings(k) = [main |-> "blank", skip |-> FALSE, auth |-> "absent"]
    BY <1>4 DEF Sources!Settings, Sources!DefaultSettings
  <2>2. QED
    BY <1>1, <2>1
<1>5. QED
  BY <1>2, <1>3, <1>4 DEF Sources!Kinds

LEMMA NoneIsNoServer == \A s : Sources!IsSources(s) => s # None
  BY ConsoleAssumption, Zenon DEF ConsoleAssumption, Sources!IsSources

LEMMA KindsOfASession == SessionKinds \subseteq SUBSET Sources!Kinds
  BY ConsoleAssumption, Zenon DEF ConsoleAssumption

LEMMA ConnectionsOf ==
    ASSUME NEW s, Sources!IsSources(s), NEW k \in Sources!Kinds
    PROVE  /\ DOMAIN s[k] \subseteq {Default, Other}
           /\ \A name \in DOMAIN s[k] : s[k][name] \in Sources!Settings(k)
<1>1. s[k] \in Sources!Connections(k)
  BY Zenon DEF Sources!IsSources
<1>2. PICK names \in SUBSET {Default, Other} : s[k] \in [names -> Sources!Settings(k)]
  BY <1>1, Zenon DEF Sources!Connections
<1>3. QED
  BY <1>2

(* What a request asks for: a kind, a name and, to save, the settings.     *)
IsRequestFor(c) ==
    /\ c.kind \in Sources!Kinds
    /\ c.name \in {Default, Other}
    /\ c.op \in {"save", "delete"}
    /\ c.op = "save" => c.settings \in Sources!Settings(c.kind)

LEMMA ChangedIsSources ==
    ASSUME NEW s, Sources!IsSources(s), NEW c, IsRequestFor(c)
    PROVE  Sources!IsSources(Sources!Changed(s, c))
<1> DEFINE k == c.kind
           S == Sources!Settings(k)
           t == Sources!Changed(s, c)
<1>1. s \in Sources!Servers /\ \A kind_ \in Sources!Kinds : s[kind_] \in Sources!Connections(kind_)
  BY Zenon DEF Sources!IsSources
<1>2. k \in Sources!Kinds /\ c.name \in {Default, Other}
  BY Zenon DEF IsRequestFor
<1>3. s \in [Sources!Kinds -> UNION {Sources!Connections(kind_) : kind_ \in Sources!Kinds}]
  BY <1>1, Zenon DEF Sources!Servers
<1>4. PICK names \in SUBSET {Default, Other} : s[k] \in [names -> S]
  BY <1>1, <1>2, Zenon DEF Sources!Connections
<1>5. \E new \in Sources!Connections(k) : t = [s EXCEPT ![k] = new]
  <2>1. DOMAIN s[k] = names
    BY <1>4
  <2>2. CASE c.op = "delete"
    <3> DEFINE new == Sources!Restrict(s[k], names \ {c.name})
    <3>1. t = [s EXCEPT ![k] = new]
      BY <2>1, <2>2 DEF Sources!Changed
    <3>2. new \in [names \ {c.name} -> S]
      BY <1>4 DEF Sources!Restrict
    <3>3. names \ {c.name} \in SUBSET {Default, Other}
      OBVIOUS
    <3>4. new \in Sources!Connections(k)
      BY <3>2, <3>3, Zenon DEF Sources!Connections
    <3>5. QED
      BY <3>1, <3>4, Zenon
  <2>3. CASE c.op # "delete"
    <3> DEFINE new == [n \in names \cup {c.name} |->
                           IF n = c.name THEN c.settings ELSE s[k][n]]
    <3>1. t = [s EXCEPT ![k] = new]
      BY <2>1, <2>3 DEF Sources!Changed
    <3>2. c.settings \in S
      BY <2>3 DEF IsRequestFor
    <3>3. new \in [names \cup {c.name} -> S]
      BY <1>4, <3>2
    <3>4. names \cup {c.name} \in SUBSET {Default, Other}
      BY <1>2
    <3>5. new \in Sources!Connections(k)
      BY <3>3, <3>4, Zenon DEF Sources!Connections
    <3>6. QED
      BY <3>1, <3>5, Zenon
  <2>4. QED
    BY <2>2, <2>3
<1>6. PICK new \in Sources!Connections(k) : t = [s EXCEPT ![k] = new]
  BY <1>5, Zenon
<1> HIDE DEF t, S
<1>7. \A kind_ \in Sources!Kinds : t[kind_] \in Sources!Connections(kind_)
  BY <1>1, <1>2, <1>3, <1>6
<1>8. t \in [Sources!Kinds -> UNION {Sources!Connections(kind_) : kind_ \in Sources!Kinds}]
  BY <1>2, <1>3, <1>6
<1>9. QED
  BY <1>7, <1>8, Zenon DEF Sources!IsSources, Sources!Servers, t

IsSourceCall(c) ==
    /\ DOMAIN c = {"id", "op", "kind", "name", "settings", "typed", "phase", "clone"}
    /\ IsRequestFor(c)
    /\ c.phase = "cloned" => Sources!IsSources(c.clone)

IsSourceForm(k, f) ==
    /\ DOMAIN f = {"settings", "typed"}
    /\ f.settings \in Sources!Settings(k)
    /\ f.typed \subseteq Sources!Fields

SourcesType ==
    /\ Sources!IsSources(server)
    /\ IsEntry(query)
    /\ query.data = None \/ Sources!IsSources(query.data)
    /\ query.fetch = "answered" => Sources!IsSources(query.answer)
    /\ editing \in [Sources!Kinds -> {Default, Other, None}]
    /\ DOMAIN form = Sources!Kinds
    /\ \A k \in Sources!Kinds : form[k] # None =>
           IsSourceForm(k, form[k]) /\ editing[k] \in {Default, Other}
    /\ \A c \in calls : IsSourceCall(c)
    /\ calls # {} => query.data # None
    /\ session \subseteq Sources!Kinds

(* The page asks again after every success: it has data by then, and drops *)
(* whatever fetch is running.                                              *)
SourcesShow ==
    missed \/ (\E c \in calls : c.phase = "ok") \/ Fresh(query, server, TRUE)

SourcesInv == SourcesType /\ SourcesShow

LEMMA SourcesBegin == Sources!Init => SourcesInv
<1> SUFFICES ASSUME Sources!Init PROVE SourcesInv
  OBVIOUS
<1>1. /\ query = Cache!Mounted(Cache!EmptyQuery) /\ calls = {}
      /\ editing = [kind_ \in Sources!Kinds |-> None]
      /\ form = [kind_ \in Sources!Kinds |-> None]
      /\ server = [kind_ \in Sources!Kinds |->
                      [name \in {Default} |-> Sources!SavedSettings(kind_)]]
  BY OneCache, Zenon DEF Sources!Init
<1>2. IsEntry(query) /\ Fresh(query, server, TRUE)
  BY <1>1, EmptyIsFresh, MountedIsFresh
<1>3. query.data = None /\ query.fetch = "asked"
  BY <1>1 DEF Cache!Mounted, Cache!EmptyQuery, Cache!Asked, Cache!Fetching
<1>4. ASSUME NEW k \in Sources!Kinds PROVE server[k] \in Sources!Connections(k)
  <2>1. Sources!SavedSettings(k) \in Sources!Settings(k)
    <3>1. "old" \in Sources!Mains /\ "token" \in Sources!Headers
      BY DEF Sources!Mains, Sources!Headers
    <3>2. QED
      BY <3>1 DEF Sources!SavedSettings, Sources!Settings, Sources!Kinds
  <2>2. server[k] = [name \in {Default} |-> Sources!SavedSettings(k)]
    BY <1>1
  <2>3. server[k] \in [{Default} -> Sources!Settings(k)]
    BY <2>1, <2>2
  <2>4. {Default} \in SUBSET {Default, Other}
    OBVIOUS
  <2>5. QED
    BY <2>3, <2>4, Zenon DEF Sources!Connections
<1>5. Sources!IsSources(server)
  <2>1. server \in [Sources!Kinds -> UNION {Sources!Connections(kind_) : kind_ \in Sources!Kinds}]
    BY <1>1, <1>4
  <2>2. QED
    BY <1>4, <2>1 DEF Sources!IsSources, Sources!Servers
<1>6. session \subseteq Sources!Kinds
  BY KindsOfASession DEF Sources!Init
<1>7. QED
  BY <1>1, <1>2, <1>3, <1>5, <1>6 DEF SourcesInv, SourcesType, SourcesShow

(* What the page does without the server, and with calls it starts.        *)
LEMMA SourcesLook ==
    ASSUME SourcesInv, UNCHANGED <<server, query, missed>>,
           SourcesType',
           \A c \in calls : c.phase = "ok" => c \in calls'
    PROVE  SourcesInv'
<1>1. Fresh(query, server, TRUE)' = Fresh(query, server, TRUE)
  BY DEF Fresh
<1>2. QED
  BY <1>1, Zenon DEF SourcesInv, SourcesShow

LEMMA EditorOpens ==
    ASSUME SourcesType, NEW k \in Sources!Kinds, NEW name \in {Default, Other},
           query.data # None, Sources!OpenEditor(k, name), Sources!Look
    PROVE  SourcesType'
<1> DEFINE f == [settings |-> Sources!RowSettings(k, name), typed |-> {}]
<1>1. /\ editing' = [editing EXCEPT ![k] = name]
      /\ form' = [form EXCEPT ![k] = f]
      /\ UNCHANGED <<server, query, calls, session>>
  BY DEF Sources!OpenEditor, Sources!Look, Sources!bounds
<1>2. Sources!RowSettings(k, name) \in Sources!Settings(k)
  BY ConnectionsOf, DefaultSettingsType DEF Sources!RowSettings, SourcesType
<1>3. IsSourceForm(k, f)
  BY <1>2 DEF IsSourceForm
<1> HIDE DEF f
<1>4. /\ editing' \in [Sources!Kinds -> {Default, Other, None}]
      /\ DOMAIN form' = Sources!Kinds
  BY <1>1 DEF SourcesType
<1>5. \A k_ \in Sources!Kinds : form'[k_] # None =>
          IsSourceForm(k_, form'[k_]) /\ editing'[k_] \in {Default, Other}
  BY <1>1, <1>3 DEF SourcesType
<1>6. QED
  BY <1>1, <1>4, <1>5 DEF SourcesType

LEMMA EditorCloses ==
    ASSUME SourcesType, NEW k \in Sources!Kinds, Sources!CloseEditor(k)
    PROVE  /\ editing' \in [Sources!Kinds -> {Default, Other, None}]
           /\ DOMAIN form' = Sources!Kinds
           /\ \A k_ \in Sources!Kinds : form'[k_] # None =>
                  IsSourceForm(k_, form'[k_]) /\ editing'[k_] \in {Default, Other}
<1>1. /\ editing' = [editing EXCEPT ![k] = None]
      /\ form' = [form EXCEPT ![k] = None]
  BY DEF Sources!CloseEditor
<1>2. QED
  BY <1>1 DEF SourcesType

LEMMA TypedIsAForm ==
    ASSUME NEW k \in Sources!Kinds, IsSourceForm(k, form[k]), NEW f \in Sources!Typed(k)
    PROVE  IsSourceForm(k, f)
<1>1. CASE f = form[k]
  BY <1>1
<1>2. ASSUME NEW e \in Sources!Edits(k, form[k].settings),
             f = [settings |-> [form[k].settings EXCEPT ![e.field] = e.value],
                  typed |-> form[k].typed \cup {e.field}]
      PROVE  IsSourceForm(k, f)
  <2>1. form[k].settings \in Sources!Settings(k) /\ form[k].typed \subseteq Sources!Fields
    BY DEF IsSourceForm
  <2>2. /\ e.field \in Sources!Fields
        /\ [form[k].settings EXCEPT ![e.field] = e.value] \in Sources!Settings(k)
    BY <2>1, EditKeepsSettings
  <2>3. QED
    BY <1>2, <2>1, <2>2 DEF IsSourceForm
<1>3. QED
  BY <1>1, <1>2 DEF Sources!Typed

LEMMA SourcesSectionKept ==
    ASSUME SourcesInv, NEW k \in Sources!Kinds, Sources!Section(k)
    PROVE  SourcesInv'
<1>1. SourcesType
  BY DEF SourcesInv
<1>2. Sources!MayAct => query.data # None
  BY DEF Sources!MayAct
<1>3. ASSUME Sources!Look, SourcesType' PROVE SourcesInv'
  BY <1>3, SourcesLook DEF Sources!Look
<1>4. ASSUME NEW c, IsSourceCall(c), Sources!Click(c), query.data # None,
             editing' \in [Sources!Kinds -> {Default, Other, None}],
             DOMAIN form' = Sources!Kinds,
             \A k_ \in Sources!Kinds : form'[k_] # None =>
                 IsSourceForm(k_, form'[k_]) /\ editing'[k_] \in {Default, Other}
      PROVE  SourcesInv'
  <2>1. calls' = calls \cup {c} /\ UNCHANGED <<server, query, missed, session>>
    BY <1>4 DEF Sources!Click
  <2>2. SourcesType'
    BY <1>1, <1>4, <2>1 DEF SourcesType
  <2>3. QED
    BY <2>1, <2>2, SourcesLook
<1>5. ASSUME NEW name \in Sources!NamesOf(k), Sources!Edit(k, name) \/ Sources!Add(k, name)
      PROVE  SourcesInv'
  <2>1. name \in {Default, Other}
    BY <1>5 DEF Sources!NamesOf
  <2>2. query.data # None /\ Sources!OpenEditor(k, name) /\ Sources!Look
    BY <1>2, <1>5, Zenon DEF Sources!Edit, Sources!Add
  <2>3. QED
    BY <1>1, <1>3, <2>1, <2>2, EditorOpens
<1>6. ASSUME NEW name \in Sources!NamesOf(k), Sources!DeleteConnection(k, name)
      PROVE  SourcesInv'
  <2> DEFINE c == Sources!Call("delete", k, name)
  <2>1. name \in {Default, Other}
    BY <1>6 DEF Sources!NamesOf
  <2>2. query.data # None /\ Sources!Click(c) /\ UNCHANGED <<editing, form>>
    BY <1>2, <1>6, Zenon DEF Sources!DeleteConnection, Sources!editors
  <2>3. IsSourceCall(c)
    BY <2>1 DEF IsSourceCall, IsRequestFor, Sources!Call
  <2> HIDE DEF c
  <2>4. QED
    BY <1>1, <1>4, <2>2, <2>3 DEF SourcesType
<1>7. CASE Sources!Cancel(k)
  <2>1. Sources!CloseEditor(k) /\ Sources!Look
    BY <1>7, Zenon DEF Sources!Cancel
  <2>2. SourcesType'
    BY <1>1, <2>1, EditorCloses DEF Sources!Look, Sources!bounds, SourcesType
  <2>3. QED
    BY <1>3, <2>1, <2>2
<1>8. CASE Sources!SaveConnection(k)
  <2>1. /\ query.data # None /\ form[k] # None
        /\ editing' = editing
    BY <1>2, <1>8, Zenon DEF Sources!SaveConnection
  <2>2. PICK f \in Sources!Typed(k) :
            /\ form' = [form EXCEPT ![k] = f]
            /\ Sources!Click([Sources!Call("save", k, editing[k]) EXCEPT
                                 !.settings = f.settings, !.typed = f.typed])
    BY <1>8, Zenon DEF Sources!SaveConnection
  <2> DEFINE c == [Sources!Call("save", k, editing[k]) EXCEPT
                      !.settings = f.settings, !.typed = f.typed]
  <2>3. IsSourceForm(k, f) /\ editing[k] \in {Default, Other}
    BY <1>1, <2>1, TypedIsAForm DEF SourcesType
  <2>4. IsSourceCall(c)
    BY <2>3 DEF IsSourceCall, IsRequestFor, Sources!Call, IsSourceForm
  <2>5. Sources!Click(c)
    BY <2>2
  <2> HIDE DEF c
  <2>6. QED
    BY <1>1, <1>4, <2>1, <2>2, <2>3, <2>4, <2>5 DEF SourcesType
<1>9. QED
  BY <1>5, <1>6, <1>7, <1>8, Zenon DEF Sources!Section

LEMMA SourcesServeKept ==
    ASSUME SourcesInv, NEW c \in calls,
           Sources!Clone(c) \/ Sources!Publish(c) \/ Sources!Deliver(c) \/ Sources!Refuse(c)
    PROVE  SourcesInv'
<1>1. IsSourceCall(c) /\ SourcesType /\ query.data # None
  BY DEF SourcesInv, SourcesType
<1>2. ASSUME NEW d, IsSourceCall(d), calls' = (calls \ {c}) \cup {d},
             UNCHANGED <<query, editing, form, session>>, Sources!IsSources(server')
      PROVE  SourcesType'
  BY <1>1, <1>2 DEF SourcesType
<1>3. CASE Sources!Clone(c) \/ Sources!Refuse(c)
  <2>1. c.phase # "ok" /\ UNCHANGED <<server, query, missed, editing, form, session>>
    BY <1>3 DEF Sources!Clone, Sources!Refuse, Sources!editors, Sources!bounds
  <2>2. \E d : IsSourceCall(d) /\ calls' = (calls \ {c}) \cup {d}
    <3>1. IsSourceCall([c EXCEPT !.phase = "refused"])
      BY <1>1 DEF IsSourceCall, IsRequestFor
    <3>2. IsSourceCall([c EXCEPT !.phase = "cloned", !.clone = server])
      BY <1>1 DEF IsSourceCall, IsRequestFor, SourcesType
    <3>3. QED
      BY <1>3, <3>1, <3>2, Zenon DEF Sources!Clone, Sources!Refuse, Sources!Update
  <2>3. SourcesType'
    BY <1>1, <1>2, <2>1, <2>2 DEF SourcesType
  <2>4. QED
    BY <2>1, <2>2, <2>3, SourcesLook
<1>4. CASE Sources!Publish(c)
  <2> DEFINE d == [c EXCEPT !.phase = "ok"]
  <2>1. /\ c.phase = "cloned" /\ server' = Sources!Changed(c.clone, c)
        /\ calls' = (calls \ {c}) \cup {d}
        /\ UNCHANGED <<query, editing, form, session>>
    BY <1>4, Zenon DEF Sources!Publish, Sources!Update, Sources!editors, Sources!bounds
  <2>2. IsSourceCall(d) /\ d.phase = "ok"
    BY <1>1, <2>1 DEF IsSourceCall, IsRequestFor
  <2>3. Sources!IsSources(server')
    BY <1>1, <2>1, ChangedIsSources DEF IsSourceCall
  <2> HIDE DEF d
  <2>4. SourcesType'
    BY <1>2, <2>1, <2>2, <2>3
  <2>5. \E e \in calls' : e.phase = "ok"
    BY <2>1, <2>2
  <2>6. QED
    BY <2>4, <2>5, Zenon DEF SourcesInv, SourcesShow
<1>5. CASE Sources!Deliver(c)
  <2>1. calls' = calls \ {c} /\ UNCHANGED <<server, session>> /\ (missed => missed')
    BY <1>5, Zenon DEF Sources!Deliver, Sources!bounds
  <2>2. /\ editing' \in [Sources!Kinds -> {Default, Other, None}]
        /\ DOMAIN form' = Sources!Kinds
        /\ \A k_ \in Sources!Kinds : form'[k_] # None =>
               IsSourceForm(k_, form'[k_]) /\ editing'[k_] \in {Default, Other}
    <3>1. UNCHANGED Sources!editors \/ Sources!CloseEditor(c.kind)
      BY <1>5, Zenon DEF Sources!Deliver
    <3>2. c.kind \in Sources!Kinds
      BY <1>1 DEF IsSourceCall, IsRequestFor
    <3>3. CASE UNCHANGED Sources!editors
      BY <1>1, <3>3 DEF SourcesType, Sources!editors, Sources!bounds
    <3>4. QED
      BY <1>1, <3>1, <3>2, <3>3, EditorCloses
  <2>3. CASE c.phase = "ok"
    <3>1. query' = Cache!Invalidated(query, TRUE)
      BY <1>5, <2>3, OneCache DEF Sources!Deliver
    <3>2. IsEntry(query') /\ Fresh(query', server, TRUE)
      <4>1. ~Cache!Overtaken(query, TRUE)
        BY <1>1 DEF Cache!Overtaken
      <4>2. QED
        BY <1>1, <3>1, <4>1, InvalidatedIsFresh DEF SourcesType
    <3>3. query'.data = query.data /\ query'.fetch = "asked"
      BY <1>1, <3>1 DEF Cache!Invalidated, Cache!Asked, SourcesType, IsEntry
    <3>4. SourcesType'
      BY <1>1, <2>1, <2>2, <3>2, <3>3 DEF SourcesType
    <3>5. Fresh(query, server, TRUE)'
      BY <2>1, <3>2 DEF Fresh
    <3>6. QED
      BY <3>4, <3>5, Zenon DEF SourcesInv, SourcesShow
  <2>4. CASE c.phase # "ok"
    <3>1. query' = query
      BY <1>5, <2>4 DEF Sources!Deliver
    <3>2. SourcesType'
      BY <1>1, <2>1, <2>2, <3>1 DEF SourcesType
    <3>3. (\E e \in calls : e.phase = "ok") => \E e \in calls' : e.phase = "ok"
      BY <2>1, <2>4
    <3>4. Fresh(query, server, TRUE)' = Fresh(query, server, TRUE)
      BY <2>1, <3>1 DEF Fresh
    <3>5. QED
      BY <2>1, <3>2, <3>3, <3>4, Zenon DEF SourcesInv, SourcesShow
  <2>5. QED
    BY <2>3, <2>4
<1>6. QED
  BY <1>3, <1>4, <1>5

LEMMA SourcesKept == SourcesInv /\ [Sources!Next]_(Sources!vars) => SourcesInv'
<1> SUFFICES ASSUME SourcesInv, [Sources!Next]_(Sources!vars) PROVE SourcesInv'
  OBVIOUS
<1>1. SourcesType
  BY DEF SourcesInv
<1>2. CASE Sources!AnswerFetch
  <2>1. /\ query' = Cache!Answered(query, server)
        /\ UNCHANGED <<server, calls, editing, form, session>>
    BY <1>2, OneCache DEF Sources!AnswerFetch, Sources!editors, Sources!bounds
  <2>2. IsEntry(query') /\ Fresh(query', server, TRUE)
    BY <1>1, <2>1, AnsweredIsFresh DEF SourcesType
  <2>3. query'.data = query.data /\ query'.answer = server
    BY <1>1, <2>1 DEF Cache!Answered, SourcesType, IsEntry
  <2>4. SourcesType'
    BY <1>1, <2>1, <2>2, <2>3 DEF SourcesType
  <2>5. Fresh(query, server, TRUE)'
    BY <2>1, <2>2 DEF Fresh
  <2>6. QED
    BY <2>4, <2>5 DEF SourcesInv, SourcesShow
<1>3. CASE Sources!ArriveFetch
  <2>1. /\ query' = Cache!Arrived(query) /\ query.fetch = "answered"
        /\ UNCHANGED <<server, calls, missed, editing, form, session>>
    BY <1>3, OneCache DEF Sources!ArriveFetch, Sources!editors, Sources!bounds
  <2>2. IsEntry(query') /\ (Fresh(query, server, TRUE) => Fresh(query', server, TRUE))
    BY <1>1, <2>1, ArrivedIsFresh DEF SourcesType
  <2>3. query'.data = query.answer /\ query'.fetch = "idle"
    BY <2>1 DEF Cache!Arrived
  <2>4. SourcesType'
    BY <1>1, <2>1, <2>2, <2>3, NoneIsNoServer DEF SourcesType
  <2>5. Fresh(query, server, TRUE) => Fresh(query, server, TRUE)'
    BY <2>1, <2>2 DEF Fresh
  <2>6. QED
    BY <2>1, <2>4, <2>5 DEF SourcesInv, SourcesShow
<1>4. CASE Sources!OtherEdit
  <2>1. PICK k \in session :
            server' = Sources!Changed(server,
                          [op |-> "save", kind |-> k, name |-> Default,
                           settings |-> [Sources!DefaultSettings(k) EXCEPT !.main = "new"]])
    BY <1>4, Zenon DEF Sources!OtherEdit
  <2>2. UNCHANGED <<query, calls, editing, form, session>>
    BY <1>4 DEF Sources!OtherEdit, Sources!editors, Sources!bounds
  <2>3. missed'
    BY <1>4, Zenon DEF Sources!OtherEdit
  <2>4. Sources!IsSources(server')
    <3> DEFINE c == [op |-> "save", kind |-> k, name |-> Default,
                     settings |-> [Sources!DefaultSettings(k) EXCEPT !.main = "new"]]
    <3>1. k \in Sources!Kinds
      BY <1>1 DEF SourcesType
    <3>2. IsRequestFor(c)
      BY <3>1, DefaultSettingsType DEF IsRequestFor
    <3>3. server' = Sources!Changed(server, c)
      BY <2>1
    <3> HIDE DEF c
    <3>4. QED
      BY <1>1, <3>2, <3>3, ChangedIsSources DEF SourcesType
  <2>5. SourcesType'
    BY <1>1, <2>2, <2>4 DEF SourcesType
  <2>6. QED
    BY <2>3, <2>5 DEF SourcesInv, SourcesShow
<1>5. CASE UNCHANGED Sources!vars
  <2>1. UNCHANGED <<server, query, missed, calls, editing, form, session>>
    BY <1>5 DEF Sources!vars
  <2>2. SourcesType'
    BY <1>1, <2>1 DEF SourcesType
  <2>3. QED
    BY <2>1, <2>2, SourcesLook
<1>6. ASSUME NEW k \in Sources!Kinds, Sources!Section(k) PROVE SourcesInv'
  BY <1>6, SourcesSectionKept
<1>7. CASE Sources!FailFetch
  <2>1. /\ query' = Cache!Failed(query)
        /\ UNCHANGED <<server, calls, editing, form, session>>
    BY <1>7, OneCache DEF Sources!FailFetch, Sources!editors
  <2>2. IsEntry(query')
    BY <1>1, <2>1, FailedIsEntry DEF SourcesType
  <2>3. query'.data = query.data /\ query'.fetch = "idle"
    BY <1>1, <2>1 DEF Cache!Failed, SourcesType, IsEntry
  <2>4. SourcesType'
    BY <1>1, <2>1, <2>2, <2>3 DEF SourcesType
  <2>5. missed'
    BY <1>7, Zenon DEF Sources!FailFetch
  <2>6. QED
    BY <2>4, <2>5 DEF SourcesInv, SourcesShow
<1>8. QED
  BY <1>2, <1>3, <1>4, <1>5, <1>6, <1>7, SourcesServeKept, Zenon
     DEF Sources!Next, Sources!Fetch, Sources!Serve, Sources!Kinds,
         Sources!MySQLSection, Sources!RedisSection, Sources!IoTDBSection,
         Sources!RestAPISection

(* However saves, deletions and fetches overlap, the page of data sources  *)
(* shows the connections of the server once all answers are in, unless     *)
(* another person has changed them or a fetch has failed.                  *)
THEOREM SourcesAreShown == Spec => []SourcesAreCurrent
<1> DEFINE Inv == open = "sources" => SourcesInv
<1>1. Init => Inv
  BY SourcesSession, SourcesBegin
<1>2. Inv /\ [Next]_vars => Inv'
  BY OpenStays, SourcesSession, SourcesKept
<1>3. Inv => SourcesAreCurrent
  <2>1. ASSUME SourcesInv, Sources!Quiet, ~missed
        PROVE  query.data = server
    <3>1. calls = {} /\ query.fetch = "idle"
      BY <2>1 DEF Sources!Quiet, Sources!Fetching
    <3>2. Fresh(query, server, TRUE)
      BY <2>1, <3>1, Zenon DEF SourcesInv, SourcesShow
    <3>3. QED
      BY <3>1, <3>2 DEF Fresh
  <2>2. QED
    BY <2>1, Zenon DEF SourcesAreCurrent, Sources!SourcesAreCurrent
<1>4. QED
  BY <1>1, <1>2, <1>3, PTL DEF Spec

-----------------------------------------------------------------------------
(* The pages of the alert rules. *)

LEMMA AlertsAssumed ==
    /\ "list" \notin Ids /\ "new" \notin Ids
    /\ \A s \in Sessions : Alerts!IsStore(s.rules) /\ Alerts!AreMeant(s.rules)
  BY ConsoleAssumption, Zenon DEF ConsoleAssumption

IsRule(r) ==
    /\ DOMAIN r = Alerts!Fields \cup {"ms", "state", "seen"}
    /\ r.condition \in Alerts!Condition

(* A rule of the server: its window and its interval are those meant.      *)
IsStoredRule(r) ==
    /\ IsRule(r)
    /\ r.condition.type # "threshold" /\ r.condition.window # "blank" =>
           r.condition.ms = r.condition.window
    /\ r.interval # "blank" => r.ms = r.interval

(* A rule as a form holds it. *)
IsDraft(r) ==
    /\ DOMAIN r = Alerts!Fields
    /\ r.condition \in Alerts!Condition

LEMMA NewConditionType ==
    ASSUME NEW type \in Alerts!Types
    PROVE  Alerts!NewCondition(type) \in Alerts!Condition
  BY DEF Alerts!NewCondition, Alerts!Condition, Alerts!Types, Alerts!Windows

LEMMA NewRuleIsADraft == IsDraft(Alerts!NewRule)
<1>1. "threshold" \in Alerts!Types
  BY DEF Alerts!Types
<1>2. QED
  BY <1>1, NewConditionType DEF IsDraft, Alerts!NewRule, Alerts!Fields

LEMMA EditKeepsDraft ==
    ASSUME NEW r, IsDraft(r), NEW e \in Alerts!Edits(r)
    PROVE  /\ e.field \in Alerts!Fields
           /\ IsDraft([r EXCEPT ![e.field] = e.value])
<1>1. ASSUME NEW field, NEW values, e \in Alerts!Change(field, values)
      PROVE  e.field = field /\ e.value \in values
  BY <1>1 DEF Alerts!Change
<1>2. ASSUME NEW c \in Alerts!ConditionEdits(r.condition)
      PROVE  c \in Alerts!Condition
  <2>1. r.condition \in Alerts!Condition
    BY DEF IsDraft
  <2>2. r.condition.type \in {"threshold", "trend", "anomaly"}
    BY <2>1 DEF Alerts!Condition, Alerts!Types
  <2>3. \/ c \in Alerts!TypeChanges(r.condition)
        \/ c \in Alerts!ThresholdEdits(r.condition)
        \/ c \in Alerts!TrendEdits(r.condition)
        \/ c \in Alerts!AnomalyEdits(r.condition)
    BY <2>2 DEF Alerts!ConditionEdits
  <2>4. CASE c \in Alerts!TypeChanges(r.condition)
    BY <2>4, NewConditionType DEF Alerts!TypeChanges
  <2>5. CASE \E w \in Alerts!Windows : c = [r.condition EXCEPT !.window = w]
    BY <2>1, <2>5 DEF Alerts!Condition
  <2>6. QED
    BY <2>3, <2>4, <2>5
       DEF Alerts!ThresholdEdits, Alerts!TrendEdits, Alerts!AnomalyEdits
<1>3. \/ e \in Alerts!Change("name", {"new"})
      \/ e \in Alerts!Change("text", {"new"})
      \/ e \in Alerts!Change("mode", {"collection", "scheduled"})
      \/ e \in Alerts!Change("interval", Alerts!IntervalEdits(r))
      \/ e \in Alerts!Change("condition", Alerts!ConditionEdits(r.condition))
      \/ e \in Alerts!Change("labels", Alerts!LabelEdits(r.labels))
  BY Zenon DEF Alerts!Edits
<1>4. CASE e.field = "condition" /\ e.value \in Alerts!Condition
  BY <1>4 DEF IsDraft, Alerts!Fields
<1>5. CASE e.field \in {"name", "text", "mode", "interval", "labels"}
  BY <1>5 DEF IsDraft, Alerts!Fields
<1>6. QED
  BY <1>1, <1>2, <1>3, <1>4, <1>5

(* The form of a rule is a draft. *)
LEMMA CopiedIsADraft ==
    ASSUME NEW r, IsRule(r)
    PROVE  IsDraft(Alerts!Copied(r))
<1>1. DOMAIN Alerts!Copied(r) = Alerts!Fields /\ Alerts!Copied(r).condition = r.condition
  BY DEF Alerts!Copied, Alerts!Fields
<1>2. QED
  BY <1>1 DEF IsDraft, IsRule

(* What the server makes of a draft is a rule with the window that is meant.*)
LEMMA StoredIsARule ==
    ASSUME NEW r, IsDraft(r), NEW state
    PROVE  IsStoredRule(Alerts!Stored(r, state))
<1> DEFINE t == Alerts!Stored(r, state)
<1>1. /\ DOMAIN t = Alerts!Fields \cup {"ms", "state", "seen"}
      /\ t.condition = Alerts!Parsed(r.condition)
      /\ t.ms = r.interval /\ t.interval = r.interval
  BY DEF Alerts!Stored, Alerts!Fields
<1>2. r.condition \in Alerts!Condition
  BY DEF IsDraft
<1>3. /\ Alerts!Parsed(r.condition) \in Alerts!Condition
      /\ Alerts!Parsed(r.condition).type # "threshold"
             /\ Alerts!Parsed(r.condition).window # "blank" =>
                 Alerts!Parsed(r.condition).ms = Alerts!Parsed(r.condition).window
  BY <1>2 DEF Alerts!Parsed, Alerts!Condition
<1> HIDE DEF t
<1>4. QED
  BY <1>1, <1>3 DEF IsStoredRule, IsRule, t

AreRules(s) ==
    /\ DOMAIN s \subseteq Ids
    /\ \A id \in DOMAIN s : IsStoredRule(s[id])

IsAlertCall(c) ==
    /\ DOMAIN c = {"n", "op", "id", "rule", "typed", "phase"}
    /\ c.op \in {"create", "update"} => IsDraft(c.rule)

IsRuleEntry(q) ==
    /\ IsEntry(q)
    /\ q.data # None => IsRule(q.data)
    /\ q.fetch = "answered" => IsRule(q.answer)

AlertsCache == IsEntry(list) /\ DOMAIN rules = Ids /\ \A id \in Ids : IsRuleEntry(rules[id])

IsAlertForm(f) == DOMAIN f = {"rule", "typed"} /\ IsDraft(f.rule)

AlertsType ==
    /\ AreRules(server)
    /\ AlertsCache
    /\ form # None => IsAlertForm(form)
    /\ \A c \in calls : IsAlertCall(c)

(* A success that the pages have still to hear of.                         *)
ChangeIsToCome == \E c \in calls : c.phase = "ok"

FreshList == Fresh(list, server, page = "list")
FreshRule(id) == id \in DOMAIN server => Fresh(rules[id], server[id], page = id)

AlertsShow ==
    /\ "list" \in stale \/ ChangeIsToCome \/ FreshList
    /\ \A id \in Ids : id \in stale \/ ChangeIsToCome \/ FreshRule(id)

AlertsInv == AlertsType /\ AlertsShow

LEMMA EntriesBegin ==
    ASSUME NEW q, q = Cache!EmptyQuery \/ q = Cache!Mounted(Cache!EmptyQuery)
    PROVE  IsRuleEntry(q)
<1>1. q.data = None /\ q.fetch \in {"idle", "asked"}
  <2>1. /\ Cache!EmptyQuery.data = None
        /\ Cache!EmptyQuery.fetch = "idle"
        /\ DOMAIN Cache!EmptyQuery = {"data", "fetch", "answer"}
    BY DEF Cache!EmptyQuery
  <2>2. Cache!Mounted(Cache!EmptyQuery) = Cache!Asked(Cache!EmptyQuery)
    BY <2>1 DEF Cache!Mounted, Cache!Fetching
  <2>3. /\ Cache!Asked(Cache!EmptyQuery).data = None
        /\ Cache!Asked(Cache!EmptyQuery).fetch = "asked"
    BY <2>1 DEF Cache!Asked
  <2>4. QED
    BY <2>1, <2>2, <2>3
<1>2. IsEntry(q)
  BY EmptyIsFresh, MountedIsFresh
<1>3. QED
  BY <1>1, <1>2 DEF IsRuleEntry

LEMMA AlertsBegin == Alerts!Init => AlertsInv
<1> SUFFICES ASSUME Alerts!Init PROVE AlertsInv
  OBVIOUS
<1>1. /\ list = IF page = "list" THEN Cache!Mounted(Cache!EmptyQuery) ELSE Cache!EmptyQuery
      /\ rules = [id \in Ids |-> IF page = id THEN Cache!Mounted(Cache!EmptyQuery)
                                 ELSE Cache!EmptyQuery]
      /\ calls = {} /\ form = None
  BY OneCache DEF Alerts!Init
<1>2. PICK s \in Sessions : server = s.rules
  BY Zenon DEF Alerts!Init
<1>3. Alerts!IsStore(server) /\ Alerts!AreMeant(server)
  BY <1>2, AlertsAssumed
<1>4. AreRules(server)
  <2>1. DOMAIN server \subseteq Ids
    BY <1>3 DEF Alerts!IsStore
  <2>2. ASSUME NEW id \in DOMAIN server PROVE IsStoredRule(server[id])
    <3>1. server[id] \in Alerts!Rule
      BY <1>3 DEF Alerts!IsStore
    <3>2. IsRule(server[id])
      BY <3>1 DEF Alerts!Rule, IsRule, Alerts!Fields
    <3>3. LET condition == server[id].condition
          IN  /\ condition.type # "threshold" /\ condition.window # "blank" =>
                     condition.ms = condition.window
              /\ server[id].interval # "blank" => server[id].ms = server[id].interval
      BY <1>3, Zenon DEF Alerts!AreMeant
    <3>4. QED
      BY <3>2, <3>3 DEF IsStoredRule
  <2>3. QED
    BY <2>1, <2>2 DEF AreRules
<1>5. AlertsCache
  <2>1. IsEntry(list)
    BY <1>1, EntriesBegin DEF IsRuleEntry
  <2>2. \A id \in Ids : IsRuleEntry(rules[id])
    BY <1>1, EntriesBegin
  <2>3. QED
    BY <1>1, <2>1, <2>2 DEF AlertsCache
<1>6. FreshList
  BY <1>1, EmptyIsFresh DEF FreshList, Fresh
<1>7. \A id \in Ids : FreshRule(id)
  BY <1>1, EmptyIsFresh DEF FreshRule, Fresh
<1>8. QED
  BY <1>1, <1>4, <1>5, <1>6, <1>7 DEF AlertsInv, AlertsType, AlertsShow

(* Going to a page fetches what it shows.                                  *)
LEMMA AlertsMount ==
    ASSUME AlertsCache, NEW p, page' = p, Alerts!Mount(p), server' = server
    PROVE  /\ AlertsCache'
           /\ FreshList => FreshList'
           /\ \A id \in Ids : FreshRule(id) => FreshRule(id)'
<1>1. /\ list' = IF p = "list" THEN Cache!Mounted(list) ELSE list
      /\ rules' = [id \in Ids |-> IF p = id THEN Cache!Mounted(rules[id]) ELSE rules[id]]
  BY OneCache DEF Alerts!Mount
<1>2. /\ IsEntry(list')
      /\ Fresh(list, server, page = "list") => Fresh(list', server', page' = "list")
  <2>1. CASE p = "list"
    BY <1>1, <2>1, MountedIsFresh DEF AlertsCache, Fresh
  <2>2. CASE p # "list"
    BY <1>1, <2>2 DEF AlertsCache, Fresh
  <2>3. QED
    BY <2>1, <2>2
<1>3. ASSUME NEW id \in Ids
      PROVE  /\ IsRuleEntry(rules'[id])
             /\ FreshRule(id) => FreshRule(id)'
  <2>1. IsRuleEntry(rules[id])
    BY DEF AlertsCache
  <2>2. CASE p = id
    <3>1. rules'[id] = Cache!Mounted(rules[id])
      BY <1>1, <2>2
    <3>2. IsRuleEntry(rules'[id])
      BY <2>1, <3>1 DEF IsRuleEntry, IsEntry, Cache!Mounted, Cache!Asked, Cache!Fetching
    <3>3. Fresh(rules[id], server[id], page = id) => Fresh(rules'[id], server[id], TRUE)
      BY <2>1, <3>1, MountedIsFresh DEF IsRuleEntry
    <3>4. QED
      BY <2>2, <3>2, <3>3 DEF FreshRule, Fresh
  <2>3. CASE p # id
    BY <1>1, <2>1, <2>3 DEF FreshRule, Fresh
  <2>4. QED
    BY <2>2, <2>3
<1>4. QED
  BY <1>1, <1>2, <1>3 DEF AlertsCache, FreshList

(* What the user does leaves the server and what is stale alone.           *)
LEMMA AlertsLook ==
    ASSUME AlertsInv, UNCHANGED <<server, stale>>, AlertsType',
           \A c \in calls : c.phase = "ok" => c \in calls',
           FreshList => FreshList',
           \A id \in Ids : FreshRule(id) => FreshRule(id)'
    PROVE  AlertsInv'
<1>1. ChangeIsToCome => ChangeIsToCome'
  BY DEF ChangeIsToCome
<1>2. QED
  BY <1>1 DEF AlertsInv, AlertsShow

LEMMA AlertsStay ==
    ASSUME UNCHANGED <<server, list, rules, page>>
    PROVE  /\ AlertsCache => AlertsCache'
           /\ FreshList => FreshList'
           /\ \A id \in Ids : FreshRule(id) => FreshRule(id)'
  BY DEF AlertsCache, FreshList, FreshRule, Fresh

LEMMA AlertsUserKept == AlertsInv /\ Alerts!User => AlertsInv'
<1> SUFFICES ASSUME AlertsInv, Alerts!User PROVE AlertsInv'
  OBVIOUS
<1>1. AlertsType
  BY DEF AlertsInv
<1>2. ASSUME Alerts!Look, (page' = page /\ UNCHANGED Alerts!cache) \/ Alerts!Leave(page'),
             form' # None => IsAlertForm(form')
      PROVE  AlertsInv'
  <2>1. UNCHANGED <<server, calls, stale>>
    BY <1>2 DEF Alerts!Look
  <2>2. /\ AlertsCache'
        /\ FreshList => FreshList'
        /\ \A id \in Ids : FreshRule(id) => FreshRule(id)'
    BY <1>1, <1>2, <2>1, AlertsStay, AlertsMount DEF Alerts!cache, Alerts!Leave, AlertsType
  <2>3. AlertsType'
    BY <1>1, <1>2, <2>1, <2>2 DEF AlertsType
  <2>4. QED
    BY <2>1, <2>2, <2>3, AlertsLook
<1>3. ASSUME NEW c, IsAlertCall(c), Alerts!Click(c), page' = page,
             form' # None => IsAlertForm(form')
      PROVE  AlertsInv'
  <2>1. calls' = calls \cup {c} /\ UNCHANGED <<server, stale, list, rules, page>>
    BY <1>3 DEF Alerts!Click, Alerts!cache
  <2>2. /\ AlertsCache'
        /\ FreshList => FreshList'
        /\ \A id \in Ids : FreshRule(id) => FreshRule(id)'
    BY <1>1, <2>1, AlertsStay DEF AlertsType
  <2>3. AlertsType'
    BY <1>1, <1>3, <2>1, <2>2 DEF AlertsType
  <2>4. QED
    BY <2>1, <2>2, <2>3, AlertsLook
<1>4. form # None => IsAlertForm(form)
  BY <1>1 DEF AlertsType
<1>5. ASSUME NEW op, NEW id, op \notin {"create", "update"}
      PROVE  IsAlertCall(Alerts!Call(op, id))
  BY <1>5 DEF IsAlertCall, Alerts!Call
<1>6. ASSUME NEW p, Alerts!Open(p) PROVE AlertsInv'
  <2>1. Alerts!Look /\ page' = p /\ Alerts!Leave(p)
    BY <1>6, Zenon DEF Alerts!Open, Alerts!Leave
  <2>2. form' = Alerts!NewForm \/ form' = None
    BY <1>6, Zenon DEF Alerts!Open
  <2>3. IsAlertForm(Alerts!NewForm)
    BY NewRuleIsADraft DEF Alerts!NewForm, IsAlertForm
  <2>4. QED
    BY <1>2, <2>1, <2>2, <2>3
<1>7. ASSUME NEW id, Alerts!Toggle(id) PROVE AlertsInv'
  <2>1. page' = page /\ form' = form
    BY <1>7 DEF Alerts!Toggle, Alerts!pageVars
  <2>2. \E op : op \notin {"create", "update"} /\ Alerts!Click(Alerts!Call(op, id))
    <3>1. \E op \in {"disable", "enable"} : Alerts!Click(Alerts!Call(op, id))
      BY <1>7, Zenon DEF Alerts!Toggle
    <3>2. QED
      BY <3>1
  <2>3. QED
    BY <1>3, <1>4, <1>5, <2>1, <2>2
<1>8. ASSUME NEW id, Alerts!AskDelete(id) PROVE AlertsInv'
  <2>1. Alerts!Look /\ page' = page /\ form' = form /\ UNCHANGED Alerts!cache
    BY <1>8, Zenon DEF Alerts!AskDelete
  <2>2. QED
    BY <1>2, <1>4, <2>1
<1>9. ASSUME NEW id \in Ids, Alerts!StartEdit(id) PROVE AlertsInv'
  <2>1. /\ Alerts!Look /\ page' = page /\ UNCHANGED Alerts!cache
        /\ rules[id].data # None
        /\ form' = [rule |-> Alerts!Copied(rules[id].data), typed |-> {}]
    BY <1>9, Zenon DEF Alerts!StartEdit, Alerts!Shown
  <2>2. IsRule(rules[id].data)
    BY <1>1, <2>1 DEF AlertsType, AlertsCache, IsRuleEntry
  <2>3. IsDraft(Alerts!Copied(rules[id].data))
    BY <2>2, CopiedIsADraft
  <2>4. IsAlertForm(form')
    BY <2>1, <2>3 DEF IsAlertForm
  <2>5. QED
    BY <1>2, <2>1, <2>4
<1>10. ASSUME NEW confirmed, Alerts!AnswerDialog(confirmed) PROVE AlertsInv'
  <2>1. page' = page /\ form' = form
    BY <1>10, Zenon DEF Alerts!AnswerDialog
  <2>2. \/ Alerts!Click(Alerts!Call("delete", dialog))
        \/ Alerts!Look /\ UNCHANGED Alerts!cache
    BY <1>10, Zenon DEF Alerts!AnswerDialog
  <2>3. QED
    BY <1>2, <1>3, <1>4, <1>5, <2>1, <2>2
<1>11. CASE Alerts!CancelForm
  <2>1. Alerts!Look /\ form' = None
    BY <1>11, Zenon DEF Alerts!CancelForm
  <2>2. Alerts!Leave("list") \/ (page' = page /\ UNCHANGED Alerts!cache)
    BY <1>11, Zenon DEF Alerts!CancelForm
  <2>3. Alerts!Leave("list") => page' = "list"
    BY DEF Alerts!Leave
  <2>4. QED
    BY <1>2, <2>1, <2>2, <2>3
<1>12. CASE Alerts!SaveForm
  <2>1. form # None /\ page' = page
    BY <1>12, Zenon DEF Alerts!SaveForm
  <2>2. PICK f \in Alerts!Typed :
            /\ form' = f
            /\ Alerts!Click([Alerts!Call(IF page = "new" THEN "create" ELSE "update", page)
                                EXCEPT !.rule = f.rule, !.typed = f.typed])
    BY <1>12, Zenon DEF Alerts!SaveForm
  <2>3. IsAlertForm(f)
    <3>1. CASE f = form
      BY <1>4, <2>1, <3>1
    <3>2. ASSUME NEW e \in Alerts!Edits(form.rule),
                 f = [rule |-> [form.rule EXCEPT ![e.field] = e.value],
                      typed |-> form.typed \cup {e.field}]
          PROVE  IsAlertForm(f)
      BY <1>4, <2>1, <3>2, EditKeepsDraft DEF IsAlertForm
    <3>3. QED
      BY <3>1, <3>2 DEF Alerts!Typed
  <2> DEFINE c == [Alerts!Call(IF page = "new" THEN "create" ELSE "update", page)
                      EXCEPT !.rule = f.rule, !.typed = f.typed]
  <2>4. IsAlertCall(c)
    BY <2>3 DEF IsAlertCall, Alerts!Call, IsAlertForm
  <2>5. Alerts!Click(c)
    BY <2>2
  <2> HIDE DEF c
  <2>6. QED
    BY <1>3, <2>1, <2>2, <2>3, <2>4, <2>5
<1>13. QED
  BY <1>6, <1>7, <1>8, <1>9, <1>10, <1>11, <1>12, Zenon DEF Alerts!User

LEMMA AcceptedAreRules ==
    ASSUME AreRules(server), NEW c, IsAlertCall(c), Alerts!Accepts(c),
           server' \in Alerts!Results(c)
    PROVE  AreRules(server')
<1>1. c.op # "create" => c.id \in DOMAIN server
  BY DEF Alerts!Accepts
<1>2. CASE c.op = "create"
  <2>1. PICK id \in Ids \ DOMAIN server :
            server' = [i \in DOMAIN server \cup {id} |->
                          IF i = id THEN Alerts!Stored(c.rule, "pending") ELSE server[i]]
    BY <1>2 DEF Alerts!Results
  <2>2. IsStoredRule(Alerts!Stored(c.rule, "pending"))
    BY <1>2, StoredIsARule DEF IsAlertCall
  <2>3. QED
    BY <2>1, <2>2 DEF AreRules
<1>3. CASE c.op = "update"
  <2>1. server' = [server EXCEPT ![c.id] = Alerts!Stored(c.rule, "")]
    BY <1>3 DEF Alerts!Results
  <2>2. IsStoredRule(Alerts!Stored(c.rule, ""))
    BY <1>3, StoredIsARule DEF IsAlertCall
  <2>3. QED
    BY <2>1, <2>2 DEF AreRules
<1>4. CASE c.op = "delete"
  <2>1. server' = [id \in DOMAIN server \ {c.id} |-> server[id]]
    BY <1>4 DEF Alerts!Results, Alerts!Restrict
  <2>2. QED
    BY <2>1 DEF AreRules
<1>5. CASE c.op \notin {"create", "update", "delete"}
  <2>1. server' = [server EXCEPT ![c.id].enabled = c.op = "enable"]
    BY <1>5 DEF Alerts!Results
  <2>2. IsStoredRule([server[c.id] EXCEPT !.enabled = c.op = "enable"])
    BY <1>1, <1>5 DEF AreRules, IsStoredRule, IsRule, Alerts!Fields
  <2>3. DOMAIN server' = DOMAIN server
        /\ \A id \in DOMAIN server : server'[id] =
               IF id = c.id THEN [server[c.id] EXCEPT !.enabled = c.op = "enable"]
               ELSE server[id]
    BY <2>1
  <2>4. QED
    BY <2>2, <2>3 DEF AreRules
<1>6. QED
  BY <1>2, <1>3, <1>4, <1>5

LEMMA AlertsHandleKept ==
    ASSUME AlertsInv, NEW c \in calls, Alerts!Handle(c)
    PROVE  AlertsInv'
<1> DEFINE d == [c EXCEPT !.phase = IF Alerts!Accepts(c) THEN "ok" ELSE "refused"]
<1>1. /\ AlertsType /\ IsAlertCall(c) /\ c.phase = "sent"
      /\ calls' = (calls \ {c}) \cup {d}
      /\ UNCHANGED <<stale, list, rules, page, form>>
  BY DEF AlertsInv, AlertsType, Alerts!Handle, Alerts!Update, Alerts!cache, Alerts!pageVars
<1>2. IsAlertCall(d) /\ (Alerts!Accepts(c) => d.phase = "ok")
  BY <1>1 DEF IsAlertCall
<1>3. AreRules(server')
  BY <1>1, AcceptedAreRules DEF Alerts!Handle, AlertsType
<1> HIDE DEF d
<1>4. AlertsType'
  BY <1>1, <1>2, <1>3 DEF AlertsType, AlertsCache
<1>5. CASE Alerts!Accepts(c)
  <2>1. ChangeIsToCome'
    BY <1>1, <1>2, <1>5 DEF ChangeIsToCome
  <2>2. QED
    BY <1>4, <2>1 DEF AlertsInv, AlertsShow
<1>6. CASE ~Alerts!Accepts(c)
  <2>1. server' = server
    BY <1>6, Zenon DEF Alerts!Handle
  <2>2. \A e \in calls : e.phase = "ok" => e \in calls'
    BY <1>1
  <2>3. QED
    BY <1>1, <1>4, <2>1, <2>2, AlertsStay, AlertsLook
<1>7. QED
  BY <1>5, <1>6

LEMMA AlertsFireKept == AlertsInv /\ Alerts!Fire => AlertsInv'
<1> SUFFICES ASSUME AlertsInv, Alerts!Fire PROVE AlertsInv'
  OBVIOUS
<1>1. PICK id \in DOMAIN server : server' = [server EXCEPT ![id].state = "firing", ![id].seen = TRUE]
  BY DEF Alerts!Fire
<1>2. stale' = {"list"} \cup Ids /\ UNCHANGED <<calls, list, rules, page, form>>
  BY DEF Alerts!Fire, Alerts!Unheard, Alerts!cache, Alerts!pageVars
<1>3. AlertsType /\ AreRules(server)
  BY DEF AlertsInv, AlertsType
<1>4. IsStoredRule([server[id] EXCEPT !.state = "firing", !.seen = TRUE])
  BY <1>3 DEF AreRules, IsStoredRule, IsRule, Alerts!Fields
<1>5. /\ DOMAIN server' = DOMAIN server
      /\ \A i \in DOMAIN server : server'[i] =
             IF i = id THEN [server[id] EXCEPT !.state = "firing", !.seen = TRUE] ELSE server[i]
  BY <1>1
<1>6. AreRules(server')
  BY <1>3, <1>4, <1>5 DEF AreRules
<1>7. AlertsType'
  BY <1>2, <1>3, <1>6 DEF AlertsType, AlertsCache
<1>8. QED
  BY <1>2, <1>7 DEF AlertsInv, AlertsShow

(* What is changed and not saved is not told of, so all may be stale.      *)
LEMMA AlertsUnsavedKept ==
    ASSUME AlertsInv, NEW c \in calls, Alerts!HandleUnsaved(c)
    PROVE  AlertsInv'
<1>1. AlertsType /\ AreRules(server) /\ IsAlertCall(c)
  BY DEF AlertsInv, AlertsType
<1>2. stale' = {"list"} \cup Ids /\ UNCHANGED <<list, rules, page, form>>
  BY DEF Alerts!HandleUnsaved, Alerts!Unheard, Alerts!cache, Alerts!pageVars
<1>3. calls' = (calls \ {c}) \cup {[c EXCEPT !.phase = "refused"]}
  BY DEF Alerts!HandleUnsaved, Alerts!Update
<1>4. IsAlertCall([c EXCEPT !.phase = "refused"])
  BY <1>1 DEF IsAlertCall
<1>5. AreRules(server')
  BY <1>1, AcceptedAreRules DEF Alerts!HandleUnsaved
<1>6. AlertsType'
  BY <1>1, <1>2, <1>3, <1>4, <1>5 DEF AlertsType, AlertsCache
<1>7. QED
  BY <1>2, <1>6 DEF AlertsInv, AlertsShow

(* Every success asks for the list and for the rule that is shown, unless  *)
(* it overtakes a fetch, and then it is known what is stale.               *)
LEMMA AlertsInvalidated ==
    ASSUME AlertsCache
    PROVE  /\ IsEntry(Alerts!InvalidatedAlerts.list)
           /\ \/ "list" \in Alerts!InvalidatedAlerts.stale
              \/ Fresh(Alerts!InvalidatedAlerts.list, server, page = "list")
           /\ DOMAIN Alerts!InvalidatedAlerts.rules = Ids
           /\ \A id \in Ids :
                  /\ IsRuleEntry(Alerts!InvalidatedAlerts.rules[id])
                  /\ \/ id \in Alerts!InvalidatedAlerts.stale
                     \/ \A v : Fresh(Alerts!InvalidatedAlerts.rules[id], v, page = id)
<1>1. ASSUME NEW q, NEW used
      PROVE  Alerts!Overtaken(q, used) <=> Cache!Overtaken(q, used)
  BY Zenon DEF Alerts!Overtaken, Cache!Overtaken, Alerts!Fetching, Cache!Fetching
<1>2. /\ Alerts!InvalidatedAlerts.list = Cache!Invalidated(list, page = "list")
      /\ Alerts!InvalidatedAlerts.rules =
             [id \in Ids |-> Cache!Invalidated(rules[id], page = id)]
      /\ Alerts!InvalidatedAlerts.stale =
             (stale \cup {id \in Ids : Alerts!Overtaken(rules[id], page = id)})
                 \cup (IF Alerts!Overtaken(list, page = "list") THEN {"list"} ELSE {})
  BY OneCache DEF Alerts!InvalidatedAlerts
<1>3. IsEntry(Alerts!InvalidatedAlerts.list)
  <2>1. IsEntry(Cache!Invalidated(list, page = "list"))
    BY InvalidatedIsFresh DEF AlertsCache
  <2>2. QED
    BY <1>2, <2>1, Zenon
<1>4. \/ "list" \in Alerts!InvalidatedAlerts.stale
      \/ Fresh(Alerts!InvalidatedAlerts.list, server, page = "list")
  <2>1. Alerts!Overtaken(list, page = "list") => "list" \in Alerts!InvalidatedAlerts.stale
    BY <1>2
  <2>2. Cache!Overtaken(list, page = "list")
            \/ Fresh(Cache!Invalidated(list, page = "list"), server, page = "list")
    BY InvalidatedIsFresh DEF AlertsCache
  <2>3. QED
    BY <1>1, <1>2, <2>1, <2>2
<1>5. ASSUME NEW id \in Ids
      PROVE  /\ IsRuleEntry(Alerts!InvalidatedAlerts.rules[id])
             /\ \/ id \in Alerts!InvalidatedAlerts.stale
                \/ \A v : Fresh(Alerts!InvalidatedAlerts.rules[id], v, page = id)
  <2> DEFINE used == page = id
  <2>1. IsRuleEntry(rules[id]) /\ IsEntry(rules[id])
    BY DEF AlertsCache, IsRuleEntry
  <2>2. Alerts!InvalidatedAlerts.rules[id] = Cache!Invalidated(rules[id], used)
    BY <1>2
  <2>3. Cache!Overtaken(rules[id], used)
            \/ \A v : Fresh(Cache!Invalidated(rules[id], used), v, used)
    BY <2>1, InvalidatedIsFresh
  <2>4. Cache!Overtaken(rules[id], used) => id \in Alerts!InvalidatedAlerts.stale
    BY <1>1, <1>2
  <2>5. IsRuleEntry(Cache!Invalidated(rules[id], used))
    <3>1. IsEntry(Cache!Invalidated(rules[id], used))
      BY <2>1, InvalidatedIsFresh
    <3>2. /\ Cache!Invalidated(rules[id], used).data = rules[id].data
          /\ Cache!Invalidated(rules[id], used).fetch = "answered" =>
                 /\ rules[id].fetch = "answered"
                 /\ Cache!Invalidated(rules[id], used).answer = rules[id].answer
      BY <2>1 DEF IsEntry, Cache!Invalidated, Cache!Mounted, Cache!Asked, Cache!Fetching
    <3>3. QED
      BY <2>1, <3>1, <3>2 DEF IsRuleEntry
  <2>6. QED
    BY <2>2, <2>3, <2>4, <2>5
<1>6. QED
  BY <1>2, <1>3, <1>4, <1>5

LEMMA AlertsDeliverKept ==
    ASSUME AlertsInv, NEW c \in calls, Alerts!Deliver(c)
    PROVE  AlertsInv'
<1> DEFINE after == Alerts!InvalidatedAlerts
<1>1. AlertsType /\ AlertsCache
  BY DEF AlertsInv, AlertsType
<1>2. calls' = calls \ {c} /\ server' = server /\ (form' = form \/ form' = None)
  BY Zenon
     DEF Alerts!Deliver, Alerts!DeliverListCall, Alerts!DeliverSave, Alerts!pageVars
<1>3. AlertsCache' => AlertsType'
  BY <1>1, <1>2 DEF AlertsType
<1>4. \/ UNCHANGED <<list, rules, stale, page>> /\ c.phase # "ok"
      \/ /\ rules' = after.rules /\ stale' = after.stale
         /\ \/ list' = after.list /\ page' = page
            \/ list' = Cache!Mounted(after.list) /\ page' = "list"
  <2>1. CASE Alerts!DeliverListCall(c)
    BY <2>1, Zenon DEF Alerts!DeliverListCall, Alerts!InvalidateAlerts
  <2>2. CASE Alerts!DeliverSave(c)
    <3>1. CASE c.phase = "ok" /\ list' = Alerts!Mounted(after.list)
      BY <2>2, <3>1, OneCache DEF Alerts!DeliverSave
    <3>2. QED
      BY <2>2, <3>1, Zenon DEF Alerts!DeliverSave, Alerts!pageVars
  <2>3. QED
    BY <2>1, <2>2, Zenon DEF Alerts!Deliver
<1>5. CASE UNCHANGED <<list, rules, stale, page>> /\ c.phase # "ok"
  <2>1. \A e \in calls : e.phase = "ok" => e \in calls'
    BY <1>2, <1>5
  <2>2. QED
    BY <1>1, <1>2, <1>3, <1>5, <2>1, AlertsStay, AlertsLook
<1>6. ASSUME rules' = after.rules, stale' = after.stale,
             \/ list' = after.list /\ page' = page
             \/ list' = Cache!Mounted(after.list) /\ page' = "list"
      PROVE  AlertsInv'
  <2>1. IsEntry(list') /\ ("list" \in stale' \/ FreshList')
    <3>1. /\ IsEntry(after.list)
          /\ "list" \in stale' \/ Fresh(after.list, server, page = "list")
      BY <1>1, <1>6, AlertsInvalidated
    <3> HIDE DEF after
    <3>2. CASE list' = after.list /\ page' = page
      BY <1>2, <3>1, <3>2 DEF FreshList, Fresh
    <3>3. CASE list' = Cache!Mounted(after.list) /\ page' = "list"
      <4>1. /\ IsEntry(list')
            /\ "list" \in stale' \/ Fresh(list', server, TRUE)
        BY <3>1, <3>3, MountedIsFresh
      <4>2. QED
        BY <1>2, <3>3, <4>1 DEF FreshList, Fresh
    <3>4. QED
      BY <1>6, <3>2, <3>3
  <2>2. DOMAIN rules' = Ids
    BY <1>1, <1>6, AlertsInvalidated
  <2>3. ASSUME NEW id \in Ids
        PROVE  IsRuleEntry(rules'[id]) /\ (id \in stale' \/ FreshRule(id)')
    <3>1. /\ IsRuleEntry(rules'[id])
          /\ id \in stale' \/ \A v : Fresh(rules'[id], v, page = id)
      BY <1>1, <1>6, AlertsInvalidated
    <3>2. page' = id => page = id
      BY <1>6, AlertsAssumed
    <3>3. (\A v : Fresh(rules'[id], v, page = id)) => FreshRule(id)'
      BY <1>2, <3>2 DEF FreshRule, Fresh
    <3>4. QED
      BY <3>1, <3>3
  <2>4. AlertsType'
    BY <1>3, <2>1, <2>2, <2>3 DEF AlertsCache
  <2>5. QED
    BY <2>1, <2>3, <2>4 DEF AlertsInv, AlertsShow
<1>7. QED
  BY <1>4, <1>5, <1>6

LEMMA AlertsKept == AlertsInv /\ [Alerts!Next]_(Alerts!vars) => AlertsInv'
<1> SUFFICES ASSUME AlertsInv, [Alerts!Next]_(Alerts!vars) PROVE AlertsInv'
  OBVIOUS
<1>1. AlertsType /\ AlertsCache
  BY DEF AlertsInv, AlertsType
<1>2. ASSUME UNCHANGED <<server, form, calls>>, AlertsCache' PROVE AlertsType'
  BY <1>1, <1>2 DEF AlertsType
<1>3. ASSUME UNCHANGED calls PROVE ChangeIsToCome' = ChangeIsToCome
  BY <1>3 DEF ChangeIsToCome
<1>4. CASE Alerts!AnswerList
  <2>1. /\ list' = Cache!Answered(list, server) /\ stale' = stale \ {"list"}
        /\ UNCHANGED <<server, rules, calls, page, form>>
    BY <1>4, OneCache DEF Alerts!AnswerList, Alerts!pageVars
  <2>2. IsEntry(list') /\ Fresh(list', server, page = "list")
    BY <1>1, <2>1, AnsweredIsFresh DEF AlertsCache
  <2>3. FreshList' /\ AlertsCache'
    BY <1>1, <2>1, <2>2 DEF FreshList, Fresh, AlertsCache
  <2>4. \A id \in Ids : FreshRule(id)' = FreshRule(id)
    BY <2>1 DEF FreshRule, Fresh
  <2>5. \A id \in Ids : id \in stale => id \in stale'
    BY <2>1, AlertsAssumed
  <2>6. QED
    BY <1>2, <1>3, <2>1, <2>3, <2>4, <2>5 DEF AlertsInv, AlertsShow
<1>5. CASE Alerts!ArriveList
  <2>1. /\ list' = Cache!Arrived(list) /\ list.fetch = "answered"
        /\ UNCHANGED <<server, rules, calls, stale, page, form>>
    BY <1>5, OneCache DEF Alerts!ArriveList, Alerts!pageVars
  <2>2. /\ IsEntry(list')
        /\ Fresh(list, server, page = "list") => Fresh(list', server, page = "list")
    BY <1>1, <2>1, ArrivedIsFresh DEF AlertsCache
  <2>3. (FreshList => FreshList') /\ AlertsCache'
    BY <1>1, <2>1, <2>2 DEF FreshList, Fresh, AlertsCache
  <2>4. \A id \in Ids : FreshRule(id)' = FreshRule(id)
    BY <2>1 DEF FreshRule, Fresh
  <2>5. QED
    BY <1>2, <2>1, <2>3, <2>4, AlertsLook
<1>6. ASSUME NEW id \in Ids, Alerts!AnswerRule(id) PROVE AlertsInv'
  <2> DEFINE q == IF id \in DOMAIN server THEN Cache!Answered(rules[id], server[id])
                  ELSE Cache!Failed(rules[id])
  <2>1. /\ rules' = [rules EXCEPT ![id] = q] /\ stale' = stale \ {id}
        /\ UNCHANGED <<server, list, calls, page, form>>
    BY <1>6, OneCache DEF Alerts!AnswerRule, Alerts!pageVars
  <2>2. IsRuleEntry(rules[id]) /\ IsEntry(rules[id]) /\ DOMAIN rules = Ids
    BY <1>1 DEF AlertsCache, IsRuleEntry
  <2>3. IsRuleEntry(q) /\ (id \in DOMAIN server => Fresh(q, server[id], page = id))
    <3>1. CASE id \in DOMAIN server
      <4>1. q = Cache!Answered(rules[id], server[id])
        BY <3>1
      <4>2. IsRule(server[id])
        BY <1>1, <3>1 DEF AlertsType, AreRules, IsStoredRule
      <4>3. IsEntry(q) /\ Fresh(q, server[id], page = id)
        BY <2>2, <4>1, AnsweredIsFresh
      <4>4. q.data = rules[id].data /\ q.answer = server[id]
        BY <2>2, <4>1 DEF Cache!Answered, IsEntry
      <4> HIDE DEF q
      <4>5. QED
        BY <2>2, <4>2, <4>3, <4>4 DEF IsRuleEntry
    <3>2. CASE id \notin DOMAIN server
      <4>1. q = Cache!Failed(rules[id])
        BY <3>2
      <4>2. IsEntry(q)
        BY <2>2, <4>1, FailedIsEntry
      <4>3. q.data = rules[id].data /\ q.fetch = "idle"
        BY <2>2, <4>1 DEF Cache!Failed, IsEntry
      <4> HIDE DEF q
      <4>4. QED
        BY <2>2, <3>2, <4>2, <4>3 DEF IsRuleEntry
    <3>3. QED
      BY <3>1, <3>2
  <2> HIDE DEF q
  <2>4. AlertsCache'
    BY <1>1, <2>1, <2>2, <2>3 DEF AlertsCache
  <2>5. FreshRule(id)'
    BY <2>1, <2>2, <2>3 DEF FreshRule, Fresh
  <2>6. \A i \in Ids \ {id} : (FreshRule(i) => FreshRule(i)') /\ (i \in stale => i \in stale')
    BY <2>1, <2>2 DEF FreshRule, Fresh
  <2>7. FreshList' = FreshList /\ ("list" \in stale => "list" \in stale')
    BY <2>1, AlertsAssumed DEF FreshList, Fresh
  <2>8. AlertsType'
    BY <1>2, <2>1, <2>4
  <2>9. ChangeIsToCome' = ChangeIsToCome
    BY <1>3, <2>1
  <2>10. QED
    BY <2>5, <2>6, <2>7, <2>8, <2>9 DEF AlertsInv, AlertsShow
<1>7. ASSUME NEW id \in Ids, Alerts!ArriveRule(id) PROVE AlertsInv'
  <2> DEFINE q == Cache!Arrived(rules[id])
  <2>1. /\ rules' = [rules EXCEPT ![id] = q] /\ rules[id].fetch = "answered"
        /\ UNCHANGED <<server, list, calls, stale, page, form>>
    BY <1>7, OneCache DEF Alerts!ArriveRule, Alerts!pageVars
  <2>2. IsRuleEntry(rules[id]) /\ IsEntry(rules[id]) /\ DOMAIN rules = Ids
    BY <1>1 DEF AlertsCache, IsRuleEntry
  <2>3. /\ IsRuleEntry(q)
        /\ \A v : Fresh(rules[id], v, page = id) => Fresh(q, v, page = id)
    <3>1. IsEntry(q) /\ \A v : Fresh(rules[id], v, page = id) => Fresh(q, v, page = id)
      BY <2>1, <2>2, ArrivedIsFresh
    <3>2. q.data = rules[id].answer /\ q.fetch = "idle"
      BY DEF Cache!Arrived
    <3> HIDE DEF q
    <3>3. QED
      BY <2>1, <2>2, <3>1, <3>2 DEF IsRuleEntry
  <2> HIDE DEF q
  <2>4. AlertsCache'
    BY <1>1, <2>1, <2>2, <2>3 DEF AlertsCache
  <2>5. \A i \in Ids : FreshRule(i) => FreshRule(i)'
    BY <2>1, <2>2, <2>3 DEF FreshRule, Fresh
  <2>6. FreshList' = FreshList
    BY <2>1 DEF FreshList, Fresh
  <2>7. QED
    BY <1>2, <2>1, <2>4, <2>5, <2>6, AlertsLook
<1>8. CASE Alerts!ArriveConfig
  <2>1. UNCHANGED <<server, list, rules, page, calls, stale>>
    BY <1>8 DEF Alerts!ArriveConfig
  <2>2. form' # None => IsAlertForm(form')
    <3>1. form' = Alerts!NewForm \/ form' = form
      BY <1>8, Zenon DEF Alerts!ArriveConfig
    <3>2. IsAlertForm(Alerts!NewForm)
      BY NewRuleIsADraft DEF Alerts!NewForm, IsAlertForm
    <3>3. QED
      BY <1>1, <3>1, <3>2 DEF AlertsType
  <2>3. AlertsType'
    BY <1>1, <2>1, <2>2, AlertsStay DEF AlertsType
  <2>4. QED
    BY <2>1, <2>3, AlertsStay, AlertsLook
<1>9. CASE UNCHANGED Alerts!vars
  <2>1. UNCHANGED <<server, list, rules, page, calls, stale, form>>
    BY <1>9 DEF Alerts!vars
  <2>2. AlertsType'
    BY <1>1, <1>2, <2>1, AlertsStay
  <2>3. QED
    BY <2>1, <2>2, AlertsStay, AlertsLook
<1>10. QED
  BY <1>4, <1>5, <1>6, <1>7, <1>8, <1>9, AlertsUserKept, AlertsHandleKept,
     AlertsDeliverKept, AlertsFireKept, AlertsUnsavedKept, Zenon
     DEF Alerts!Next, Alerts!FetchList, Alerts!FetchRule, Alerts!Serve

LEMMA AlertsHold == Spec => [](open = "alerts" => AlertsInv)
<1> DEFINE Inv == open = "alerts" => AlertsInv
<1>1. Init => Inv
  BY AlertsSession, AlertsBegin
<1>2. Inv /\ [Next]_vars => Inv'
  BY OpenStays, AlertsSession, AlertsKept
<1>3. QED
  BY <1>1, <1>2, PTL DEF Spec

(* However switches, saves, deletions and fetches overlap: once nothing is *)
(* in flight, the list of rules and the page of a rule show what the       *)
(* server has, unless it is known that they do not.                        *)
THEOREM AlertsAreShown == Spec => []AlertsAreCurrent
<1>1. (open = "alerts" => AlertsInv) => AlertsAreCurrent
  <2>1. ASSUME AlertsInv, Alerts!Quiet PROVE Alerts!AlertsAreCurrent
    <3>1. calls = {} /\ list.fetch = "idle" /\ \A id \in Ids : rules[id].fetch = "idle"
      BY <2>1 DEF Alerts!Quiet, Alerts!Fetching
    <3>2. "list" \in stale \/ FreshList
      BY <2>1, <3>1 DEF AlertsInv, AlertsShow, ChangeIsToCome
    <3>3. \A id \in Ids : id \in stale \/ FreshRule(id)
      BY <2>1, <3>1 DEF AlertsInv, AlertsShow, ChangeIsToCome
    <3>4. DOMAIN server \subseteq Ids
      BY <2>1 DEF AlertsInv, AlertsType, AreRules
    <3>5. QED
      BY <3>1, <3>2, <3>3, <3>4
         DEF FreshList, FreshRule, Fresh, Alerts!AlertsAreCurrent
  <2>2. QED
    BY <2>1 DEF AlertsAreCurrent, Alerts!AlertsAreCurrent
<1>2. QED
  BY <1>1, AlertsHold, PTL

(* Whatever is edited, by whichever page: the server goes by the window    *)
(* and the interval that the rule's texts name.                            *)
THEOREM WindowsAreTheTexts == Spec => []WindowsAreMeant
<1>1. (open = "alerts" => AlertsInv) => WindowsAreMeant
  BY DEF AlertsInv, AlertsType, AreRules, IsStoredRule, WindowsAreMeant,
         Alerts!WindowsAreMeant, Alerts!AreMeant
<1>2. QED
  BY <1>1, AlertsHold, PTL

-----------------------------------------------------------------------------
(* The page of the routes. *)

IsRoutesCall(c) == DOMAIN c = {"n", "op", "tab", "id", "item", "typed", "checked", "phase"}

IsLoad(l) == DOMAIN l = {"n", "channels", "routes"} /\ l.n \in Nat /\ l.n <= loaded

RoutesType ==
    /\ troubles \in Nat
    /\ loaded \in Nat
    /\ shown.load \in Nat /\ shown.load <= loaded
    /\ \A l \in loads : IsLoad(l)
    /\ \A c \in calls : IsRoutesCall(c)

(* A change for which the page has still to start a load.                  *)
LoadIsToCome == \E c \in calls : c.phase = "ok"

(* What the last load has brought, and what the page shows of it.          *)
LastLoad ==
    \/ LoadIsToCome
    \/ /\ \A l \in loads : l.n = loaded =>
              l.channels \in {None, channels} /\ l.routes \in {None, routes}
       /\ shown.load = loaded => shown.channels = channels /\ shown.routes = routes

(* The user who waits sees one load or one call at a time, and the last    *)
(* load when none runs.                                                    *)
OneAtATime ==
    /\ \A c, d \in calls : c = d
    /\ calls # {} => loads = {}
    /\ \A l \in loads : l.n = loaded
    /\ loads = {} => shown.load = loaded

RoutesInv ==
    /\ RoutesType
    /\ troubles = 0 => LastLoad /\ (habit.waits => OneAtATime)

LEMMA RoutesBegin == Routes!Init => RoutesInv
<1> SUFFICES ASSUME Routes!Init PROVE RoutesInv
  OBVIOUS
<1>1. /\ troubles = 0 /\ loaded = 1 /\ calls = {} /\ shown.load = 0
      /\ loads = {[n |-> 1, channels |-> None, routes |-> None]}
  BY DEF Routes!Init
<1>2. \A l \in loads : /\ DOMAIN l = {"n", "channels", "routes"} /\ l.n = 1
                       /\ l.channels = None /\ l.routes = None
  BY <1>1
<1>3. RoutesType
  BY <1>1, <1>2 DEF RoutesType, IsLoad
<1>4. LastLoad
  BY <1>1, <1>2 DEF LastLoad
<1>5. OneAtATime
  BY <1>1, <1>2 DEF OneAtATime
<1>6. QED
  BY <1>3, <1>4, <1>5 DEF RoutesInv

(* A click adds one call, and none of a user who waits unless all is quiet.*)
LEMMA RoutesUserKept == RoutesInv /\ Routes!User => RoutesInv'
<1> SUFFICES ASSUME RoutesInv, Routes!User PROVE RoutesInv'
  OBVIOUS
<1>1. ASSUME UNCHANGED <<shown, loads, loaded, channels, routes, troubles, habit>>,
             \/ calls' = calls
             \/ \E c : /\ IsRoutesCall(c) /\ calls' = calls \cup {c}
                       /\ habit.waits => calls = {} /\ loads = {}
      PROVE  RoutesInv'
  <2>1. RoutesType'
    BY <1>1 DEF RoutesInv, RoutesType, IsLoad
  <2>2. LastLoad => LastLoad'
    BY <1>1 DEF LastLoad, LoadIsToCome
  <2>3. habit.waits /\ OneAtATime => OneAtATime'
    BY <1>1 DEF OneAtATime
  <2>4. QED
    BY <1>1, <2>1, <2>2, <2>3 DEF RoutesInv
<1>2. ASSUME Routes!Look PROVE RoutesInv'
  BY <1>1, <1>2 DEF Routes!Look, Routes!view, Routes!server
<1>3. ASSUME NEW c, IsRoutesCall(c), Routes!Click(c), Routes!MayAct PROVE RoutesInv'
  <2>1. /\ UNCHANGED <<shown, loads, loaded, channels, routes, troubles, habit>>
        /\ calls' = calls \cup {c}
    BY <1>3 DEF Routes!Click, Routes!view, Routes!server
  <2>2. habit.waits => calls = {} /\ loads = {}
    BY <1>3 DEF Routes!MayAct, Routes!Quiet
  <2>3. QED
    BY <1>1, <1>3, <2>1, <2>2
<1>4. ASSUME NEW tab, NEW id, Routes!EditItem(tab, id) PROVE RoutesInv'
  BY <1>2, <1>4, Zenon DEF Routes!EditItem, Routes!OpenDialog
<1>5. CASE Routes!AddChannel \/ Routes!AddRoute \/ Routes!Cancel
  BY <1>2, <1>5, Zenon
     DEF Routes!AddChannel, Routes!AddRoute, Routes!Cancel, Routes!OpenDialog
<1>6. ASSUME NEW tab, Routes!HandleSave(tab) PROVE RoutesInv'
  <2>1. PICK d : Routes!Click(Routes!SaveCall(d))
    BY <1>6, Zenon DEF Routes!HandleSave
  <2>2. IsRoutesCall(Routes!SaveCall(d))
    BY DEF IsRoutesCall, Routes!SaveCall, Routes!Call
  <2>3. Routes!MayAct
    BY <1>6, Zenon DEF Routes!HandleSave
  <2>4. QED
    BY <1>3, <2>1, <2>2, <2>3
<1>7. ASSUME NEW tab, NEW id, Routes!HandleDelete(tab, id) PROVE RoutesInv'
  <2>1. Routes!MayAct /\ Routes!Click(Routes!Call("delete", tab, id))
    BY <1>7, Zenon DEF Routes!HandleDelete
  <2>2. IsRoutesCall(Routes!Call("delete", tab, id))
    BY DEF IsRoutesCall, Routes!Call
  <2>3. QED
    BY <1>3, <2>1, <2>2
<1>8. QED
  BY <1>4, <1>5, <1>6, <1>7, Zenon
     DEF Routes!User, Routes!HandleSaveChannel, Routes!HandleSaveRoute,
         Routes!HandleDeleteChannel, Routes!HandleDeleteRoute

(* A request is answered as it is said to be, or refused and has changed   *)
(* nothing.                                                                *)
LEMMA RoutesReplied ==
    ASSUME NEW c, NEW answer,
           Routes!HandleChannel(c, answer) \/ Routes!HandleRoute(c, answer)
    PROVE  /\ c.phase = "sent"
           /\ \/ calls' = (calls \ {c}) \cup {[c EXCEPT !.phase = answer]}
              \/ /\ UNCHANGED <<channels, routes>>
                 /\ calls' = (calls \ {c}) \cup {[c EXCEPT !.phase = "refused"]}
<1>1. CASE Routes!HandleChannel(c, answer)
  BY <1>1, Zenon
     DEF Routes!HandleChannel, Routes!CreateChannel, Routes!UpdateChannel,
         Routes!DeleteChannel, Routes!Saved, Routes!Refused, Routes!Update
<1>2. CASE Routes!HandleRoute(c, answer)
  BY <1>2, Zenon
     DEF Routes!HandleRoute, Routes!CreateRoute, Routes!UpdateRoute,
         Routes!DeleteRoute, Routes!Saved, Routes!Refused, Routes!Update
<1>3. QED
  BY <1>1, <1>2

(* What a request does to the store: a change is a success that is to come.*)
LEMMA RoutesHandled ==
    ASSUME NEW c \in calls, IsRoutesCall(c), Routes!Handle(c)
    PROVE  \E d : /\ IsRoutesCall(d)
                  /\ c.phase # "ok"
                  /\ calls' = (calls \ {c}) \cup {d}
                  /\ d.phase = "ok" \/ UNCHANGED <<channels, routes>>
                  /\ UNCHANGED <<shown, loads, loaded, troubles, habit>>
<1> DEFINE ok == [c EXCEPT !.phase = "ok"]
           refused == [c EXCEPT !.phase = "refused"]
<1>1. IsRoutesCall(ok) /\ IsRoutesCall(refused) /\ ok.phase = "ok"
  BY DEF IsRoutesCall
<1>2. UNCHANGED <<shown, loads, loaded, troubles, habit>>
  BY DEF Routes!Handle, Routes!view, Routes!bounds
<1>3. CASE Routes!CheckRoute(c)
  <2>1. c.phase # "ok" /\ UNCHANGED <<channels, routes>>
    BY <1>3 DEF Routes!CheckRoute, Routes!server
  <2>2. PICK d : /\ calls' = (calls \ {c}) \cup {d}
                 /\ d = refused \/ \E id : d = [c EXCEPT !.checked = @ \cup {id}]
    BY <1>3, Zenon DEF Routes!CheckRoute, Routes!Refused, Routes!Update
  <2>3. IsRoutesCall(d)
    BY <1>1, <2>2 DEF IsRoutesCall
  <2>4. QED
    BY <1>2, <2>1, <2>2, <2>3
<1>4. CASE Routes!HandleChannel(c, "ok") \/ Routes!HandleRoute(c, "ok")
  <2>1. /\ c.phase = "sent"
        /\ \/ calls' = (calls \ {c}) \cup {ok}
           \/ UNCHANGED <<channels, routes>> /\ calls' = (calls \ {c}) \cup {refused}
    BY <1>4, RoutesReplied
  <2> HIDE DEF ok, refused
  <2>2. QED
    BY <1>1, <1>2, <2>1
<1>5. QED
  BY <1>3, <1>4, Zenon DEF Routes!Handle

LEMMA RoutesKept == RoutesInv /\ [Routes!Next]_(Routes!vars) => RoutesInv'
<1> SUFFICES ASSUME RoutesInv, [Routes!Next]_(Routes!vars) PROVE RoutesInv'
  OBVIOUS
<1>1. RoutesType
  BY DEF RoutesInv
<1>2. ASSUME NEW l \in loads, Routes!AnswerLoad(l) PROVE RoutesInv'
  <2>1. UNCHANGED <<shown, loaded, calls, channels, routes, troubles, habit>>
    BY <1>2 DEF Routes!AnswerLoad, Routes!server, Routes!bounds
  <2>2. PICK m : /\ loads' = (loads \ {l}) \cup {m}
                 /\ \/ m = [l EXCEPT !.channels = channels]
                    \/ m = [l EXCEPT !.routes = routes]
    BY <1>2, Zenon DEF Routes!AnswerLoad
  <2>3. IsLoad(l)
    BY <1>1 DEF RoutesType
  <2>4. /\ IsLoad(m) /\ m.n = l.n
        /\ m.channels \in {l.channels, channels} /\ m.routes \in {l.routes, routes}
    BY <2>2, <2>3 DEF IsLoad
  <2>5. RoutesType'
    BY <1>1, <2>1, <2>2, <2>4 DEF RoutesType, IsLoad
  <2>6. LastLoad => LastLoad'
    BY <2>1, <2>2, <2>4 DEF LastLoad, LoadIsToCome
  <2>7. OneAtATime => OneAtATime'
    BY <2>1, <2>2, <2>4 DEF OneAtATime
  <2>8. QED
    BY <2>1, <2>5, <2>6, <2>7 DEF RoutesInv
<1>3. ASSUME NEW l \in loads, Routes!ArriveLoad(l) PROVE RoutesInv'
  <2>1. /\ UNCHANGED <<loaded, calls, channels, routes, troubles, habit>>
        /\ l.channels # None /\ l.routes # None /\ loads' = loads \ {l}
        /\ shown' = [channels |-> l.channels, routes |-> l.routes, load |-> l.n]
    BY <1>3 DEF Routes!ArriveLoad, Routes!server, Routes!bounds
  <2>2. shown'.load = l.n /\ shown'.channels = l.channels /\ shown'.routes = l.routes
    BY <2>1
  <2>3. RoutesType'
    BY <1>1, <2>1, <2>2 DEF RoutesType, IsLoad
  <2>4. LastLoad => LastLoad'
    BY <2>1, <2>2 DEF LastLoad, LoadIsToCome
  <2>5. OneAtATime => OneAtATime'
    BY <2>1, <2>2 DEF OneAtATime
  <2>6. QED
    BY <2>1, <2>3, <2>4, <2>5 DEF RoutesInv
<1>4. ASSUME NEW l \in loads, Routes!FailLoad(l) PROVE RoutesInv'
  <2>1. UNCHANGED <<shown, loaded, calls>> /\ loads' = loads \ {l} /\ troubles' = troubles + 1
    BY <1>4 DEF Routes!FailLoad
  <2>2. RoutesType' /\ troubles' # 0
    BY <1>1, <2>1 DEF RoutesType, IsLoad
  <2>3. QED
    BY <2>2 DEF RoutesInv
<1>5. CASE Routes!OtherDelete
  <2>1. UNCHANGED <<shown, loaded, calls, loads>> /\ troubles' = troubles + 1
    BY <1>5 DEF Routes!OtherDelete, Routes!view
  <2>2. RoutesType' /\ troubles' # 0
    BY <1>1, <2>1 DEF RoutesType, IsLoad
  <2>3. QED
    BY <2>2 DEF RoutesInv
<1>6. ASSUME NEW c \in calls, Routes!Handle(c) PROVE RoutesInv'
  <2>1. IsRoutesCall(c)
    BY <1>1 DEF RoutesType
  <2>2. PICK d : /\ IsRoutesCall(d)
                 /\ c.phase # "ok"
                 /\ calls' = (calls \ {c}) \cup {d}
                 /\ d.phase = "ok" \/ UNCHANGED <<channels, routes>>
                 /\ UNCHANGED <<shown, loads, loaded, troubles, habit>>
    BY <1>6, <2>1, RoutesHandled
  <2>3. RoutesType'
    BY <1>1, <2>2 DEF RoutesType, IsLoad
  <2>4. LastLoad => LastLoad'
    <3>1. CASE d.phase = "ok"
      BY <2>2, <3>1 DEF LastLoad, LoadIsToCome
    <3>2. CASE UNCHANGED <<channels, routes>>
      BY <2>2, <3>2 DEF LastLoad, LoadIsToCome
    <3>3. QED
      BY <2>2, <3>1, <3>2
  <2>5. OneAtATime => OneAtATime'
    BY <2>2 DEF OneAtATime
  <2>6. QED
    BY <2>2, <2>3, <2>4, <2>5 DEF RoutesInv
<1>7. ASSUME NEW c \in calls, Routes!Deliver(c) PROVE RoutesInv'
  <2>1. calls' = calls \ {c} /\ UNCHANGED <<shown, channels, routes, troubles, habit>>
    BY <1>7 DEF Routes!Deliver, Routes!server, Routes!bounds
  <2>2. CASE c.phase = "ok"
    <3> DEFINE new == Routes!NewLoad
    <3>1. loaded' = loaded + 1 /\ loads' = loads \cup {new}
      BY <1>7, <2>2 DEF Routes!Deliver, Routes!LoadData
    <3>2. /\ DOMAIN new = {"n", "channels", "routes"} /\ new.n = loaded + 1
          /\ new.channels = None /\ new.routes = None
      BY DEF Routes!NewLoad
    <3> HIDE DEF new
    <3>3. RoutesType'
      BY <1>1, <2>1, <3>1, <3>2 DEF RoutesType, IsLoad
    <3>4. LastLoad'
      <4>1. shown'.load # loaded' /\ \A l \in loads' : l.n = loaded' => l = new
        BY <1>1, <2>1, <3>1, <3>2 DEF RoutesType, IsLoad
      <4>2. QED
        BY <3>2, <4>1 DEF LastLoad
    <3>5. OneAtATime => OneAtATime'
      <4>1. OneAtATime => loads' = {new} /\ calls' = {}
        BY <2>1, <3>1 DEF OneAtATime
      <4>2. QED
        BY <3>1, <3>2, <4>1 DEF OneAtATime
    <3>6. QED
      BY <2>1, <3>3, <3>4, <3>5 DEF RoutesInv
  <2>3. CASE c.phase # "ok"
    <3>1. UNCHANGED <<loads, loaded>>
      BY <1>7, <2>3 DEF Routes!Deliver
    <3>2. RoutesType'
      BY <1>1, <2>1, <3>1 DEF RoutesType, IsLoad
    <3>3. LastLoad => LastLoad'
      BY <2>1, <2>3, <3>1 DEF LastLoad, LoadIsToCome
    <3>4. OneAtATime => OneAtATime'
      BY <2>1, <3>1 DEF OneAtATime
    <3>5. QED
      BY <2>1, <3>2, <3>3, <3>4 DEF RoutesInv
  <2>4. QED
    BY <2>2, <2>3
<1>8. CASE UNCHANGED Routes!vars
  <2>1. UNCHANGED <<shown, loads, loaded, calls, channels, routes, troubles, habit>>
    BY <1>8 DEF Routes!vars
  <2>2. QED
    BY <2>1
       DEF RoutesInv, RoutesType, IsLoad, LastLoad, LoadIsToCome, OneAtATime
<1>9. ASSUME NEW c \in calls, Routes!HandleUnsaved(c) PROVE RoutesInv'
  <2>1. UNCHANGED <<shown, loaded, loads>> /\ troubles' = troubles + 1
    BY <1>9 DEF Routes!HandleUnsaved, Routes!view
  <2>2. PICK d : calls' = (calls \ {c}) \cup {d} /\ d = [c EXCEPT !.phase = "refused"]
    BY <1>9, RoutesReplied, Zenon DEF Routes!HandleUnsaved
  <2>3. IsRoutesCall(d)
    BY <1>1, <2>2 DEF RoutesType, IsRoutesCall
  <2>4. RoutesType' /\ troubles' # 0
    BY <1>1, <2>1, <2>2, <2>3 DEF RoutesType, IsLoad
  <2>5. QED
    BY <2>4 DEF RoutesInv
<1>10. QED
  BY <1>2, <1>3, <1>4, <1>5, <1>6, <1>7, <1>8, <1>9, RoutesUserKept, Zenon
     DEF Routes!Next, Routes!Load, Routes!Serve

LEMMA RoutesHold == Spec => [](open = "routes" => RoutesInv)
<1> DEFINE Inv == open = "routes" => RoutesInv
<1>1. Init => Inv
  BY RoutesSession, RoutesBegin
<1>2. Inv /\ [Next]_vars => Inv'
  BY OpenStays, RoutesSession, RoutesKept
<1>3. QED
  BY <1>1, <1>2, PTL DEF Spec

(* However the answers of several loads pass each other, the page of the   *)
(* routes shows the server's two lists if it shows its last load; the user *)
(* who waits for the page always sees that one.                            *)
THEOREM RoutesAreShown == Spec => []RoutesAreCurrent
<1>1. (open = "routes" => RoutesInv) => RoutesAreCurrent
  <2>1. ASSUME RoutesInv, Routes!Quiet, troubles = 0, Routes!LatestShown
        PROVE  shown.channels = channels /\ shown.routes = routes
    <3>1. calls = {} /\ loads = {}
      BY <2>1 DEF Routes!Quiet
    <3>2. LastLoad /\ ~LoadIsToCome
      BY <2>1, <3>1 DEF RoutesInv, LoadIsToCome
    <3>3. shown.load = loaded
      BY <2>1, <3>1 DEF RoutesInv, OneAtATime, Routes!LatestShown
    <3>4. QED
      BY <3>2, <3>3 DEF LastLoad
  <2>2. QED
    BY <2>1, Zenon DEF RoutesAreCurrent, Routes!ListsAreCurrent
<1>2. QED
  BY <1>1, RoutesHold, PTL
=============================================================================
