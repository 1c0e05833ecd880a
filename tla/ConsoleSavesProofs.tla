-------------------------- MODULE ConsoleSavesProofs --------------------------
(***************************************************************************)
(* Proofs about what the console's saves change: for a user who waits for  *)
(* the answers and is alone, the thing he means and what he typed of it.   *)
(* The last part shows the types of all pages, which rest on the           *)
(* invariants of those proofs and of the ones before.                      *)
(***************************************************************************)
EXTENDS ConsoleQueryProofs

-----------------------------------------------------------------------------
(* The page of data sources. *)

(* The settings of a name among those of s, whether it is there or not.    *)
At(s, k, name) ==
    IF name \in DOMAIN s[k] THEN s[k][name] ELSE Sources!DefaultSettings(k)

(* A request changes the connection it names and nothing else.             *)
LEMMA ChangedElsewhere ==
    ASSUME NEW s, Sources!IsSources(s), NEW c, IsRequestFor(c),
           NEW t, t = Sources!Changed(s, c)
    PROVE  /\ \A k \in Sources!Kinds : k # c.kind => t[k] = s[k]
           /\ \A name : name # c.name =>
                  /\ name \in DOMAIN t[c.kind] <=> name \in DOMAIN s[c.kind]
                  /\ name \in DOMAIN s[c.kind] => t[c.kind][name] = s[c.kind][name]
           /\ c.op = "save" => /\ c.name \in DOMAIN t[c.kind]
                               /\ t[c.kind][c.name] = c.settings
<1>1. c.kind \in Sources!Kinds /\ DOMAIN s = Sources!Kinds
  BY DEF IsRequestFor, Sources!IsSources, Sources!Servers
<1>2. PICK names : names = DOMAIN s[c.kind]
  OBVIOUS
<1>3. CASE c.op = "delete"
  <2>1. t = [s EXCEPT ![c.kind] = Sources!Restrict(@, names \ {c.name})]
    BY <1>2, <1>3 DEF Sources!Changed
  <2>2. t[c.kind] = [n \in names \ {c.name} |-> s[c.kind][n]]
    BY <1>1, <2>1 DEF Sources!Restrict
  <2>3. QED
    BY <1>1, <1>2, <1>3, <2>1, <2>2
<1>4. CASE c.op # "delete"
  <2>1. t = [s EXCEPT ![c.kind] = [n \in names \cup {c.name} |->
                                      IF n = c.name THEN c.settings ELSE @[n]]]
    BY <1>2, <1>4 DEF Sources!Changed
  <2>2. t[c.kind] = [n \in names \cup {c.name} |->
                        IF n = c.name THEN c.settings ELSE s[c.kind][n]]
    BY <1>1, <2>1
  <2>3. QED
    BY <1>1, <1>2, <2>1, <2>2
<1>5. QED
  BY <1>3, <1>4

LEMMA ChangedLeaves ==
    ASSUME NEW s, Sources!IsSources(s), NEW c, IsRequestFor(c),
           NEW t, t = Sources!Changed(s, c),
           NEW k \in Sources!Kinds, NEW name, k # c.kind \/ name # c.name
    PROVE  At(t, k, name) = At(s, k, name)
  BY ChangedElsewhere DEF At

(* The fields of a form or of a request that the user left alone are those *)
(* of the connection on the server.                                        *)
Untouched(k, name, s, fields) ==
    \A field \in DOMAIN s \ fields : s[field] = At(server, k, name)[field]

SingleCall == \A c, d \in calls : c = d

(* The editor of a save is open until its answer comes, and no connection  *)
(* is deleted whose editor is open.                                        *)
EditorsWait ==
    \A c \in calls : c.op = "save" <=> editing[c.kind] = c.name

(* What a user who is alone sees and sends comes from the server as it is, *)
(* but for the form whose save is done.                                    *)
Mine ==
    /\ ~missed
    /\ \A c \in calls : c.phase = "cloned" => c.clone = server
    /\ \A c \in calls : c.op = "save" /\ c.phase # "ok" =>
           Untouched(c.kind, c.name, c.settings, c.typed)
    /\ \A k \in Sources!Kinds : form[k] # None =>
           \/ Untouched(k, editing[k], form[k].settings, form[k].typed)
           \/ \E c \in calls : c.phase = "ok" /\ c.op = "save" /\ c.kind = k

SourcesUse ==
    /\ SourcesInv
    /\ troubles \in Nat
    /\ habit = "waits" => SingleCall /\ EditorsWait /\ (troubles = 0 => Mine)

LEMMA SourcesUseBegins == Sources!Init => SourcesUse
<1> SUFFICES ASSUME Sources!Init PROVE SourcesUse
  OBVIOUS
<1>1. /\ calls = {} /\ troubles = 0 /\ missed = FALSE
      /\ form = [k \in Sources!Kinds |-> None]
  BY Zenon DEF Sources!Init
<1>2. SingleCall /\ EditorsWait /\ Mine
  BY <1>1 DEF SingleCall, EditorsWait, Mine
<1>3. QED
  BY <1>1, <1>2, SourcesBegin DEF SourcesUse

(* A user who waits acts when all is quiet: what he sees is the server's.  *)
LEMMA SourcesSeen ==
    ASSUME SourcesUse, habit = "waits", Sources!MayAct
    PROVE  /\ calls = {} /\ Sources!IsSources(query.data)
           /\ troubles = 0 => query.data = server
<1>1. calls = {} /\ query.fetch = "idle" /\ query.data # None
  BY DEF Sources!MayAct, Sources!Quiet, Sources!Fetching
<1>2. Sources!IsSources(query.data)
  BY <1>1 DEF SourcesUse, SourcesInv, SourcesType
<1>3. ASSUME troubles = 0 PROVE query.data = server
  <2>1. ~missed
    BY <1>3, Zenon DEF SourcesUse, Mine
  <2>2. Fresh(query, server, TRUE)
    BY <1>1, <2>1, Zenon DEF SourcesUse, SourcesInv, SourcesShow
  <2>3. QED
    BY <1>1, <2>2 DEF Fresh
<1>4. QED
  BY <1>1, <1>2, <1>3

LEMMA SourcesOpened ==
    ASSUME SourcesUse, habit = "waits", NEW k \in Sources!Kinds, NEW name, Sources!MayAct,
           Sources!OpenEditor(k, name), Sources!Look
    PROVE  SingleCall' /\ EditorsWait' /\ (troubles' = 0 => Mine')
<1>1. /\ calls = {}
      /\ troubles = 0 => query.data = server
  BY SourcesSeen
<1>2. PICK f : f = [settings |-> Sources!RowSettings(k, name), typed |-> {}]
  OBVIOUS
<1>3. /\ editing' = [editing EXCEPT ![k] = name]
      /\ form' = [form EXCEPT ![k] = f]
      /\ UNCHANGED <<server, calls, troubles, missed>>
  BY <1>2 DEF Sources!OpenEditor, Sources!Look, Sources!bounds
<1>4. SingleCall' /\ EditorsWait'
  BY <1>1, <1>3 DEF SingleCall, EditorsWait
<1>5. ASSUME troubles' = 0 PROVE Mine'
  <2>1. Mine /\ query.data = server
    BY <1>1, <1>3, <1>5, Zenon DEF SourcesUse
  <2>2. f.settings = At(server, k, name)
    BY <1>2, <2>1 DEF Sources!RowSettings, At
  <2>3. \A k_ \in Sources!Kinds : form'[k_] # None =>
            \A field \in DOMAIN form'[k_].settings \ form'[k_].typed :
                form'[k_].settings[field] = At(server, k_, editing'[k_])[field]
    <3> SUFFICES ASSUME NEW k_ \in Sources!Kinds, form'[k_] # None
                 PROVE  \A field \in DOMAIN form'[k_].settings \ form'[k_].typed :
                            form'[k_].settings[field] = At(server, k_, editing'[k_])[field]
      OBVIOUS
    <3>1. DOMAIN form = Sources!Kinds /\ DOMAIN editing = Sources!Kinds
      BY DEF SourcesUse, SourcesInv, SourcesType
    <3>2. CASE k_ = k
      <4>1. form'[k_] = f /\ editing'[k_] = name
        BY <1>3, <3>1, <3>2
      <4>2. QED
        BY <2>2, <3>2, <4>1
    <3>3. CASE k_ # k
      <4>1. form'[k_] = form[k_] /\ editing'[k_] = editing[k_]
        BY <1>3, <3>1, <3>3
      <4>2. Untouched(k_, editing[k_], form[k_].settings, form[k_].typed)
        BY <1>1, <2>1, <4>1, Zenon DEF Mine
      <4>3. QED
        BY <4>1, <4>2, Zenon DEF Untouched
    <3>4. QED
      BY <3>2, <3>3
  <2>5. QED
    BY <1>1, <1>3, <2>1, <2>3 DEF Mine, Untouched, At
<1>6. QED
  BY <1>4, <1>5

(* A change in the form counts as typed.                                   *)
LEMMA TypedIsUntouched ==
    ASSUME NEW k \in Sources!Kinds, IsSourceForm(k, form[k]), NEW f \in Sources!Typed(k),
           NEW name, Untouched(k, name, form[k].settings, form[k].typed)
    PROVE  Untouched(k, name, f.settings, f.typed)
<1>1. CASE f = form[k]
  BY <1>1
<1>2. ASSUME NEW e \in Sources!Edits(k, form[k].settings),
             f = [settings |-> [form[k].settings EXCEPT ![e.field] = e.value],
                  typed |-> form[k].typed \cup {e.field}]
      PROVE  Untouched(k, name, f.settings, f.typed)
  <2>1. PICK s : s = form[k].settings
    OBVIOUS
  <2>2. /\ f.settings = [s EXCEPT ![e.field] = e.value]
        /\ f.typed = form[k].typed \cup {e.field}
    BY <1>2, <2>1
  <2>3. \A field \in DOMAIN f.settings \ f.typed :
            field \in DOMAIN s \ form[k].typed /\ f.settings[field] = s[field]
    BY <2>2
  <2>4. QED
    BY <2>1, <2>3 DEF Untouched
<1>3. QED
  BY <1>1, <1>2 DEF Sources!Typed

LEMMA SourcesSaved ==
    ASSUME SourcesUse, habit = "waits", NEW k \in Sources!Kinds, Sources!SaveConnection(k)
    PROVE  SingleCall' /\ EditorsWait' /\ (troubles' = 0 => Mine')
<1>1. /\ calls = {} /\ form[k] # None
      /\ UNCHANGED <<server, editing, missed, troubles>>
  BY SourcesSeen DEF Sources!SaveConnection, Sources!Click
<1>2. PICK f \in Sources!Typed(k) :
          /\ form' = [form EXCEPT ![k] = f]
          /\ Sources!Click([Sources!Call("save", k, editing[k]) EXCEPT
                               !.settings = f.settings, !.typed = f.typed])
  BY Zenon DEF Sources!SaveConnection
<1>3. PICK c : c = [Sources!Call("save", k, editing[k]) EXCEPT
                       !.settings = f.settings, !.typed = f.typed]
  OBVIOUS
<1>4. /\ c.op = "save" /\ c.kind = k /\ c.name = editing[k] /\ c.phase = "sent"
      /\ c.settings = f.settings /\ c.typed = f.typed
  BY <1>3 DEF Sources!Call
<1>5. calls' = {c}
  BY <1>1, <1>2, <1>3 DEF Sources!Click
<1>6. SingleCall' /\ EditorsWait'
  BY <1>1, <1>4, <1>5 DEF SingleCall, EditorsWait
<1>7. ASSUME troubles' = 0 PROVE Mine'
  <2>1. Mine
    BY <1>1, <1>7, Zenon DEF SourcesUse
  <2>2. IsSourceForm(k, form[k]) /\ DOMAIN form = Sources!Kinds
    BY <1>1 DEF SourcesUse, SourcesInv, SourcesType
  <2>3. Untouched(k, editing[k], f.settings, f.typed)
    <3>1. Untouched(k, editing[k], form[k].settings, form[k].typed)
      BY <1>1, <2>1, Zenon DEF Mine
    <3>2. QED
      BY <2>2, <3>1, TypedIsUntouched
  <2>4. ASSUME NEW k_ \in Sources!Kinds, form'[k_] # None
        PROVE  Untouched(k_, editing[k_], form'[k_].settings, form'[k_].typed)
    <3>1. CASE k_ = k
      BY <1>2, <2>2, <2>3, <3>1
    <3>2. CASE k_ # k
      <4>1. form'[k_] = form[k_]
        BY <1>2, <2>2, <3>2
      <4>2. QED
        BY <1>1, <2>1, <2>4, <4>1, Zenon DEF Mine
    <3>3. QED
      BY <3>1, <3>2
  <2>5. \A k_ \in Sources!Kinds : form'[k_] # None =>
            Untouched(k_, editing[k_], form[k_].settings, form[k_].typed)'
    BY <1>1, <2>4 DEF Untouched, At
  <2>6. Untouched(c.kind, c.name, c.settings, c.typed)'
    BY <1>1, <1>4, <2>3 DEF Untouched, At
  <2>7. QED
    BY <1>1, <1>4, <1>5, <2>1, <2>5, <2>6 DEF Mine
<1>8. QED
  BY <1>6, <1>7

LEMMA SourcesSectionUse ==
    ASSUME SourcesUse, NEW k \in Sources!Kinds, Sources!Section(k)
    PROVE  SourcesUse'
<1>1. SourcesInv' /\ habit' = habit /\ troubles' = troubles
  BY SourcesSectionKept, Zenon
     DEF SourcesUse, Sources!Section, Sources!Edit, Sources!Add, Sources!DeleteConnection,
         Sources!Cancel, Sources!SaveConnection, Sources!Look, Sources!Click,
         Sources!bounds
<1> SUFFICES ASSUME habit = "waits"
             PROVE  SingleCall' /\ EditorsWait' /\ (troubles' = 0 => Mine')
  BY <1>1, Zenon DEF SourcesUse
<1>2. ASSUME NEW name, Sources!Edit(k, name) \/ Sources!Add(k, name)
      PROVE  SingleCall' /\ EditorsWait' /\ (troubles' = 0 => Mine')
  BY <1>2, SourcesOpened, Zenon DEF Sources!Edit, Sources!Add
<1>3. CASE Sources!Cancel(k)
  <2>1. /\ calls = {}
        /\ editing' = [editing EXCEPT ![k] = None]
        /\ form' = [form EXCEPT ![k] = None]
        /\ UNCHANGED <<server, calls, troubles, missed>>
    BY <1>3, SourcesSeen
       DEF Sources!Cancel, Sources!CloseEditor, Sources!Look, Sources!bounds
  <2>2. DOMAIN form = Sources!Kinds /\ DOMAIN editing = Sources!Kinds
    BY DEF SourcesUse, SourcesInv, SourcesType
  <2>3. \A k_ \in Sources!Kinds : form'[k_] # None =>
            form[k_] # None /\ form'[k_] = form[k_] /\ editing'[k_] = editing[k_]
    BY <2>1, <2>2
  <2>4. SingleCall' /\ EditorsWait'
    BY <2>1 DEF SingleCall, EditorsWait
  <2>5. ASSUME troubles' = 0 PROVE Mine'
    <3>1. Mine
      BY <2>1, <2>5, Zenon DEF SourcesUse
    <3>2. \A k_ \in Sources!Kinds : form'[k_] # None =>
              Untouched(k_, editing[k_], form[k_].settings, form[k_].typed)'
      BY <2>1, <2>3, <3>1 DEF Mine, Untouched, At
    <3>3. QED
      BY <2>1, <3>1, <3>2 DEF Mine
  <2>6. QED
    BY <2>4, <2>5
<1>4. CASE Sources!SaveConnection(k)
  BY <1>4, SourcesSaved
<1>5. ASSUME NEW name, Sources!DeleteConnection(k, name)
      PROVE  SingleCall' /\ EditorsWait' /\ (troubles' = 0 => Mine')
  <2>1. /\ calls = {} /\ name # editing[k]
        /\ Sources!Click(Sources!Call("delete", k, name))
        /\ UNCHANGED <<editing, form>>
    BY <1>5, SourcesSeen, Zenon DEF Sources!DeleteConnection, Sources!editors
  <2>2. PICK c : c = Sources!Call("delete", k, name)
    OBVIOUS
  <2>3. /\ calls' = {c} /\ c.op = "delete" /\ c.kind = k /\ c.name = name
        /\ c.phase = "sent"
        /\ UNCHANGED <<server, missed, troubles>>
    BY <2>1, <2>2 DEF Sources!Click, Sources!Call
  <2>4. SingleCall' /\ EditorsWait'
    BY <2>1, <2>3 DEF SingleCall, EditorsWait
  <2>5. ASSUME troubles' = 0 PROVE Mine'
    <3>1. Mine
      BY <2>3, <2>5, Zenon DEF SourcesUse
    <3>2. \A k_ \in Sources!Kinds : form'[k_] # None =>
              Untouched(k_, editing[k_], form[k_].settings, form[k_].typed)'
      BY <2>1, <2>3, <3>1 DEF Mine, Untouched, At
    <3>3. QED
      BY <2>3, <3>1, <3>2 DEF Mine
  <2>6. QED
    BY <2>4, <2>5
<1>6. QED
  BY <1>2, <1>3, <1>4, <1>5, Zenon DEF Sources!Section

(* The requests a user who waits has under way, one at a time, work on the *)
(* server as it is.                                                        *)
LEMMA SourcesServeUse ==
    ASSUME SourcesUse, NEW c \in calls,
           Sources!Clone(c) \/ Sources!Publish(c) \/ Sources!Deliver(c) \/ Sources!Refuse(c)
    PROVE  SourcesUse'
<1>1. /\ SourcesInv' /\ habit' = habit
      /\ troubles' \in Nat /\ (troubles' = 0 => troubles = 0)
  <2>1. SourcesInv'
    BY SourcesServeKept DEF SourcesUse
  <2>2. troubles' = troubles \/ (Sources!Refuse(c) /\ troubles' = troubles + 1)
    BY Zenon DEF Sources!Clone, Sources!Publish, Sources!Deliver, Sources!Refuse,
                 Sources!bounds
  <2>3. habit' = habit
    BY Zenon DEF Sources!Clone, Sources!Publish, Sources!Deliver, Sources!Refuse,
                 Sources!bounds
  <2>4. QED
    BY <2>1, <2>2, <2>3 DEF SourcesUse
<1> SUFFICES ASSUME habit = "waits"
             PROVE  SingleCall' /\ EditorsWait' /\ (troubles' = 0 => Mine')
  BY <1>1, Zenon DEF SourcesUse
<1>2. /\ calls = {c} /\ EditorsWait /\ IsSourceCall(c) /\ IsRequestFor(c)
      /\ DOMAIN form = Sources!Kinds /\ DOMAIN editing = Sources!Kinds
      /\ Sources!IsSources(server)
      /\ troubles = 0 => Mine
  BY DEF SourcesUse, SourcesInv, SourcesType, SingleCall, IsSourceCall
<1>3. ASSUME Sources!Clone(c) \/ Sources!Refuse(c)
      PROVE  SingleCall' /\ EditorsWait' /\ (troubles' = 0 => Mine')
  <2>1. PICK d : /\ calls' = {d}
                 /\ d = [c EXCEPT !.phase = "refused"]
                    \/ d = [c EXCEPT !.phase = "cloned", !.clone = server]
    BY <1>2, <1>3 DEF Sources!Clone, Sources!Refuse, Sources!Update
  <2>2. /\ d.op = c.op /\ d.kind = c.kind /\ d.name = c.name
        /\ d.settings = c.settings /\ d.typed = c.typed
        /\ d.phase \in {"refused", "cloned"}
        /\ d.phase = "cloned" => d.clone = server
    BY <1>2, <2>1 DEF IsSourceCall
  <2>3. UNCHANGED <<server, missed, editing, form>> /\ c.phase # "ok"
    BY <1>3 DEF Sources!Clone, Sources!Refuse, Sources!editors
  <2>4. SingleCall' /\ EditorsWait'
    BY <1>2, <2>1, <2>2, <2>3 DEF SingleCall, EditorsWait
  <2>5. ASSUME troubles' = 0 PROVE Mine'
    <3>1. Mine
      BY <1>1, <1>2, <2>5
    <3>2. \A k \in Sources!Kinds : form[k] # None =>
              Untouched(k, editing[k], form[k].settings, form[k].typed)'
      BY <1>2, <2>3, <3>1 DEF Mine, Untouched, At
    <3>3. d.op = "save" => Untouched(d.kind, d.name, d.settings, d.typed)'
      BY <1>2, <2>2, <2>3, <3>1 DEF Mine, Untouched, At
    <3>4. QED
      BY <2>1, <2>2, <2>3, <3>1, <3>2, <3>3 DEF Mine
  <2>6. QED
    BY <2>4, <2>5
<1>4. CASE Sources!Publish(c)
  <2>1. PICK d : /\ calls' = {d}
                 /\ d = [c EXCEPT !.phase = "ok"]
    BY <1>2, <1>4 DEF Sources!Publish, Sources!Update
  <2>2. d.op = c.op /\ d.kind = c.kind /\ d.name = c.name /\ d.phase = "ok"
    BY <1>2, <2>1 DEF IsSourceCall
  <2>3. /\ server' = Sources!Changed(c.clone, c) /\ c.phase = "cloned"
        /\ UNCHANGED <<missed, editing, form, troubles>>
    BY <1>4 DEF Sources!Publish, Sources!editors, Sources!bounds
  <2>4. SingleCall' /\ EditorsWait'
    BY <1>2, <2>1, <2>2, <2>3 DEF SingleCall, EditorsWait
  <2>5. ASSUME troubles' = 0 PROVE Mine'
    <3>1. Mine
      BY <1>1, <1>2, <2>5
    <3>2. server' = Sources!Changed(server, c)
      BY <1>2, <2>3, <3>1 DEF Mine
    <3>3. ASSUME NEW k \in Sources!Kinds, form[k] # None,
                 ~(c.op = "save" /\ c.kind = k)
          PROVE  \A field \in DOMAIN form[k].settings \ form[k].typed :
                     form[k].settings[field] = At(server', k, editing[k])[field]
      <4>1. k # c.kind \/ editing[k] # c.name
        BY <1>2, <3>3 DEF EditorsWait
      <4>2. At(server', k, editing[k]) = At(server, k, editing[k])
        BY <1>2, <3>2, <4>1, ChangedLeaves
      <4>3. Untouched(k, editing[k], form[k].settings, form[k].typed)
        BY <1>2, <2>3, <3>1, <3>3, Zenon DEF Mine
      <4>4. QED
        BY <4>2, <4>3, Zenon DEF Untouched
    <3>4. \A k \in Sources!Kinds : form'[k] # None =>
              \/ Untouched(k, editing[k], form[k].settings, form[k].typed)'
              \/ c.op = "save" /\ c.kind = k
      BY <2>3, <3>3 DEF Untouched, At
    <3>5. QED
      BY <2>1, <2>2, <2>3, <3>1, <3>4 DEF Mine
  <2>6. QED
    BY <2>4, <2>5
<1>5. CASE Sources!Deliver(c)
  <2>1. calls' = {} /\ UNCHANGED <<server, missed, troubles>>
    BY <1>2, <1>5 DEF Sources!Deliver, Sources!bounds
  <2>2. SingleCall' /\ EditorsWait'
    BY <2>1 DEF SingleCall, EditorsWait
  <2>3. ASSUME troubles' = 0 PROVE Mine'
    <3>1. Mine
      BY <1>1, <1>2, <2>3
    <3>2. ASSUME NEW k \in Sources!Kinds, form'[k] # None
          PROVE  /\ form'[k] = form[k] /\ editing'[k] = editing[k]
                 /\ ~(c.phase = "ok" /\ c.op = "save" /\ c.kind = k)
      <4>1. CASE c.phase = "ok" /\ c.op = "save"
        BY <1>2, <1>5, <3>2, <4>1 DEF Sources!Deliver, Sources!CloseEditor
      <4>2. CASE ~(c.phase = "ok" /\ c.op = "save")
        BY <1>5, <3>2, <4>2 DEF Sources!Deliver, Sources!editors
      <4>3. QED
        BY <4>1, <4>2
    <3>3. ASSUME NEW k \in Sources!Kinds, form'[k] # None
          PROVE  Untouched(k, editing[k], form[k].settings, form[k].typed)
      BY <1>2, <3>1, <3>2, <3>3 DEF Mine
    <3>4. \A k \in Sources!Kinds : form'[k] # None =>
              Untouched(k, editing[k], form[k].settings, form[k].typed)'
      BY <2>1, <3>2, <3>3 DEF Untouched, At
    <3>5. QED
      BY <2>1, <3>1, <3>4 DEF Mine
  <2>4. QED
    BY <2>2, <2>3
<1>6. QED
  BY <1>3, <1>4, <1>5

LEMMA SourcesUseKept == SourcesUse /\ [Sources!Next]_(Sources!vars) => SourcesUse'
<1> SUFFICES ASSUME SourcesUse, [Sources!Next]_(Sources!vars) PROVE SourcesUse'
  OBVIOUS
<1>1. SourcesInv'
  BY SourcesKept DEF SourcesUse
<1>2. ASSUME UNCHANGED <<server, editing, form, calls, troubles, habit>>,
             missed' => missed
      PROVE  SourcesUse'
  <2>1. SingleCall' = SingleCall /\ EditorsWait' = EditorsWait
    BY <1>2 DEF SingleCall, EditorsWait
  <2>2. Mine => Mine'
    BY <1>2 DEF Mine, Untouched, At
  <2>3. QED
    BY <1>1, <1>2, <2>1, <2>2 DEF SourcesUse
<1>3. CASE Sources!AnswerFetch
  <2>1. UNCHANGED <<server, editing, form, calls, troubles, habit>> /\ ~missed'
    BY <1>3 DEF Sources!AnswerFetch, Sources!editors, Sources!bounds
  <2>2. QED
    BY <1>2, <2>1
<1>4. CASE Sources!ArriveFetch
  BY <1>2, <1>4 DEF Sources!ArriveFetch, Sources!editors, Sources!bounds
<1>5. CASE UNCHANGED Sources!vars
  BY <1>2, <1>5 DEF Sources!vars
<1>6. CASE Sources!OtherEdit \/ Sources!FailFetch
  <2>1. /\ UNCHANGED <<editing, form, calls, habit>>
        /\ troubles' = troubles + 1 /\ troubles \in Nat
    BY <1>6 DEF Sources!OtherEdit, Sources!FailFetch, Sources!editors, SourcesUse
  <2>2. SingleCall' = SingleCall /\ EditorsWait' = EditorsWait
    BY <2>1 DEF SingleCall, EditorsWait
  <2>3. troubles' \in Nat /\ troubles' # 0
    BY <2>1
  <2>4. QED
    BY <1>1, <2>1, <2>2, <2>3 DEF SourcesUse
<1>7. ASSUME NEW k \in Sources!Kinds, Sources!Section(k) PROVE SourcesUse'
  BY <1>7, SourcesSectionUse
<1>8. QED
  BY <1>3, <1>4, <1>5, <1>6, <1>7, SourcesServeUse, Zenon
     DEF Sources!Next, Sources!Fetch, Sources!Serve, Sources!Kinds,
         Sources!MySQLSection, Sources!RedisSection, Sources!IoTDBSection,
         Sources!RestAPISection

(* Which steps change the server, the editors, or end a request.           *)
LEMMA SourcesStep ==
    ASSUME SourcesUse, [Sources!Next]_(Sources!vars), habit = "waits"
    PROVE  /\ \/ server' = server
              \/ troubles' = troubles + 1
              \/ \E c \in calls : Sources!Publish(c)
           /\ calls = {} \/ UNCHANGED <<editing, form>> \/ \E c \in calls : Sources!Deliver(c)
<1>1. Sources!MayAct => calls = {}
  BY SourcesSeen
<1>2. ASSUME NEW k, Sources!Section(k) PROVE server' = server /\ calls = {}
  BY <1>1, <1>2, Zenon
     DEF Sources!Section, Sources!Edit, Sources!Add, Sources!DeleteConnection,
         Sources!Cancel, Sources!SaveConnection, Sources!Look, Sources!Click
<1>3. CASE Sources!AnswerFetch \/ Sources!ArriveFetch \/ UNCHANGED Sources!vars
  BY <1>3 DEF Sources!AnswerFetch, Sources!ArriveFetch, Sources!vars, Sources!editors
<1>4. CASE Sources!OtherEdit \/ Sources!FailFetch
  BY <1>4 DEF Sources!OtherEdit, Sources!FailFetch, Sources!editors
<1>5. ASSUME NEW c \in calls, Sources!Clone(c) \/ Sources!Publish(c) \/ Sources!Deliver(c)
                                  \/ Sources!Refuse(c)
      PROVE  /\ server' = server \/ Sources!Publish(c)
             /\ UNCHANGED <<editing, form>> \/ Sources!Deliver(c)
  BY <1>5 DEF Sources!Clone, Sources!Publish, Sources!Deliver, Sources!Refuse,
              Sources!editors
<1>6. QED
  BY <1>2, <1>3, <1>4, <1>5, Zenon
     DEF Sources!Next, Sources!Fetch, Sources!Serve,
         Sources!MySQLSection, Sources!RedisSection, Sources!IoTDBSection,
         Sources!RestAPISection

(* What a user who waits and is alone saves or deletes changes no other    *)
(* connection, and a save none of the fields that he left alone.           *)
THEOREM SavedSourcesAreMeant == Spec => SourceSavesAreExact
<1> DEFINE Inv == open = "sources" => SourcesUse
<1>1. Init => Inv
  BY SourcesSession, SourcesUseBegins
<1>2. Inv /\ [Next]_vars => Inv'
  BY OpenStays, SourcesSession, SourcesUseKept
<1>3. ASSUME SourcesUse, [Sources!Next]_(Sources!vars) PROVE Sources!SaveIsExact
  <2> SUFFICES ASSUME habit = "waits", troubles' = 0, NEW c \in calls, c.phase = "cloned",
                      server' # server
               PROVE  Sources!ChangesOnly(c)
    BY DEF Sources!SaveIsExact
  <2>1. troubles \in Nat /\ SingleCall
    BY <1>3, Zenon DEF SourcesUse
  <2>2. Sources!Publish(c)
    <3>1. troubles' # troubles + 1
      BY <2>1
    <3>2. QED
      BY <1>3, <2>1, <3>1, SourcesStep, Zenon DEF SingleCall
  <2>3. troubles' = troubles
    BY <2>2, Zenon DEF Sources!Publish, Sources!bounds
  <2>4. Mine
    BY <1>3, <2>3, Zenon DEF SourcesUse
  <2>5. server' = Sources!Changed(server, c)
    BY <2>2, <2>4, Zenon DEF Sources!Publish, Mine
  <2>6. Sources!IsSources(server) /\ IsRequestFor(c)
    BY <1>3 DEF SourcesUse, SourcesInv, SourcesType, IsSourceCall
  <2>7. /\ \A k \in Sources!Kinds : k # c.kind => server'[k] = server[k]
        /\ \A name : name # c.name =>
               /\ name \in DOMAIN server'[c.kind] <=> name \in DOMAIN server[c.kind]
               /\ name \in DOMAIN server[c.kind] =>
                      server'[c.kind][name] = server[c.kind][name]
        /\ c.op = "save" => server'[c.kind][c.name] = c.settings
    BY <2>5, <2>6, ChangedElsewhere
  <2>8. c.op = "save" => Untouched(c.kind, c.name, c.settings, c.typed)
    BY <2>4 DEF Mine
  <2>9. c.op = "save" =>
            \A field \in DOMAIN c.settings \ c.typed :
                server'[c.kind][c.name][field] = Sources!Before(c.kind, c.name)[field]
    BY <2>7, <2>8 DEF Untouched, At, Sources!Before
  <2>10. QED
    BY <2>7, <2>9, Zenon DEF Sources!ChangesOnly
<1>4. Inv /\ [Next]_vars => [open = "sources" => Sources!SaveIsExact]_vars
  BY <1>3, SourcesSession
<1>5. QED
  BY <1>1, <1>2, <1>4, PTL DEF Spec, SourceSavesAreExact

(* The user who waits keeps what he types: an answer closes the editor of  *)
(* the connection it is about and no other.                                *)
THEOREM OtherEditorsStayOpen == Spec => AnswersCloseTheirOwn
<1> DEFINE Inv == open = "sources" => SourcesUse
<1>1. Init => Inv
  BY SourcesSession, SourcesUseBegins
<1>2. Inv /\ [Next]_vars => Inv'
  BY OpenStays, SourcesSession, SourcesUseKept
<1>3. ASSUME SourcesUse, [Sources!Next]_(Sources!vars) PROVE Sources!AnswerClosesItsOwn
  <2> SUFFICES ASSUME habit = "waits", NEW c \in calls \ calls', NEW k \in Sources!Kinds,
                      editing'[k] # editing[k]
               PROVE  c.kind = k /\ c.name = editing[k]
    BY DEF Sources!AnswerClosesItsOwn
  <2>1. SingleCall /\ EditorsWait
    BY <1>3, Zenon DEF SourcesUse
  <2>2. Sources!Deliver(c)
    BY <1>3, <2>1, SourcesStep, Zenon DEF SingleCall
  <2>3. c.op = "save" /\ Sources!CloseEditor(c.kind)
    BY <2>2 DEF Sources!Deliver, Sources!editors
  <2>4. k = c.kind
    BY <1>3, <2>3 DEF Sources!CloseEditor, SourcesUse, SourcesInv, SourcesType
  <2>5. QED
    BY <2>1, <2>3, <2>4 DEF EditorsWait
<1>4. Inv /\ [Next]_vars => [open = "sources" => Sources!AnswerClosesItsOwn]_vars
  BY <1>3, SourcesSession
<1>5. QED
  BY <1>1, <1>2, <1>4, PTL DEF Spec, AnswersCloseTheirOwn

-----------------------------------------------------------------------------
(* The pages of the alert rules. *)

ListOps == {"enable", "disable", "delete"}

(* The fields that the user left alone are what the form makes of those of *)
(* the rule on the server.                                                 *)
IsCopyOf(id, f) ==
    id \in DOMAIN server =>
        \A field \in Alerts!Fields \ f.typed :
            f.rule[field] = Alerts!Copied(server[id])[field]

NothingFetched == list.fetch = "idle" /\ \A id \in Ids : rules[id].fetch = "idle"

(* A call comes from the page that is still open; the rule that is saved   *)
(* is a copy of the server's until the save is handled.                    *)
FromItsPage(c) ==
    \/ c.op \in ListOps /\ page = "list"
    \/ c.op = "create" /\ page = "new"
    \/ c.op = "update" /\ page \in Ids /\ c.id = page
           /\ (c.phase = "sent" => IsCopyOf(page, c))

RulesMine ==
    /\ stale = {}
    /\ SingleCall
    /\ calls # {} => NothingFetched
    /\ \A c \in calls : FromItsPage(c)
    /\ form # None /\ page \in Ids => IsCopyOf(page, form) \/ ChangeIsToCome
    /\ form # None => page # "list"

DialogIsOfTheList == dialog # None => page = "list"

AlertsUse ==
    /\ AlertsInv
    /\ DialogIsOfTheList
    /\ others \in Nat
    /\ page \in Alerts!Pages
    /\ habit.waits /\ others = 0 => RulesMine

LEMMA AlertsUseBegins == Alerts!Init => AlertsUse
<1> SUFFICES ASSUME Alerts!Init PROVE AlertsUse
  OBVIOUS
<1>1. calls = {} /\ others = 0 /\ stale = {} /\ form = None /\ dialog = None
  BY Zenon DEF Alerts!Init
<1>2. DOMAIN server \subseteq Ids
  BY AlertsBegin DEF AlertsInv, AlertsType, AreRules
<1>3. page \in Alerts!Pages
  BY <1>2 DEF Alerts!Init, Alerts!Pages
<1>4. RulesMine
  BY <1>1 DEF RulesMine, SingleCall
<1>5. QED
  BY <1>1, <1>3, <1>4, AlertsBegin DEF AlertsUse, DialogIsOfTheList

(* The user who waits acts when nothing is in flight.                      *)
LEMMA AlertsReady ==
    ASSUME habit.waits, Alerts!Ready
    PROVE  calls = {} /\ NothingFetched
  BY DEF Alerts!Ready, Alerts!Quiet, Alerts!Fetching, NothingFetched

(* Steps of the user that only look, and those that make a call.           *)
LEMMA AlertsLooked ==
    ASSUME AlertsUse, AlertsInv', DialogIsOfTheList', Alerts!Look, page' \in Alerts!Pages,
           form' = None \/ (form' = form /\ page' = page)
              \/ page' = "new"
              \/ (page' \in Ids /\ IsCopyOf(page, form)'),
           habit.waits => calls = {} \/ (page' = page /\ form' = form /\ UNCHANGED Alerts!cache)
    PROVE  AlertsUse'
<1>1. UNCHANGED <<server, calls, stale, others, habit>>
  BY DEF Alerts!Look, Alerts!bounds
<1>2. ASSUME habit.waits, others = 0 PROVE RulesMine'
  <2>1. RulesMine
    BY <1>2, Zenon DEF AlertsUse
  <2>2. stale' = {} /\ SingleCall'
    BY <1>1, <2>1 DEF RulesMine, SingleCall
  <2>3. CASE page' = page /\ form' = form /\ UNCHANGED Alerts!cache
    BY <1>1, <2>1, <2>2, <2>3
       DEF RulesMine, NothingFetched, FromItsPage, IsCopyOf, ChangeIsToCome, Alerts!cache
  <2>4. CASE calls = {}
    <3>1. "list" \notin Ids /\ "new" \notin Ids
      BY AlertsAssumed
    <3>2. form' # None /\ page' \in Ids => IsCopyOf(page, form)'
      <4>1. CASE form' = form /\ page' = page
        BY <1>1, <2>1, <2>4, <4>1 DEF RulesMine, ChangeIsToCome, IsCopyOf
      <4>2. QED
        BY <3>1, <4>1
    <3>3. form' # None => page' # "list"
      BY <2>1, <3>1 DEF RulesMine
    <3>4. QED
      BY <1>1, <2>2, <2>4, <3>2, <3>3 DEF RulesMine
  <2>5. QED
    BY <1>2, <2>3, <2>4
<1>3. QED
  BY <1>1, <1>2 DEF AlertsUse

LEMMA AlertsClicked ==
    ASSUME AlertsUse, AlertsInv', DialogIsOfTheList', NEW c, Alerts!Click(c), UNCHANGED page,
           RulesMine /\ habit.waits => FromItsPage(c),
           form' = form \/ (page # "list"
                               /\ (page \in Ids /\ RulesMine /\ habit.waits => IsCopyOf(page, form')))
    PROVE  AlertsUse'
<1>1. /\ calls' = calls \cup {c}
      /\ UNCHANGED <<server, others, stale, habit, list, rules, page>>
  BY DEF Alerts!Click, Alerts!cache
<1>2. ASSUME habit.waits, others = 0 PROVE RulesMine'
  <2>1. RulesMine
    BY <1>2, Zenon DEF AlertsUse
  <2>2. calls = {} /\ NothingFetched
    BY <1>2, AlertsReady DEF Alerts!Click
  <2>3. calls' = {c}
    BY <1>1, <2>2
  <2>4. SingleCall' /\ NothingFetched'
    BY <1>1, <2>2, <2>3 DEF SingleCall, NothingFetched
  <2>5. FromItsPage(c)'
    BY <1>1, <1>2, <2>1 DEF FromItsPage, IsCopyOf
  <2>6. form' # None /\ page' \in Ids => IsCopyOf(page, form)'
    <3>1. form' # None /\ page \in Ids => IsCopyOf(page, form')
      BY <1>2, <2>1, <2>2 DEF RulesMine, ChangeIsToCome
    <3>2. QED
      BY <1>1, <3>1 DEF IsCopyOf
  <2>7. QED
    BY <1>1, <2>1, <2>3, <2>4, <2>5, <2>6 DEF RulesMine
<1>3. QED
  BY <1>1, <1>2 DEF AlertsUse

LEMMA TypedIsCopyOf ==
    ASSUME form # None, IsAlertForm(form), NEW f \in Alerts!Typed, NEW id, IsCopyOf(id, form)
    PROVE  IsCopyOf(id, f)
<1>1. CASE f = form
  BY <1>1
<1>2. ASSUME NEW e,
             f = [rule |-> [form.rule EXCEPT ![e.field] = e.value],
                  typed |-> form.typed \cup {e.field}]
      PROVE  IsCopyOf(id, f)
  <2>1. PICK r : r = form.rule
    OBVIOUS
  <2>2. DOMAIN r = Alerts!Fields
    BY <2>1 DEF IsAlertForm, IsDraft
  <2>3. f.rule = [r EXCEPT ![e.field] = e.value] /\ f.typed = form.typed \cup {e.field}
    BY <1>2, <2>1
  <2>4. \A field \in Alerts!Fields \ f.typed :
            field \in Alerts!Fields \ form.typed /\ f.rule[field] = r[field]
    BY <2>2, <2>3
  <2>5. QED
    BY <2>1, <2>4 DEF IsCopyOf
<1>3. QED
  BY <1>1, <1>2 DEF Alerts!Typed

LEMMA AlertsUserUse == AlertsUse /\ Alerts!User => AlertsUse'
<1> SUFFICES ASSUME AlertsUse, Alerts!User PROVE AlertsUse'
  OBVIOUS
<1>1. AlertsInv' /\ AlertsInv /\ page \in Alerts!Pages /\ DialogIsOfTheList
  BY AlertsUserKept DEF AlertsUse
<1>2. "list" \notin Ids /\ "new" \notin Ids
  BY AlertsAssumed
<1>3. ASSUME NEW p \in Alerts!Pages, Alerts!Open(p) PROVE AlertsUse'
  <2>1. Alerts!Look /\ page' = p /\ Alerts!Ready
    BY <1>3, Zenon DEF Alerts!Open, Alerts!Leave
  <2>2. form' = None \/ (p = "new" /\ form' = Alerts!NewForm)
    BY <1>3, Zenon DEF Alerts!Open
  <2>3. form' = None \/ page' = "new"
    BY <2>1, <2>2
  <2>4. dialog' = None
    BY <1>3, Zenon DEF Alerts!Open, Alerts!Leave
  <2>5. DialogIsOfTheList'
    BY <2>4 DEF DialogIsOfTheList
  <2>6. habit.waits => calls = {}
    BY <2>1, AlertsReady
  <2>7. QED
    BY <1>1, <2>1, <2>3, <2>5, <2>6, AlertsLooked
<1>4. ASSUME NEW id \in Ids, Alerts!Toggle(id) PROVE AlertsUse'
  <2>1. UNCHANGED <<page, form>> /\ page = "list"
    BY <1>4 DEF Alerts!Toggle, Alerts!pageVars, Alerts!OnList
  <2>2. PICK op \in ListOps : Alerts!Click(Alerts!Call(op, id))
    <3>1. \E op \in {"disable", "enable"} : Alerts!Click(Alerts!Call(op, id))
      BY <1>4, Zenon DEF Alerts!Toggle
    <3>2. QED
      BY <3>1 DEF ListOps
  <2>3. PICK c : c = Alerts!Call(op, id)
    OBVIOUS
  <2>4. FromItsPage(c)
    BY <2>1, <2>2, <2>3 DEF FromItsPage, Alerts!Call
  <2>5. QED
    BY <1>1, <2>1, <2>2, <2>3, <2>4, AlertsClicked DEF DialogIsOfTheList
<1>5. ASSUME NEW id \in Ids, Alerts!AskDelete(id) PROVE AlertsUse'
  <2>1. Alerts!Look /\ UNCHANGED <<page, form>> /\ UNCHANGED Alerts!cache
    BY <1>5, Zenon DEF Alerts!AskDelete
  <2>2. DialogIsOfTheList'
    BY <1>5, <2>1 DEF Alerts!AskDelete, Alerts!OnList, DialogIsOfTheList
  <2>3. QED
    BY <1>1, <2>1, <2>2, AlertsLooked
<1>6. ASSUME NEW id \in Ids, Alerts!StartEdit(id) PROVE AlertsUse'
  <2>1. /\ Alerts!Look /\ page' = page /\ page = id /\ Alerts!Ready /\ UNCHANGED Alerts!cache
        /\ form' = [rule |-> Alerts!Copied(rules[id].data), typed |-> {}]
    BY <1>6, Zenon DEF Alerts!StartEdit, Alerts!Shown
  <2>2. IsAlertForm(form') \/ form' = None
    BY <1>1 DEF AlertsInv, AlertsType
  <2>3. ASSUME habit.waits, others = 0, form' # None
        PROVE  IsCopyOf(page, form)'
    <3>1. calls = {} /\ rules[id].fetch = "idle"
      BY <1>6, <2>1, <2>3, AlertsReady DEF NothingFetched
    <3>2. stale = {}
      BY <2>3, Zenon DEF AlertsUse, RulesMine
    <3>3. FreshRule(id)
      BY <1>1, <3>1, <3>2 DEF AlertsInv, AlertsShow, ChangeIsToCome
    <3>4. id \in DOMAIN server => rules[id].data = server[id]
      BY <2>1, <3>1, <3>3 DEF FreshRule, Fresh
    <3>5. UNCHANGED server
      BY <2>1 DEF Alerts!Look
    <3>6. QED
      BY <2>1, <3>4, <3>5 DEF IsCopyOf
  <2>4. UNCHANGED <<server, calls, stale, others, habit>>
    BY <2>1 DEF Alerts!Look, Alerts!bounds
  <2>5. ASSUME habit.waits, others = 0 PROVE RulesMine'
    <3>1. RulesMine /\ calls = {}
      BY <2>1, <2>5, AlertsReady DEF AlertsUse
    <3>2. page' # "list"
      BY <1>2, <2>1
    <3>3. QED
      BY <2>3, <2>4, <2>5, <3>1, <3>2 DEF RulesMine, SingleCall
  <2>6. DialogIsOfTheList'
    BY <1>1, <1>6, <2>1 DEF Alerts!StartEdit, DialogIsOfTheList
  <2>7. QED
    BY <1>1, <2>1, <2>4, <2>5, <2>6 DEF AlertsUse
<1>7. ASSUME NEW confirmed \in BOOLEAN, Alerts!AnswerDialog(confirmed) PROVE AlertsUse'
  <2>1. UNCHANGED <<page, form>> /\ dialog # None /\ DialogIsOfTheList'
    BY <1>7 DEF Alerts!AnswerDialog, DialogIsOfTheList
  <2>2. CASE Alerts!Look /\ UNCHANGED Alerts!cache
    BY <1>1, <2>1, <2>2, AlertsLooked
  <2>3. CASE Alerts!Click(Alerts!Call("delete", dialog))
    <3>1. PICK c : c = Alerts!Call("delete", dialog)
      OBVIOUS
    <3>2. page = "list"
      BY <1>1, <2>1 DEF DialogIsOfTheList
    <3>3. FromItsPage(c)
      BY <3>1, <3>2 DEF FromItsPage, Alerts!Call, ListOps
    <3>4. QED
      BY <1>1, <2>1, <2>3, <3>1, <3>3, AlertsClicked
  <2>4. QED
    BY <1>7, <2>2, <2>3, Zenon DEF Alerts!AnswerDialog
<1>8. CASE Alerts!CancelForm
  <2>1. Alerts!Look /\ form' = None /\ Alerts!Ready
    BY <1>8, Zenon DEF Alerts!CancelForm
  <2>2. page' \in Alerts!Pages /\ DialogIsOfTheList'
    <3>1. \/ page' = "list" /\ dialog' = None
          \/ UNCHANGED <<page, dialog>>
      BY <1>8, Zenon DEF Alerts!CancelForm, Alerts!Leave
    <3>2. QED
      BY <1>1, <3>1 DEF Alerts!Pages, DialogIsOfTheList
  <2>3. QED
    BY <1>1, <2>1, <2>2, AlertsReady, AlertsLooked
<1>9. CASE Alerts!SaveForm
  <2>1. UNCHANGED <<page, dialog>> /\ form # None
    BY <1>9, Zenon DEF Alerts!SaveForm
  <2>2. PICK f \in Alerts!Typed :
            /\ form' = f
            /\ Alerts!Click([Alerts!Call(IF page = "new" THEN "create" ELSE "update", page)
                                EXCEPT !.rule = f.rule, !.typed = f.typed])
    BY <1>9, Zenon DEF Alerts!SaveForm
  <2>3. PICK c : c = [Alerts!Call(IF page = "new" THEN "create" ELSE "update", page)
                         EXCEPT !.rule = f.rule, !.typed = f.typed]
    OBVIOUS
  <2>4. /\ c.op = (IF page = "new" THEN "create" ELSE "update")
        /\ c.id = page /\ c.rule = f.rule /\ c.typed = f.typed
    BY <2>3 DEF Alerts!Call
  <2>6. RulesMine => page # "list"
    BY <2>1 DEF RulesMine
  <2>7. ASSUME RulesMine, habit.waits, page \in Ids PROVE IsCopyOf(page, f)
    <3>1. calls = {}
      BY <2>2, <2>7, AlertsReady DEF Alerts!Click
    <3>2. IsCopyOf(page, form)
      BY <2>1, <2>7, <3>1 DEF RulesMine, ChangeIsToCome
    <3>3. IsAlertForm(form)
      BY <1>1, <2>1 DEF AlertsInv, AlertsType
    <3>4. QED
      BY <2>1, <3>2, <3>3, TypedIsCopyOf
  <2>8. RulesMine /\ habit.waits => FromItsPage(c)
    <3>1. page \in {"list", "new"} \cup Ids
      BY <1>1 DEF Alerts!Pages
    <3>2. CASE page = "new"
      BY <2>4, <3>2 DEF FromItsPage
    <3>3. CASE page \in Ids
      BY <1>2, <2>4, <2>7, <3>3 DEF FromItsPage, IsCopyOf
    <3>4. QED
      BY <2>6, <3>1, <3>2, <3>3
  <2>9. DialogIsOfTheList'
    BY <1>1, <2>1 DEF DialogIsOfTheList
  <2>10. CASE habit.waits /\ others = 0
    <3>1. page # "list"
      BY <2>6, <2>10, Zenon DEF AlertsUse
    <3>2. QED
      BY <1>1, <2>1, <2>2, <2>3, <2>7, <2>8, <2>9, <3>1, AlertsClicked
  <2>11. CASE ~(habit.waits /\ others = 0)
    BY <1>1, <2>1, <2>2, <2>9, <2>11 DEF AlertsUse, Alerts!Click
  <2>12. QED
    BY <2>10, <2>11
<1>10. QED
  BY <1>3, <1>4, <1>5, <1>6, <1>7, <1>8, <1>9, Zenon DEF Alerts!User

LEMMA AlertsHandleUse ==
    ASSUME AlertsUse, NEW c \in calls, Alerts!Handle(c)
    PROVE  AlertsUse'
<1>1. AlertsInv' /\ IsAlertCall(c)
  BY AlertsHandleKept DEF AlertsUse, AlertsInv, AlertsType
<1>2. /\ c.phase = "sent"
      /\ UNCHANGED <<stale, list, rules, page, dialog, form, others, habit>>
  BY DEF Alerts!Handle, Alerts!cache, Alerts!pageVars, Alerts!bounds
<1>3. DialogIsOfTheList'
  BY <1>2 DEF AlertsUse, DialogIsOfTheList
<1>4. ASSUME habit.waits, others = 0 PROVE RulesMine'
  <2>1. RulesMine
    BY <1>4, Zenon DEF AlertsUse
  <2>2. PICK d : /\ calls' = {d}
                 /\ d = [c EXCEPT !.phase = IF Alerts!Accepts(c) THEN "ok" ELSE "refused"]
    BY <2>1 DEF Alerts!Handle, Alerts!Update, RulesMine, SingleCall
  <2>3. /\ d.op = c.op /\ d.id = c.id
        /\ d.phase = IF Alerts!Accepts(c) THEN "ok" ELSE "refused"
    BY <1>1, <2>2 DEF IsAlertCall
  <2>4. FromItsPage(d)'
    BY <1>2, <2>1, <2>3 DEF FromItsPage, RulesMine
  <2>5. SingleCall' /\ NothingFetched'
    BY <1>2, <2>1, <2>2 DEF SingleCall, RulesMine, NothingFetched
  <2>6. form # None /\ page \in Ids => IsCopyOf(page, form)' \/ ChangeIsToCome'
    <3>1. CASE Alerts!Accepts(c)
      BY <2>2, <2>3, <3>1 DEF ChangeIsToCome
    <3>2. CASE ~Alerts!Accepts(c)
      <4>1. server' = server
        BY <3>2, Zenon DEF Alerts!Handle
      <4>2. ~ChangeIsToCome
        BY <1>2, <2>1 DEF ChangeIsToCome, RulesMine, SingleCall
      <4>3. form # None /\ page \in Ids => IsCopyOf(page, form)
        BY <2>1, <4>2, Zenon DEF RulesMine
      <4>4. QED
        BY <1>2, <4>1, <4>3 DEF IsCopyOf
    <3>3. QED
      BY <3>1, <3>2
  <2>7. QED
    BY <1>2, <2>1, <2>2, <2>4, <2>5, <2>6 DEF RulesMine
<1>5. QED
  BY <1>1, <1>2, <1>3, <1>4 DEF AlertsUse

(* An answer makes no entry stale when nothing was being fetched.          *)
LEMMA NothingOvertaken ==
    ASSUME NothingFetched
    PROVE  Alerts!InvalidatedAlerts.stale = stale
<1>1. Alerts!InvalidatedAlerts.stale =
          stale \cup {id \in Ids : Alerts!Overtaken(rules[id], page = id)}
              \cup (IF Alerts!Overtaken(list, page = "list") THEN {"list"} ELSE {})
  BY DEF Alerts!InvalidatedAlerts
<1>2. ~Alerts!Overtaken(list, page = "list")
  BY DEF NothingFetched, Alerts!Overtaken, Alerts!Fetching
<1>3. \A id \in Ids : ~Alerts!Overtaken(rules[id], page = id)
  BY DEF NothingFetched, Alerts!Overtaken, Alerts!Fetching
<1>4. QED
  BY <1>1, <1>2, <1>3

LEMMA AlertsDeliverUse ==
    ASSUME AlertsUse, NEW c \in calls, Alerts!Deliver(c)
    PROVE  AlertsUse'
<1>1. AlertsInv'
  BY AlertsDeliverKept DEF AlertsUse
<1>2. calls' = calls \ {c} /\ UNCHANGED <<server, others, habit>>
  BY DEF Alerts!Deliver, Alerts!bounds
<1>3. \/ /\ c.op \in ListOps /\ UNCHANGED <<page, form>>
         /\ dialog' = None \/ dialog' = dialog
         /\ stale' = stale \/ stale' = Alerts!InvalidatedAlerts.stale
      \/ page' = "list" /\ form' = None /\ stale' = Alerts!InvalidatedAlerts.stale
      \/ c.phase # "ok" /\ UNCHANGED <<page, form, dialog, stale>>
  <2>1. CASE Alerts!DeliverListCall(c)
    BY <2>1, Zenon DEF Alerts!DeliverListCall, Alerts!InvalidateAlerts, ListOps
  <2>2. CASE Alerts!DeliverSave(c)
    <3>1. CASE c.phase = "ok" /\ page' = "list"
      BY <2>2, <3>1, Zenon DEF Alerts!DeliverSave
    <3>2. CASE c.phase = "refused" /\ UNCHANGED <<list, rules, stale>> /\ UNCHANGED Alerts!pageVars
      BY <3>2 DEF Alerts!pageVars
    <3>3. QED
      BY <2>2, <3>1, <3>2, Zenon DEF Alerts!DeliverSave
  <2>3. QED
    BY <2>1, <2>2, Zenon DEF Alerts!Deliver
<1>4. page' \in Alerts!Pages /\ DialogIsOfTheList'
  BY <1>3 DEF AlertsUse, DialogIsOfTheList, Alerts!Pages
<1>5. ASSUME habit.waits, others = 0 PROVE RulesMine'
  <2>1. RulesMine
    BY <1>5, Zenon DEF AlertsUse
  <2>2. calls = {c} /\ NothingFetched /\ FromItsPage(c)
    BY <2>1 DEF RulesMine, SingleCall
  <2>3. calls' = {} /\ stale' = {}
    BY <1>2, <1>3, <2>1, <2>2, NothingOvertaken DEF RulesMine
  <2>4. SingleCall'
    BY <2>3 DEF SingleCall
  <2>5. form' # None => page' # "list"
    BY <1>3, <2>1 DEF RulesMine
  <2>6. form' # None /\ page' \in Ids => IsCopyOf(page, form)'
    <3>1. CASE c.op \in ListOps /\ UNCHANGED <<page, form>>
      BY <2>2, <3>1, AlertsAssumed DEF FromItsPage, ListOps
    <3>2. CASE c.phase # "ok" /\ UNCHANGED <<page, form>>
      <4>1. ~ChangeIsToCome
        BY <2>2, <3>2 DEF ChangeIsToCome
      <4>2. QED
        BY <1>2, <2>1, <3>2, <4>1 DEF RulesMine, IsCopyOf
    <3>3. QED
      BY <1>3, <3>1, <3>2
  <2>7. QED
    BY <2>3, <2>4, <2>5, <2>6 DEF RulesMine
<1>6. QED
  BY <1>1, <1>2, <1>4, <1>5 DEF AlertsUse

LEMMA AlertsUseKept == AlertsUse /\ [Alerts!Next]_(Alerts!vars) => AlertsUse'
<1> SUFFICES ASSUME AlertsUse, [Alerts!Next]_(Alerts!vars) PROVE AlertsUse'
  OBVIOUS
<1>1. AlertsInv'
  BY AlertsKept DEF AlertsUse
<1>2. ASSUME UNCHANGED <<server, calls, page, dialog, others, habit>>,
             form' = form \/ page = "new",
             stale = {} => stale' = {},
             NothingFetched => NothingFetched'
      PROVE  AlertsUse'
  <2>1. ASSUME habit.waits, others = 0 PROVE RulesMine'
    <3>1. RulesMine
      BY <2>1, Zenon DEF AlertsUse
    <3>2. SingleCall' /\ (\A c \in calls' : FromItsPage(c)')
      BY <1>2, <3>1 DEF RulesMine, SingleCall, FromItsPage, IsCopyOf
    <3>3. form' # None /\ page' \in Ids => IsCopyOf(page, form)' \/ ChangeIsToCome'
      <4>1. CASE form' = form
        BY <1>2, <3>1, <4>1 DEF RulesMine, IsCopyOf, ChangeIsToCome
      <4>2. CASE page = "new"
        BY <1>2, <4>2, AlertsAssumed
      <4>3. QED
        BY <1>2, <4>1, <4>2
    <3>4. form' # None => page' # "list"
      BY <1>2, <3>1 DEF RulesMine
    <3>5. QED
      BY <1>2, <3>1, <3>2, <3>3, <3>4 DEF RulesMine
  <2>2. QED
    BY <1>1, <1>2, <2>1 DEF AlertsUse, DialogIsOfTheList
<1>3. CASE Alerts!AnswerList
  <2>1. /\ UNCHANGED <<server, calls, page, dialog, form, others, habit>>
        /\ stale' = stale \ {"list"} /\ ~NothingFetched
    BY <1>3
       DEF Alerts!AnswerList, Alerts!pageVars, Alerts!bounds, NothingFetched
  <2>2. QED
    BY <1>2, <2>1
<1>4. CASE Alerts!ArriveList
  <2>1. /\ UNCHANGED <<server, calls, page, dialog, form, stale, others, habit>>
        /\ ~NothingFetched
    BY <1>4
       DEF Alerts!ArriveList, Alerts!pageVars, Alerts!bounds, NothingFetched
  <2>2. QED
    BY <1>2, <2>1
<1>5. ASSUME NEW id \in Ids, Alerts!AnswerRule(id) PROVE AlertsUse'
  <2>1. /\ UNCHANGED <<server, calls, page, dialog, form, others, habit>>
        /\ stale' = stale \ {id} /\ ~NothingFetched
    BY <1>5
       DEF Alerts!AnswerRule, Alerts!pageVars, Alerts!bounds, NothingFetched
  <2>2. QED
    BY <1>2, <2>1
<1>6. ASSUME NEW id \in Ids, Alerts!ArriveRule(id) PROVE AlertsUse'
  <2>1. /\ UNCHANGED <<server, calls, page, dialog, form, stale, others, habit>>
        /\ ~NothingFetched
    BY <1>6
       DEF Alerts!ArriveRule, Alerts!pageVars, Alerts!bounds, NothingFetched
  <2>2. QED
    BY <1>2, <2>1
<1>7. CASE Alerts!ArriveConfig
  <2>1. /\ UNCHANGED <<server, list, rules, calls, page, dialog, stale, others, habit>>
        /\ form' = form \/ page = "new"
    BY <1>7 DEF Alerts!ArriveConfig, Alerts!bounds
  <2>2. NothingFetched' = NothingFetched
    BY <2>1 DEF NothingFetched
  <2>3. QED
    BY <1>2, <2>1, <2>2
<1>8. ASSUME Alerts!Fire \/ \E c \in calls : Alerts!HandleUnsaved(c)
      PROVE  AlertsUse'
  <2>1. UNCHANGED <<page, dialog, habit>> /\ others' = others + 1
    BY <1>8 DEF Alerts!Fire, Alerts!HandleUnsaved, Alerts!Unheard, Alerts!pageVars
  <2>2. others \in Nat
    BY Zenon DEF AlertsUse
  <2>3. others' \in Nat /\ others' # 0
    BY <2>1, <2>2
  <2>4. QED
    BY <1>1, <2>1, <2>3 DEF AlertsUse, DialogIsOfTheList
<1>9. CASE UNCHANGED Alerts!vars
  <2>1. UNCHANGED <<server, list, rules, calls, page, dialog, form, stale, others, habit>>
    BY <1>9 DEF Alerts!vars
  <2>2. NothingFetched' = NothingFetched
    BY <2>1 DEF NothingFetched
  <2>3. QED
    BY <1>2, <2>1, <2>2
<1>10. QED
  BY <1>3, <1>4, <1>5, <1>6, <1>7, <1>8, <1>9, AlertsUserUse, AlertsHandleUse,
     AlertsDeliverUse, Zenon
     DEF Alerts!Next, Alerts!FetchList, Alerts!FetchRule, Alerts!Serve

(* What the server makes of a condition that is a rule's own is the same.  *)
LEMMA ParsedIsMeant ==
    ASSUME NEW r, IsStoredRule(r)
    PROVE  Alerts!Parsed(r.condition) = r.condition
<1>1. PICK condition : condition = r.condition
  OBVIOUS
<1>2. /\ condition \in [type: Alerts!Types, window: Alerts!Windows, ms: Alerts!Windows]
      /\ condition.type # "threshold" /\ condition.window # "blank" =>
             condition.ms = condition.window
  BY <1>1 DEF IsStoredRule, IsRule, Alerts!Condition
<1>3. Alerts!Parsed(condition) = condition
  BY <1>2 DEF Alerts!Parsed
<1>4. QED
  BY <1>1, <1>3

LEMMA StoredKeeps ==
    ASSUME NEW r, NEW state, NEW f \in Alerts!Fields, f # "condition"
    PROVE  Alerts!Stored(r, state)[f] = r[f]
<1>1. f \in Alerts!Fields \cup {"ms", "state", "seen"} /\ f \notin {"ms", "state", "seen"}
  BY DEF Alerts!Fields
<1>2. Alerts!Stored(r, state)[f] =
          CASE f = "ms" -> r.interval
            [] f = "state" -> state
            [] f = "seen" -> FALSE
            [] f = "condition" -> Alerts!Parsed(r.condition)
            [] OTHER -> r[f]
  BY <1>1, Zenon DEF Alerts!Stored
<1>3. QED
  BY <1>1, <1>2

LEMMA ResultsAreExact ==
    ASSUME AreRules(server), NEW c, IsAlertCall(c), Alerts!Accepts(c),
           server' \in Alerts!Results(c)
    PROVE  /\ \A id \in DOMAIN server \ {c.id} : server'[id] = server[id]
           /\ c.op = "update" => server'[c.id] = Alerts!Stored(c.rule, "")
<1>1. CASE c.op = "create"
  BY <1>1 DEF Alerts!Results
<1>2. CASE c.op = "update"
  BY <1>2 DEF Alerts!Results, Alerts!Accepts
<1>3. CASE c.op = "delete"
  BY <1>3 DEF Alerts!Results, Alerts!Restrict
<1>4. CASE c.op \notin {"create", "update", "delete"}
  BY <1>4 DEF Alerts!Results
<1>5. QED
  BY <1>1, <1>2, <1>3, <1>4

(* What a user who waits and is alone saves changes no other rule and, of  *)
(* the fields that the form has, none that he left alone, in particular    *)
(* not whether the rule is enabled; only an interval that was not given    *)
(* becomes 5m.  (The rest of the rule, its interval in milliseconds, its   *)
(* state and what the evaluator noted, is made anew: AlertPages.Stored.)   *)
THEOREM SavedRulesAreMeant == Spec => AlertEditsAreExact
<1> DEFINE Inv == open = "alerts" => AlertsUse
<1>1. Init => Inv
  BY AlertsSession, AlertsUseBegins
<1>2. Inv /\ [Next]_vars => Inv'
  BY OpenStays, AlertsSession, AlertsUseKept
<1>3. ASSUME AlertsUse, [Alerts!Next]_(Alerts!vars) PROVE Alerts!EditIsExact
  <2> SUFFICES ASSUME habit.waits, others = 0, NEW c \in calls, Alerts!Handled(c),
                      server' # server
               PROVE  /\ \A id \in DOMAIN server \ {c.id} : server'[id] = server[id]
                      /\ c.op = "update" =>
                             \A f \in Alerts!Fields \ c.typed :
                                 server'[c.id][f] = Alerts!Copied(server[c.id])[f]
    BY DEF Alerts!EditIsExact
  <2>1. RulesMine /\ AlertsType
    BY <1>3, Zenon DEF AlertsUse, AlertsInv
  <2>2. IsAlertCall(c) /\ AreRules(server) /\ calls = {c} /\ FromItsPage(c)
    BY <2>1 DEF AlertsType, RulesMine, SingleCall
  <2>3. Alerts!Handle(c) \/ Alerts!HandleUnsaved(c)
    <3>1. c \notin calls' /\ c.phase = "sent"
      BY DEF Alerts!Handled
    <3>2. ASSUME Alerts!User PROVE calls \subseteq calls'
      BY <3>2, Zenon
         DEF Alerts!User, Alerts!Open, Alerts!Toggle, Alerts!AskDelete, Alerts!StartEdit,
             Alerts!AnswerDialog, Alerts!CancelForm, Alerts!SaveForm, Alerts!Look,
             Alerts!Click
    <3>3. ASSUME \/ Alerts!FetchList \/ Alerts!ArriveConfig \/ Alerts!Fire
                 \/ UNCHANGED Alerts!vars
                 \/ \E id \in Ids : Alerts!FetchRule(id)
          PROVE  calls' = calls
      BY <3>3, Zenon
         DEF Alerts!FetchList, Alerts!AnswerList, Alerts!ArriveList, Alerts!ArriveConfig,
             Alerts!Fire, Alerts!FetchRule, Alerts!AnswerRule, Alerts!ArriveRule,
             Alerts!vars
    <3>4. ~Alerts!Deliver(c)
      BY <3>1, Zenon DEF Alerts!Deliver
    <3>5. \E d \in calls : \/ Alerts!Handle(d) \/ Alerts!Deliver(d)
                            \/ Alerts!HandleUnsaved(d)
      BY <1>3, <3>1, <3>2, <3>3, Zenon DEF Alerts!Next, Alerts!Serve
    <3>6. QED
      BY <2>2, <3>4, <3>5
  <2>4. Alerts!Accepts(c) /\ server' \in Alerts!Results(c) /\ c.phase = "sent"
    BY <2>3, Zenon DEF Alerts!Handle, Alerts!HandleUnsaved
  <2>5. /\ \A id \in DOMAIN server \ {c.id} : server'[id] = server[id]
        /\ c.op = "update" => server'[c.id] = Alerts!Stored(c.rule, "")
    BY <2>2, <2>4, ResultsAreExact
  <2>6. ASSUME c.op = "update", NEW f \in Alerts!Fields \ c.typed
        PROVE  server'[c.id][f] = Alerts!Copied(server[c.id])[f]
    <3>1. IsCopyOf(page, c) /\ c.id = page
      BY <2>2, <2>4, <2>6 DEF FromItsPage, ListOps
    <3>2. c.id \in DOMAIN server
      BY <2>4, <2>6 DEF Alerts!Accepts
    <3>3. c.rule[f] = Alerts!Copied(server[c.id])[f]
      BY <2>6, <3>1, <3>2 DEF IsCopyOf
    <3>4. CASE f = "condition"
      <4>1. server'[c.id][f] = Alerts!Parsed(c.rule.condition)
        BY <2>5, <2>6, <3>4 DEF Alerts!Stored, Alerts!Fields
      <4>2. IsStoredRule(server[c.id])
        BY <2>2, <3>2 DEF AreRules
      <4>3. Alerts!Copied(server[c.id]).condition = server[c.id].condition
        BY DEF Alerts!Copied, Alerts!Fields
      <4>4. Alerts!Parsed(server[c.id].condition) = server[c.id].condition
        BY <4>2, ParsedIsMeant
      <4>5. QED
        BY <3>3, <3>4, <4>1, <4>3, <4>4
    <3>5. CASE f # "condition"
      <4>1. f \in Alerts!Fields
        BY <2>6
      <4>2. Alerts!Stored(c.rule, "")[f] = c.rule[f]
        BY <3>5, <4>1, StoredKeeps
      <4>3. server'[c.id] = Alerts!Stored(c.rule, "")
        BY <2>5, <2>6
      <4>4. QED
        BY <3>3, <4>2, <4>3, Zenon
    <3>6. QED
      BY <3>4, <3>5
  <2>7. QED
    BY <2>5, <2>6
<1>4. Inv /\ [Next]_vars => [open = "alerts" => Alerts!EditIsExact]_vars
  BY <1>3, AlertsSession
<1>5. QED
  BY <1>1, <1>2, <1>4, PTL DEF Spec, AlertEditsAreExact

-----------------------------------------------------------------------------
(* The page of the routes. *)

Item(tab, id) == Routes!Store(tab)[id]

(* What is under edit is new, or is in the store, and as it is there but   *)
(* for the fields that were typed.                                         *)
IsItemOf(d) ==
    /\ d.tab \in Routes!Tabs
    /\ d.id # None =>
           /\ d.id \in DOMAIN Routes!Store(d.tab)
           /\ \A f \in DOMAIN d.item \ d.typed : d.item[f] = Item(d.tab, d.id)[f]

IsDialog(d) == DOMAIN d = {"tab", "id", "item", "typed"}

(* An update is of an item of the store; only new items are created.       *)
IsSaveOf(c) ==
    /\ c.tab \in Routes!Tabs
    /\ c.op = "create" => c.id = None
    /\ c.op = "update" => c.id # None /\ IsItemOf(c)

SaveIsDone(d) == \E c \in calls : c.phase = "ok" /\ c.op # "delete" /\ c.tab = d.tab

StoresMine ==
    /\ DOMAIN channels \subseteq ChannelIds /\ DOMAIN routes \subseteq RouteIds
    /\ dialog # None => IsDialog(dialog) /\ (IsItemOf(dialog) \/ SaveIsDone(dialog))
    /\ \A c \in calls : c.phase = "sent" => IsSaveOf(c)
    /\ \A c \in calls : dialog = None \/ (c.op # "delete" /\ dialog.tab = c.tab)

RoutesUse == RoutesInv /\ (habit.waits /\ troubles = 0 => StoresMine)

LEMMA RoutesAssumed ==
    /\ None \notin ChannelIds \cup RouteIds
    /\ DOMAIN InitChannels \subseteq ChannelIds /\ DOMAIN InitRoutes \subseteq RouteIds
    /\ Routes!IsStore(InitChannels, ChannelIds, Routes!Channel)
    /\ Routes!IsStore(InitRoutes, RouteIds, Routes!Route(ChannelIds))
  BY ConsoleAssumption, Zenon DEF ConsoleAssumption, Routes!IsStore

LEMMA RoutesUseBegins == Routes!Init => RoutesUse
<1> SUFFICES ASSUME Routes!Init PROVE RoutesUse
  OBVIOUS
<1>1. channels = InitChannels /\ routes = InitRoutes /\ dialog = None /\ calls = {}
  BY Zenon DEF Routes!Init
<1>2. StoresMine
  BY <1>1, RoutesAssumed DEF StoresMine
<1>3. QED
  BY <1>2, RoutesBegin DEF RoutesUse

(* A user who waits and is alone acts on the store as it is.               *)
LEMMA RoutesSeen ==
    ASSUME RoutesUse, habit.waits, Routes!MayAct
    PROVE  /\ calls = {}
           /\ troubles = 0 => shown.channels = channels /\ shown.routes = routes
<1>1. calls = {} /\ loads = {}
  BY DEF Routes!MayAct, Routes!Quiet
<1>2. ASSUME troubles = 0 PROVE shown.channels = channels /\ shown.routes = routes
  <2>1. LastLoad /\ OneAtATime /\ ~LoadIsToCome
    BY <1>1, <1>2 DEF RoutesUse, RoutesInv, LoadIsToCome
  <2>2. shown.load = loaded
    BY <1>1, <2>1 DEF OneAtATime
  <2>3. QED
    BY <2>1, <2>2 DEF LastLoad
<1>3. QED
  BY <1>1, <1>2

(* What is typed into a dialog leaves it one of the same item.             *)
LEMMA TypedItem ==
    ASSUME IsDialog(dialog), IsItemOf(dialog), NEW d \in Routes!Typed
    PROVE  IsDialog(d) /\ IsItemOf(d) /\ d.tab = dialog.tab
<1>1. PICK b : b = [dialog EXCEPT !.item = Routes!Filled(dialog)]
  OBVIOUS
<1>2. /\ IsDialog(b) /\ b.tab = dialog.tab /\ b.id = dialog.id /\ b.typed = dialog.typed
      /\ dialog.id # None => b.item = dialog.item
  BY <1>1 DEF IsDialog, Routes!Filled
<1>3. IsItemOf(b)
  BY <1>2 DEF IsItemOf, Item
<1>4. \/ d = b
      \/ \E e : d = [b EXCEPT !.item[e.field] = e.value, !.typed = @ \cup {e.field}]
  BY <1>1 DEF Routes!Typed
<1>5. ASSUME NEW e, d = [b EXCEPT !.item[e.field] = e.value, !.typed = @ \cup {e.field}]
      PROVE  IsDialog(d) /\ IsItemOf(d) /\ d.tab = dialog.tab
  <2>1. PICK field, value : field = e.field /\ value = e.value
    OBVIOUS
  <2>2. PICK item : item = b.item
    OBVIOUS
  <2>3. /\ IsDialog(d) /\ d.tab = b.tab /\ d.id = b.id
        /\ d.item = [item EXCEPT ![field] = value] /\ d.typed = b.typed \cup {field}
    BY <1>2, <1>5, <2>1, <2>2 DEF IsDialog
  <2>4. \A f \in DOMAIN d.item \ d.typed : f \in DOMAIN item \ b.typed /\ d.item[f] = item[f]
    BY <2>3
  <2>5. QED
    BY <1>2, <1>3, <2>2, <2>3, <2>4 DEF IsItemOf
<1>6. QED
  BY <1>2, <1>3, <1>4, <1>5

LEMMA RoutesOpened ==
    ASSUME RoutesUse, RoutesInv', Routes!MayAct, Routes!Look,
           dialog' = None \/ (IsDialog(dialog') /\ (troubles = 0 /\ habit.waits => IsItemOf(dialog')))
    PROVE  RoutesUse'
<1>1. UNCHANGED <<calls, channels, routes, troubles, habit>>
  BY DEF Routes!Look, Routes!server
<1>2. ASSUME habit.waits, troubles = 0 PROVE StoresMine'
  <2>1. StoresMine /\ calls = {}
    BY <1>2, RoutesSeen DEF RoutesUse
  <2>2. dialog' # None => IsDialog(dialog)' /\ IsItemOf(dialog)'
    <3>1. ASSUME dialog' # None PROVE IsDialog(dialog') /\ IsItemOf(dialog')
      BY <1>2, <3>1
    <3>2. IsItemOf(dialog') => IsItemOf(dialog)'
      BY <1>1 DEF IsItemOf, Item, Routes!Store
    <3>3. IsDialog(dialog') => IsDialog(dialog)'
      BY DEF IsDialog
    <3>4. QED
      BY <3>1, <3>2, <3>3
  <2>3. QED
    BY <1>1, <2>1, <2>2 DEF StoresMine
<1>3. QED
  BY <1>1, <1>2 DEF RoutesUse

LEMMA RoutesUserUse == RoutesUse /\ Routes!User => RoutesUse'
<1> SUFFICES ASSUME RoutesUse, Routes!User PROVE RoutesUse'
  OBVIOUS
<1>1. RoutesInv'
  BY RoutesUserKept DEF RoutesUse
<1>2. ASSUME NEW tab \in Routes!Tabs, NEW id, NEW item
      PROVE  /\ IsDialog(Routes!Dialog(tab, id, item))
             /\ id = None => IsItemOf(Routes!Dialog(tab, id, item))
             /\ id \in DOMAIN Routes!Store(tab) /\ item = Item(tab, id) =>
                    IsItemOf(Routes!Dialog(tab, id, item))
  BY DEF IsDialog, IsItemOf, Routes!Dialog
<1>3. ASSUME NEW tab \in Routes!Tabs, NEW id, Routes!EditItem(tab, id) PROVE RoutesUse'
  <2>1. /\ Routes!MayAct /\ Routes!Look /\ id \in DOMAIN shown[tab]
        /\ dialog' = Routes!Dialog(tab, id, shown[tab][id])
    BY <1>3, Zenon DEF Routes!EditItem, Routes!OpenDialog
  <2>2. ASSUME troubles = 0, habit.waits PROVE IsItemOf(dialog')
    <3>1. shown.channels = channels /\ shown.routes = routes
      BY <2>1, <2>2, RoutesSeen
    <3>2. shown[tab] = Routes!Store(tab)
      BY <3>1 DEF Routes!Tabs, Routes!Store
    <3>3. QED
      BY <1>2, <2>1, <3>2 DEF Item
  <2>3. IsDialog(dialog')
    BY <1>2, <2>1
  <2>4. QED
    BY <1>1, <2>1, <2>2, <2>3, RoutesOpened
<1>4. CASE Routes!AddChannel \/ Routes!AddRoute
  <2>1. /\ Routes!MayAct /\ Routes!Look
        /\ \E item : \E tab \in Routes!Tabs : dialog' = Routes!Dialog(tab, None, item)
    <3>1. {"channels", "routes"} = Routes!Tabs
      BY DEF Routes!Tabs
    <3>2. QED
      BY <1>4, <3>1 DEF Routes!AddChannel, Routes!AddRoute, Routes!OpenDialog
  <2>2. IsDialog(dialog') /\ IsItemOf(dialog')
    BY <1>2, <2>1
  <2>3. QED
    BY <1>1, <2>1, <2>2, RoutesOpened
<1>5. CASE Routes!Cancel
  <2>1. Routes!MayAct /\ Routes!Look /\ dialog' = None
    BY <1>5, Zenon DEF Routes!Cancel
  <2>2. QED
    BY <1>1, <2>1, RoutesOpened
<1>6. ASSUME NEW tab, Routes!HandleSave(tab) PROVE RoutesUse'
  <2>1. Routes!MayAct /\ dialog # None
    BY <1>6, Zenon DEF Routes!HandleSave
  <2>2. PICK d \in Routes!Typed : dialog' = d /\ Routes!Click(Routes!SaveCall(d))
    BY <1>6, Zenon DEF Routes!HandleSave
  <2>3. PICK c : c = Routes!SaveCall(d)
    OBVIOUS
  <2>4. /\ c.op = (IF d.id \in DOMAIN shown[d.tab] THEN "update" ELSE "create")
        /\ c.tab = d.tab /\ c.id = d.id /\ c.item = d.item /\ c.typed = d.typed
    BY <2>3 DEF Routes!SaveCall, Routes!Call
  <2>5. calls' = calls \cup {c} /\ UNCHANGED <<channels, routes, troubles, habit>>
    BY <2>2, <2>3 DEF Routes!Click, Routes!server
  <2>6. ASSUME habit.waits, troubles = 0 PROVE StoresMine'
    <3>1. /\ StoresMine /\ calls = {}
          /\ shown.channels = channels /\ shown.routes = routes
      BY <2>1, <2>6, RoutesSeen DEF RoutesUse
    <3>2. IsDialog(dialog) /\ IsItemOf(dialog)
      BY <2>1, <3>1 DEF StoresMine, SaveIsDone
    <3>3. IsDialog(d) /\ IsItemOf(d) /\ d.tab \in Routes!Tabs
      BY <2>2, <3>2, TypedItem DEF IsItemOf
    <3>4. IsSaveOf(c)
      <4>1. shown[d.tab] = Routes!Store(d.tab)
        BY <3>1, <3>3 DEF Routes!Tabs, Routes!Store
      <4>2. None \notin DOMAIN Routes!Store(d.tab)
        BY <3>1, <3>3, RoutesAssumed DEF StoresMine, Routes!Store, Routes!Tabs
      <4>3. CASE d.id = None
        BY <2>4, <3>3, <4>1, <4>2, <4>3 DEF IsSaveOf
      <4>4. CASE d.id # None
        BY <2>4, <3>3, <4>1, <4>4 DEF IsSaveOf, IsItemOf
      <4>5. QED
        BY <4>3, <4>4
    <3>5. IsItemOf(dialog)' /\ IsDialog(dialog)'
      BY <2>2, <2>5, <3>3 DEF IsItemOf, IsDialog, Item, Routes!Store
    <3>6. IsSaveOf(c)'
      BY <2>5, <3>4 DEF IsSaveOf, IsItemOf, Item, Routes!Store
    <3>7. c.op # "delete" /\ dialog'.tab = c.tab /\ calls' = {c}
      BY <2>2, <2>4, <2>5, <3>1
    <3>8. QED
      BY <2>5, <3>1, <3>5, <3>6, <3>7 DEF StoresMine
  <2>7. QED
    BY <1>1, <2>5, <2>6 DEF RoutesUse
<1>7. ASSUME NEW tab \in Routes!Tabs, NEW id, Routes!HandleDelete(tab, id) PROVE RoutesUse'
  <2>1. /\ Routes!MayAct /\ dialog = None /\ dialog' = None
        /\ Routes!Click(Routes!Call("delete", tab, id))
    BY <1>7, Zenon DEF Routes!HandleDelete
  <2>2. PICK c : c = Routes!Call("delete", tab, id)
    OBVIOUS
  <2>3. /\ c.op = "delete" /\ calls' = calls \cup {c} /\ c.tab = tab
        /\ UNCHANGED <<channels, routes, troubles, habit>>
    BY <2>1, <2>2 DEF Routes!Click, Routes!server, Routes!Call
  <2>4. ASSUME habit.waits, troubles = 0 PROVE StoresMine'
    <3>1. StoresMine /\ calls = {}
      BY <2>1, <2>4, RoutesSeen DEF RoutesUse
    <3>2. QED
      BY <2>1, <2>3, <3>1 DEF StoresMine, IsSaveOf
  <2>5. QED
    BY <1>1, <2>3, <2>4 DEF RoutesUse
<1>8. "channels" \in Routes!Tabs /\ "routes" \in Routes!Tabs
  BY DEF Routes!Tabs
<1>9. QED
  BY <1>3, <1>4, <1>5, <1>6, <1>7, <1>8, Zenon
     DEF Routes!User, Routes!HandleSaveChannel, Routes!HandleSaveRoute,
         Routes!HandleDeleteChannel, Routes!HandleDeleteRoute

(* What a request makes of one of the two stores.                          *)
IsChangeBy(c, all, before, after) ==
    \/ c.op = "create" /\ \E id \in all \ DOMAIN before : after = Routes!With(before, id, c.item)
    \/ c.op = "update" /\ c.id \in DOMAIN before /\ after = Routes!With(before, c.id, c.item)
    \/ c.op = "delete" /\ after = Routes!Restrict(before, DOMAIN before \ {c.id})

(* A request on its way is checked once more, refused, or answered.        *)
IsSameRequest(c, d) ==
    d.op = c.op /\ d.tab = c.tab /\ d.id = c.id /\ d.item = c.item /\ d.typed = c.typed

LEMMA RoutesAnswered ==
    ASSUME NEW c \in calls, IsRoutesCall(c), Routes!Handle(c),
           c.op = "create" => c.id = None
    PROVE  /\ c.phase = "sent"
           /\ UNCHANGED <<dialog, troubles, habit>>
           /\ \E d : /\ calls' = (calls \ {c}) \cup {d} /\ IsSameRequest(c, d)
                     /\ \/ /\ UNCHANGED <<channels, routes>>
                           /\ d.phase \in {"sent", "refused"}
                        \/ /\ c.tab = "channels" /\ routes' = routes
                           /\ IsChangeBy(c, ChannelIds, channels, channels')
                           /\ d.phase = "ok"
                        \/ /\ c.tab = "routes" /\ channels' = channels
                           /\ IsChangeBy(c, RouteIds, routes, routes')
                           /\ d.phase = "ok"
<1> DEFINE ok == [c EXCEPT !.phase = "ok"]
           refused == [c EXCEPT !.phase = "refused"]
<1>1. UNCHANGED <<dialog, troubles, habit>>
  BY DEF Routes!Handle, Routes!bounds
<1>2. ASSUME NEW all, NEW store, NEW id \in Routes!Chosen(c, all, store), c.op = "create",
             id \notin DOMAIN store
      PROVE  id \in all \ DOMAIN store
  BY <1>2 DEF Routes!Chosen
<1>3. /\ IsSameRequest(c, ok) /\ ok.phase = "ok"
      /\ IsSameRequest(c, refused) /\ refused.phase = "refused"
  BY DEF IsSameRequest, IsRoutesCall
<1>4. CASE Routes!HandleChannel(c, "ok")
  <2>1. c.tab = "channels" /\ c.phase = "sent" /\ routes' = routes
    BY <1>4, Zenon DEF Routes!HandleChannel
  <2>2. \/ channels' = channels /\ calls' = (calls \ {c}) \cup {refused}
        \/ /\ IsChangeBy(c, ChannelIds, channels, channels')
           /\ calls' = (calls \ {c}) \cup {ok}
    <3>1. CASE c.op = "create" /\ Routes!CreateChannel(c, "ok")
      <4>1. PICK id \in Routes!Chosen(c, ChannelIds, channels) :
                IF id \in DOMAIN channels THEN Routes!Refused(c) /\ UNCHANGED channels
                ELSE Routes!Saved(c, "ok") /\ channels' = Routes!With(channels, id, c.item)
        BY <3>1, Zenon DEF Routes!CreateChannel
      <4>2. QED
        BY <1>2, <3>1, <4>1, Zenon
           DEF IsChangeBy, Routes!Refused, Routes!Saved, Routes!Update
    <3>2. CASE c.op = "update" /\ Routes!UpdateChannel(c, "ok")
      BY <3>2, Zenon
         DEF Routes!UpdateChannel, IsChangeBy, Routes!Refused, Routes!Saved, Routes!Update
    <3>3. CASE c.op = "delete" /\ Routes!DeleteChannel(c, "ok")
      BY <3>3, Zenon
         DEF Routes!DeleteChannel, IsChangeBy, Routes!Refused, Routes!Saved, Routes!Update
    <3>4. QED
      BY <1>4, <3>1, <3>2, <3>3, Zenon DEF Routes!HandleChannel
  <2> HIDE DEF ok, refused
  <2>3. QED
    BY <1>1, <1>3, <2>1, <2>2
<1>5. CASE Routes!CheckRoute(c)
  <2>1. c.phase = "sent" /\ UNCHANGED <<channels, routes>>
    BY <1>5 DEF Routes!CheckRoute, Routes!server
  <2>2. PICK d : /\ calls' = (calls \ {c}) \cup {d}
                 /\ d = refused \/ \E id : d = [c EXCEPT !.checked = @ \cup {id}]
    BY <1>5, Zenon DEF Routes!CheckRoute, Routes!Refused, Routes!Update
  <2>3. IsSameRequest(c, d) /\ d.phase \in {"sent", "refused"}
    BY <1>3, <2>1, <2>2 DEF IsSameRequest, IsRoutesCall
  <2>4. QED
    BY <1>1, <2>1, <2>2, <2>3
<1>6. CASE Routes!HandleRoute(c, "ok")
  <2>1. c.tab = "routes" /\ c.phase = "sent" /\ channels' = channels
    BY <1>6, Zenon DEF Routes!HandleRoute
  <2>2. \/ routes' = routes /\ calls' = (calls \ {c}) \cup {refused}
        \/ /\ IsChangeBy(c, RouteIds, routes, routes')
           /\ calls' = (calls \ {c}) \cup {ok}
    <3>1. CASE c.op = "create" /\ Routes!CreateRoute(c, "ok")
      <4>1. PICK id \in Routes!Chosen(c, RouteIds, routes) :
                IF id \in DOMAIN routes THEN Routes!Refused(c) /\ UNCHANGED routes
                ELSE Routes!Saved(c, "ok") /\ routes' = Routes!With(routes, id, c.item)
        BY <3>1, Zenon DEF Routes!CreateRoute
      <4>2. QED
        BY <1>2, <3>1, <4>1, Zenon
           DEF IsChangeBy, Routes!Refused, Routes!Saved, Routes!Update
    <3>2. CASE c.op = "update" /\ Routes!UpdateRoute(c, "ok")
      BY <3>2, Zenon
         DEF Routes!UpdateRoute, IsChangeBy, Routes!Refused, Routes!Saved, Routes!Update
    <3>3. CASE c.op = "delete" /\ Routes!DeleteRoute(c, "ok")
      BY <3>3, Zenon
         DEF Routes!DeleteRoute, IsChangeBy, Routes!Refused, Routes!Saved, Routes!Update
    <3>4. QED
      BY <1>6, <3>1, <3>2, <3>3, Zenon DEF Routes!HandleRoute
  <2> HIDE DEF ok, refused
  <2>3. QED
    BY <1>1, <1>3, <2>1, <2>2
<1>7. QED
  BY <1>4, <1>5, <1>6, Zenon DEF Routes!Handle

(* A change of a store is as the request says, and keeps to its ids.       *)
LEMMA ChangesAreExact ==
    ASSUME NEW c, NEW all, NEW before, DOMAIN before \subseteq all, None \notin all,
           NEW after, IsChangeBy(c, all, before, after),
           c.op = "create" => c.id = None
    PROVE  /\ DOMAIN after \subseteq all
           /\ \A id \in DOMAIN before \ {c.id} : id \in DOMAIN after /\ after[id] = before[id]
           /\ c.op = "update" => DOMAIN after = DOMAIN before /\ after[c.id] = c.item
<1>1. ASSUME NEW id \in all, after = Routes!With(before, id, c.item)
      PROVE  /\ DOMAIN after = DOMAIN before \cup {id} /\ after[id] = c.item
             /\ \A i \in DOMAIN before \ {id} : after[i] = before[i]
  BY <1>1 DEF Routes!With
<1>2. CASE c.op = "create"
  <2>1. PICK id \in all \ DOMAIN before : after = Routes!With(before, id, c.item)
    BY <1>2, Zenon DEF IsChangeBy
  <2>2. QED
    BY <1>1, <1>2, <2>1
<1>3. CASE c.op = "update"
  <2>1. c.id \in DOMAIN before /\ after = Routes!With(before, c.id, c.item)
    BY <1>3 DEF IsChangeBy
  <2>2. QED
    BY <1>1, <1>3, <2>1
<1>4. CASE c.op = "delete"
  <2>1. after = [id \in DOMAIN before \ {c.id} |-> before[id]]
    BY <1>4 DEF IsChangeBy, Routes!Restrict
  <2>2. QED
    BY <1>4, <2>1
<1>5. QED
  BY <1>2, <1>3, <1>4 DEF IsChangeBy

LEMMA RoutesHandleUse ==
    ASSUME RoutesUse, RoutesInv', NEW c \in calls, Routes!Handle(c)
    PROVE  RoutesUse'
<1>1. IsRoutesCall(c)
  BY DEF RoutesUse, RoutesInv, RoutesType
<1>2. UNCHANGED <<dialog, troubles, habit>>
  BY DEF Routes!Handle, Routes!bounds
<1>3. ASSUME habit.waits, troubles = 0 PROVE StoresMine'
  <2>1. StoresMine /\ calls = {c}
    BY <1>3 DEF RoutesUse, RoutesInv, OneAtATime
  <2>2. c.phase = "sent"
    BY DEF Routes!Handle, Routes!HandleChannel, Routes!HandleRoute, Routes!CheckRoute
  <2>3. IsSaveOf(c) /\ (c.op = "create" => c.id = None)
    BY <2>1, <2>2 DEF StoresMine, IsSaveOf
  <2>4. PICK d : /\ calls' = (calls \ {c}) \cup {d} /\ IsSameRequest(c, d)
                 /\ \/ /\ UNCHANGED <<channels, routes>>
                       /\ d.phase \in {"sent", "refused"}
                    \/ /\ c.tab = "channels" /\ routes' = routes
                       /\ IsChangeBy(c, ChannelIds, channels, channels')
                       /\ d.phase = "ok"
                    \/ /\ c.tab = "routes" /\ channels' = channels
                       /\ IsChangeBy(c, RouteIds, routes, routes')
                       /\ d.phase = "ok"
    BY <1>1, <2>3, RoutesAnswered, Zenon
  <2>5. calls' = {d}
    BY <2>1, <2>4
  <2>6. /\ d.op = c.op /\ d.tab = c.tab /\ d.id = c.id /\ d.item = c.item /\ d.typed = c.typed
    BY <2>4 DEF IsSameRequest
  <2>7. dialog' = None \/ (d.op # "delete" /\ dialog'.tab = d.tab)
    BY <1>2, <2>1, <2>6 DEF StoresMine
  <2>8. CASE UNCHANGED <<channels, routes>> /\ d.phase \in {"sent", "refused"}
    <3>1. IsSaveOf(d)'
      BY <2>3, <2>6, <2>8 DEF IsSaveOf, IsItemOf, Item, Routes!Store
    <3>2. ~SaveIsDone(dialog)
      BY <2>1, <2>2 DEF SaveIsDone
    <3>3. dialog' # None => IsDialog(dialog)' /\ IsItemOf(dialog)'
      BY <1>2, <2>1, <2>8, <3>2 DEF StoresMine, IsDialog, IsItemOf, Item, Routes!Store
    <3>4. QED
      BY <2>1, <2>5, <2>7, <2>8, <3>1, <3>3 DEF StoresMine
  <2>9. CASE /\ \/ /\ c.tab = "channels" /\ routes' = routes
                   /\ IsChangeBy(c, ChannelIds, channels, channels')
                \/ /\ c.tab = "routes" /\ channels' = channels
                   /\ IsChangeBy(c, RouteIds, routes, routes')
             /\ d.phase = "ok"
    <3>1. d.phase = "ok"
      BY <2>9
    <3>2. dialog' # None => IsDialog(dialog)' /\ SaveIsDone(dialog)'
      BY <1>2, <2>1, <2>5, <2>7, <3>1 DEF StoresMine, IsDialog, SaveIsDone
    <3>3. DOMAIN channels' \subseteq ChannelIds /\ DOMAIN routes' \subseteq RouteIds
      <4>1. CASE routes' = routes /\ IsChangeBy(c, ChannelIds, channels, channels')
        BY <2>1, <2>3, <4>1, ChangesAreExact, RoutesAssumed DEF StoresMine
      <4>2. CASE channels' = channels /\ IsChangeBy(c, RouteIds, routes, routes')
        BY <2>1, <2>3, <4>2, ChangesAreExact, RoutesAssumed DEF StoresMine
      <4>3. QED
        BY <2>9, <4>1, <4>2
    <3>4. QED
      BY <2>5, <2>7, <3>1, <3>2, <3>3 DEF StoresMine
  <2>10. QED
    BY <2>4, <2>8, <2>9
<1>4. QED
  BY <1>2, <1>3 DEF RoutesUse

LEMMA RoutesUseKept == RoutesUse /\ [Routes!Next]_(Routes!vars) => RoutesUse'
<1> SUFFICES ASSUME RoutesUse, [Routes!Next]_(Routes!vars) PROVE RoutesUse'
  OBVIOUS
<1>1. RoutesInv'
  BY RoutesKept DEF RoutesUse
<1>2. ASSUME UNCHANGED <<channels, routes, dialog, calls, troubles, habit>> PROVE RoutesUse'
  BY <1>1, <1>2
     DEF RoutesUse, StoresMine, IsDialog, IsItemOf, SaveIsDone, IsSaveOf, Item, Routes!Store
<1>3. ASSUME troubles' = troubles + 1 PROVE RoutesUse'
  <2>1. troubles \in Nat
    BY DEF RoutesUse, RoutesInv, RoutesType
  <2>2. troubles' # 0
    BY <1>3, <2>1
  <2>3. QED
    BY <1>1, <2>2 DEF RoutesUse
<1>4. ASSUME NEW l \in loads, Routes!AnswerLoad(l) \/ Routes!ArriveLoad(l) PROVE RoutesUse'
  BY <1>2, <1>4 DEF Routes!AnswerLoad, Routes!ArriveLoad, Routes!server, Routes!bounds
<1>5. ASSUME NEW l \in loads, Routes!FailLoad(l) PROVE RoutesUse'
  BY <1>3, <1>5 DEF Routes!FailLoad
<1>6. CASE Routes!OtherDelete
  BY <1>3, <1>6 DEF Routes!OtherDelete
<1>7. CASE UNCHANGED Routes!vars
  BY <1>2, <1>7 DEF Routes!vars
<1>8. ASSUME NEW c \in calls, Routes!Handle(c) PROVE RoutesUse'
  BY <1>1, <1>8, RoutesHandleUse
<1>9. ASSUME NEW c \in calls, Routes!Deliver(c) PROVE RoutesUse'
  <2>1. /\ calls' = calls \ {c} /\ UNCHANGED <<channels, routes, troubles, habit>>
        /\ dialog' = IF c.phase = "ok" /\ c.op # "delete" /\ dialog # None
                            /\ dialog.tab = c.tab
                     THEN None ELSE dialog
    BY <1>9 DEF Routes!Deliver, Routes!server, Routes!bounds
  <2>2. ASSUME habit.waits, troubles = 0 PROVE StoresMine'
    <3>1. StoresMine /\ calls = {c} /\ calls' = {}
      BY <2>1, <2>2 DEF RoutesUse, RoutesInv, OneAtATime
    <3>2. ASSUME dialog' # None
          PROVE  dialog' = dialog /\ IsDialog(dialog) /\ IsItemOf(dialog)
      BY <2>1, <3>1, <3>2 DEF StoresMine, SaveIsDone
    <3>3. dialog' # None => IsDialog(dialog)' /\ IsItemOf(dialog)'
      BY <2>1, <3>2 DEF IsDialog, IsItemOf, Item, Routes!Store
    <3>4. QED
      BY <2>1, <3>1, <3>3 DEF StoresMine
  <2>3. QED
    BY <1>1, <2>1, <2>2 DEF RoutesUse
<1>10. ASSUME NEW c \in calls, Routes!HandleUnsaved(c) PROVE RoutesUse'
  BY <1>3, <1>10 DEF Routes!HandleUnsaved
<1>11. QED
  BY <1>4, <1>5, <1>6, <1>7, <1>8, <1>9, <1>10, RoutesUserUse, Zenon
     DEF Routes!Next, Routes!Load, Routes!Serve

(* A user who waits and is alone never makes a second channel or route by  *)
(* an edit; his saves leave the other items and the fields he did not      *)
(* touch as they were.                                                     *)
THEOREM SavedRoutesAreMeant == Spec => RouteSavesAreExact
<1> DEFINE Inv == open = "routes" => RoutesUse
<1>1. Init => Inv
  BY RoutesSession, RoutesUseBegins
<1>2. Inv /\ [Next]_vars => Inv'
  BY OpenStays, RoutesSession, RoutesUseKept
<1>3. ASSUME RoutesUse, [Routes!Next]_(Routes!vars) PROVE Routes!SaveIsExact
  <2> SUFFICES ASSUME habit.waits, troubles' = 0, NEW c \in calls, c \notin calls',
                      <<channels, routes>>' # <<channels, routes>>
               PROVE  Routes!ChangesOnly(c, Routes!Store(c.tab), Routes!Store(c.tab)')
    BY DEF Routes!SaveIsExact
  <2>1. troubles \in Nat /\ troubles' # troubles + 1
    BY <1>3 DEF RoutesUse, RoutesInv, RoutesType
  <2>2. PICK d \in calls : Routes!Handle(d)
    <3>1. ~Routes!User
      <4>1. Routes!User => UNCHANGED <<channels, routes>>
        BY DEF Routes!User, Routes!EditItem, Routes!AddChannel, Routes!AddRoute,
               Routes!Cancel, Routes!OpenDialog, Routes!HandleSaveChannel,
               Routes!HandleSaveRoute, Routes!HandleSave, Routes!HandleDeleteChannel,
               Routes!HandleDeleteRoute, Routes!HandleDelete, Routes!Look, Routes!Click,
               Routes!server
      <4>2. QED
        BY <4>1
    <3>2. ~Routes!Load
      BY DEF Routes!Load, Routes!AnswerLoad, Routes!ArriveLoad, Routes!server
    <3>3. /\ ~Routes!OtherDelete /\ \A l \in loads : ~Routes!FailLoad(l)
          /\ \A e \in calls : ~Routes!HandleUnsaved(e)
      BY <2>1 DEF Routes!OtherDelete, Routes!FailLoad, Routes!HandleUnsaved
    <3>4. \A e \in calls : ~Routes!Deliver(e)
      BY DEF Routes!Deliver, Routes!server
    <3>5. ~UNCHANGED Routes!vars
      BY DEF Routes!vars
    <3>6. QED
      BY <1>3, <3>1, <3>2, <3>3, <3>4, <3>5, Zenon DEF Routes!Next, Routes!Serve
  <2>3. troubles' = troubles
    BY <2>2 DEF Routes!Handle, Routes!bounds
  <2>4. StoresMine /\ OneAtATime
    BY <1>3, <2>3 DEF RoutesUse, RoutesInv
  <2>5. d = c /\ IsRoutesCall(c)
    BY <1>3, <2>4 DEF OneAtATime, RoutesUse, RoutesInv, RoutesType
  <2>6. c.phase = "sent"
    BY <2>2, <2>5
       DEF Routes!Handle, Routes!HandleChannel, Routes!HandleRoute, Routes!CheckRoute
  <2>7. IsSaveOf(c) /\ (c.op = "create" => c.id = None)
    BY <2>4, <2>6 DEF StoresMine, IsSaveOf
  <2>8. \/ /\ c.tab = "channels" /\ IsChangeBy(c, ChannelIds, channels, channels')
        \/ /\ c.tab = "routes" /\ IsChangeBy(c, RouteIds, routes, routes')
    BY <2>2, <2>5, <2>7, RoutesAnswered
  <2>9. PICK before, after, all :
            /\ before = Routes!Store(c.tab) /\ after = Routes!Store(c.tab)'
            /\ DOMAIN before \subseteq all /\ None \notin all
            /\ IsChangeBy(c, all, before, after)
    <3>1. CASE c.tab = "channels"
      BY <2>4, <2>8, <3>1, RoutesAssumed DEF StoresMine, Routes!Store
    <3>2. CASE c.tab = "routes"
      BY <2>4, <2>8, <3>2, RoutesAssumed DEF StoresMine, Routes!Store
    <3>3. QED
      BY <2>8, <3>1, <3>2
  <2>10. /\ \A id \in DOMAIN before \ {c.id} : id \in DOMAIN after /\ after[id] = before[id]
         /\ c.op = "update" => DOMAIN after = DOMAIN before /\ after[c.id] = c.item
    BY <2>7, <2>9, ChangesAreExact
  <2>11. c.op = "update" => \A f \in DOMAIN c.item \ c.typed : c.item[f] = before[c.id][f]
    BY <2>7, <2>9 DEF IsSaveOf, IsItemOf, Item
  <2>12. Routes!ChangesOnly(c, before, after)
    BY <2>7, <2>10, <2>11 DEF Routes!ChangesOnly
  <2>13. QED
    BY <2>9, <2>12
<1>4. Inv /\ [Next]_vars => [open = "routes" => Routes!SaveIsExact]_vars
  BY <1>3, RoutesSession
<1>5. QED
  BY <1>1, <1>2, <1>4, PTL DEF Spec, RouteSavesAreExact

-----------------------------------------------------------------------------
(* The page of notification settings. *)

HasChannel(s) == \E channel \in Notifications!Channels : s[channel].webhook # ""

AreSettings(s) == Notifications!IsSettings(s) /\ HasChannel(s)

(* Where settings travel, they are whole and have a channel.               *)
SettingsType ==
    /\ troubles \in Nat
    /\ AreSettings(memory)
    /\ form # None => AreSettings(form)
    /\ \A c \in calls :
           c.op = "save" \/ (c.op = "load" /\ c.phase = "ok") => AreSettings(c.config)

SaveIsSent == \E c \in calls : c.op = "save" /\ c.phase = "sent"

(* The page's copy is the server's settings, but for what is being saved.  *)
SettingsMine ==
    /\ form # None => form = memory \/ SaveIsSent
    /\ \A c \in calls :
           /\ c.op = "load" /\ c.phase = "ok" => c.config = memory
           /\ c.op = "save" /\ c.phase = "sent" =>
                  \A f \in Notifications!Fields \ c.typed : c.config[f] = memory[f]
           /\ c.op = "save" /\ c.phase = "sent" => form = c.config

SettingsUse ==
    /\ PageInv /\ SettingsType
    /\ habit = "waits" => SingleCall /\ (troubles = 0 => SettingsMine)

(* Settings with a channel are returned as they are.                       *)
LEMMA ReturnedAsItIs ==
    ASSUME NEW s, HasChannel(s) PROVE Notifications!Returned(s) = s
<1>1. \/ s.wechat # Notifications!NoWeChat \/ s.dingtalk # Notifications!NoDingTalk
      \/ s.feishu # Notifications!NoFeishu
  <2>1. PICK channel \in Notifications!Channels : s[channel].webhook # ""
    BY DEF HasChannel
  <2>2. /\ Notifications!NoWeChat.webhook = "" /\ Notifications!NoDingTalk.webhook = ""
        /\ Notifications!NoFeishu.webhook = ""
    BY DEF Notifications!NoWeChat, Notifications!NoDingTalk, Notifications!NoFeishu
  <2>3. s["wechat"].webhook # "" \/ s["dingtalk"].webhook # "" \/ s["feishu"].webhook # ""
    BY <2>1 DEF Notifications!Channels
  <2>4. QED
    BY <2>2, <2>3
<1>2. QED
  BY <1>1, Zenon DEF Notifications!Returned

(* An edit of a section leaves it a webhook if it had one.                 *)
LEMMA SectionKeepsWebhook ==
    ASSUME NEW section, "webhook" \in DOMAIN section,
           NEW edited,
           \/ edited \in Notifications!WeChatConfigSection(section)
           \/ edited \in Notifications!DingTalkConfigSection(section)
           \/ edited \in Notifications!FeishuConfigSection(section)
    PROVE  /\ "webhook" \in DOMAIN edited
           /\ section.webhook # "" => edited.webhook # ""
<1>1. \/ edited = [section EXCEPT !.enabled = ~@] \/ edited = [section EXCEPT !.webhook = "new"]
      \/ \E m : edited = [section EXCEPT !.mentioned = m]
      \/ \E m : edited = [section EXCEPT !.mobiles = m]
      \/ \E m : edited = [section EXCEPT !.secret = m]
      \/ edited = [section EXCEPT !.all = ~@]
  BY Zenon DEF Notifications!WeChatConfigSection, Notifications!DingTalkConfigSection,
         Notifications!FeishuConfigSection, Notifications!SectionEdits
<1>2. CASE edited = [section EXCEPT !.enabled = ~@]
  BY <1>2
<1>3. CASE edited = [section EXCEPT !.webhook = "new"]
  BY <1>3
<1>4. CASE edited = [section EXCEPT !.all = ~@]
  BY <1>4
<1>5. CASE \E m : \/ edited = [section EXCEPT !.mentioned = m]
                  \/ edited = [section EXCEPT !.mobiles = m]
                  \/ edited = [section EXCEPT !.secret = m]
  BY <1>5
<1>6. QED
  BY <1>1, <1>2, <1>3, <1>4, <1>5

(* What the user saves differs from the copy in what he typed.             *)
LEMMA TypedSettings ==
    ASSUME form # None, AreSettings(form), NEW t \in Notifications!Typed
    PROVE  /\ AreSettings(t.config)
           /\ \A f \in Notifications!Fields \ t.typed : t.config[f] = form[f]
<1>1. CASE t = [config |-> form, typed |-> {}]
  BY <1>1
<1>2. ASSUME NEW e \in Notifications!Edits(form),
             t = [config |-> [form EXCEPT ![e.field] = e.value], typed |-> {e.field}]
      PROVE  /\ AreSettings(t.config)
             /\ \A f \in Notifications!Fields \ t.typed : t.config[f] = form[f]
  <2>1. DOMAIN form = Notifications!Fields
    BY DEF AreSettings, Notifications!IsSettings
  <2>2. PICK field, value : field = e.field /\ value = e.value
    OBVIOUS
  <2>3. t.config = [form EXCEPT ![field] = value] /\ t.typed = {field}
    BY <1>2, <2>2
  <2>4. \/ field \notin Notifications!Channels
        \/ /\ field \in Notifications!Channels
           /\ \/ value \in Notifications!WeChatConfigSection(form[field])
              \/ value \in Notifications!DingTalkConfigSection(form[field])
              \/ value \in Notifications!FeishuConfigSection(form[field])
    <3>1. ASSUME NEW name, NEW values, e \in Notifications!Change(name, values)
          PROVE  field = name /\ value \in values
      BY <2>2, <3>1 DEF Notifications!Change
    <3>2. \/ \E values :
                \E name \in {"enabled", "group_wait", "group_interval", "repeat_interval"} :
                    e \in Notifications!Change(name, values)
          \/ e \in Notifications!Change("wechat",
                      Notifications!WeChatConfigSection(form.wechat))
          \/ e \in Notifications!Change("dingtalk",
                      Notifications!DingTalkConfigSection(form.dingtalk))
          \/ e \in Notifications!Change("feishu",
                      Notifications!FeishuConfigSection(form.feishu))
      BY DEF Notifications!Edits, Notifications!IntervalEdits
    <3>3. QED
      BY <3>1, <3>2 DEF Notifications!Channels
  <2>5. \A channel \in Notifications!Channels :
            /\ "webhook" \in DOMAIN t.config[channel]
            /\ form[channel].webhook # "" => t.config[channel].webhook # ""
    <3> TAKE channel \in Notifications!Channels
    <3>1. channel \in DOMAIN form /\ "webhook" \in DOMAIN form[channel]
      BY <2>1 DEF AreSettings, Notifications!IsSettings, Notifications!Fields
    <3>2. CASE channel # field
      BY <2>3, <3>1, <3>2
    <3>3. CASE channel = field
      <4>1. t.config[channel] = value
        BY <2>3, <3>1, <3>3
      <4>2. QED
        BY <2>4, <3>1, <3>3, <4>1, SectionKeepsWebhook
    <3>4. QED
      BY <3>2, <3>3
  <2>6. DOMAIN t.config = Notifications!Fields
    BY <2>1, <2>3
  <2>7. \A f \in Notifications!Fields \ t.typed : t.config[f] = form[f]
    BY <2>1, <2>3
  <2>8. QED
    BY <2>5, <2>6, <2>7 DEF AreSettings, HasChannel, Notifications!IsSettings
<1>3. QED
  BY <1>1, <1>2 DEF Notifications!Typed

LEMMA SettingsUseBegins ==
    ASSUME \A s \in InitSettings : HasChannel(s), Notifications!Init
    PROVE  SettingsUse
<1>1. memory \in InitSettings /\ form = None /\ troubles = 0
  BY DEF Notifications!Init
<1>2. PICK first : /\ calls = {first}
                   /\ first = [n |-> 0, op |-> "load", visit |-> 1, channel |-> None,
                               config |-> None, typed |-> {}, phase |-> "sent"]
  BY DEF Notifications!Init
<1>3. SettingsType
  BY <1>1, <1>2, ConsoleAssumption DEF SettingsType, AreSettings
<1>4. SingleCall /\ SettingsMine
  BY <1>1, <1>2 DEF SingleCall, SettingsMine
<1>5. QED
  BY <1>3, <1>4, PageBegins DEF SettingsUse

(* A new call of a user who waits is the only one, and his copy is current.*)
LEMMA OnlyCall ==
    ASSUME SettingsUse, habit = "waits", Notifications!MayAct
    PROVE  /\ calls = {}
           /\ troubles = 0 /\ form # None => form = memory
  BY DEF Notifications!MayAct, Notifications!Quiet, SettingsUse, SettingsMine, SaveIsSent

LEMMA SettingsUserUse == SettingsUse /\ PageInv' /\ Notifications!User => SettingsUse'
<1> SUFFICES ASSUME SettingsUse, Notifications!User, PageInv' PROVE SettingsUse'
  OBVIOUS
<1>1. CASE Notifications!LoadConfig
  <2>1. PICK c : c = [Notifications!Call("load") EXCEPT !.visit = visit']
    OBVIOUS
  <2>2. /\ calls' = calls \cup {c} /\ form' = None
        /\ UNCHANGED <<memory, troubles, habit>> /\ Notifications!MayAct
    BY <1>1, <2>1 DEF Notifications!LoadConfig, Notifications!server, Notifications!bounds
  <2>3. c.op = "load" /\ c.phase = "sent"
    BY <2>1 DEF Notifications!Call
  <2>4. SettingsType'
    BY <2>2, <2>3 DEF SettingsUse, SettingsType, AreSettings, HasChannel
  <2>5. ASSUME habit = "waits" PROVE SingleCall' /\ (troubles = 0 => SettingsMine')
    <3>1. calls' = {c}
      BY <2>2, <2>5, OnlyCall
    <3>2. QED
      BY <2>2, <2>3, <3>1 DEF SingleCall, SettingsMine
  <2>6. QED
    BY <2>2, <2>4, <2>5 DEF SettingsUse
<1>2. CASE Notifications!SaveConfig
  <2>1. PICK t \in Notifications!Typed :
            /\ form' = t.config
            /\ Notifications!Click([Notifications!Call("save") EXCEPT !.config = t.config,
                                                                      !.typed = t.typed])
    BY <1>2 DEF Notifications!SaveConfig
  <2>2. PICK c : c = [[Notifications!Call("save") EXCEPT !.config = t.config, !.typed = t.typed]
                         EXCEPT !.n = clicks']
    OBVIOUS
  <2>3. calls' = calls \cup {c} /\ UNCHANGED <<memory, troubles, habit>>
    BY <2>1, <2>2 DEF Notifications!Click, Notifications!server
  <2>4. Notifications!MayAct /\ form # None
    BY <1>2, Zenon DEF Notifications!SaveConfig, Notifications!CanSave
  <2>5. c.op = "save" /\ c.phase = "sent" /\ c.config = t.config /\ c.typed = t.typed
    BY <2>2 DEF Notifications!Call
  <2>6. /\ AreSettings(t.config)
        /\ \A f \in Notifications!Fields \ t.typed : t.config[f] = form[f]
    BY <2>1, <2>4, TypedSettings DEF SettingsUse, SettingsType
  <2>7. SettingsType'
    BY <2>1, <2>3, <2>5, <2>6 DEF SettingsUse, SettingsType, AreSettings, HasChannel
  <2>8. ASSUME habit = "waits" PROVE SingleCall' /\ (troubles = 0 => SettingsMine')
    <3>1. calls' = {c} /\ (troubles = 0 => form = memory)
      BY <2>3, <2>4, <2>8, OnlyCall
    <3>2. SingleCall'
      BY <3>1 DEF SingleCall
    <3>3. ASSUME troubles = 0 PROVE SettingsMine'
      <4>1. SaveIsSent'
        BY <2>5, <3>1 DEF SaveIsSent
      <4>2. QED
        BY <2>1, <2>3, <2>5, <2>6, <3>1, <3>3, <4>1 DEF SettingsMine
    <3>4. QED
      BY <3>2, <3>3
  <2>9. QED
    BY <2>3, <2>7, <2>8 DEF SettingsUse
<1>3. ASSUME NEW channel, Notifications!TestWebhook(channel) PROVE SettingsUse'
  <2>1. PICK c : c = [[Notifications!Call("test") EXCEPT !.channel = channel]
                         EXCEPT !.n = clicks']
    OBVIOUS
  <2>2. /\ calls' = calls \cup {c} /\ form' = form
        /\ UNCHANGED <<memory, troubles, habit>> /\ Notifications!MayAct
    BY <1>3, <2>1 DEF Notifications!TestWebhook, Notifications!Click, Notifications!server
  <2>3. c.op = "test"
    BY <2>1 DEF Notifications!Call
  <2>4. SettingsType'
    BY <2>2, <2>3 DEF SettingsUse, SettingsType, AreSettings, HasChannel
  <2>5. ASSUME habit = "waits" PROVE SingleCall' /\ (troubles = 0 => SettingsMine')
    <3>1. calls' = {c} /\ (troubles = 0 /\ form # None => form = memory)
      BY <2>2, <2>5, OnlyCall
    <3>2. QED
      BY <2>2, <2>3, <3>1 DEF SingleCall, SettingsMine
  <2>6. QED
    BY <2>2, <2>4, <2>5 DEF SettingsUse
<1>4. QED
  BY <1>1, <1>2, <1>3 DEF Notifications!User

LEMMA SettingsServeUse ==
    ASSUME SettingsUse, PageInv',
           NEW c \in calls,
           \/ Notifications!HandleGetNotifierConfig(c) \/ Notifications!SetNotifierConfig(c)
           \/ Notifications!Marshal(c) \/ Notifications!WriteFile(c)
           \/ Notifications!TestNotifierWebhook(c)
           \/ Notifications!Deliver(c) \/ Notifications!Fail(c)
    PROVE  SettingsUse'
<1>1. /\ IsNotifierCall(c) /\ SettingsType /\ troubles \in Nat
      /\ habit = "waits" => calls = {c} /\ (troubles = 0 => SettingsMine)
  BY DEF SettingsUse, PageInv, SettingsType, SingleCall
<1>2. CASE Notifications!HandleGetNotifierConfig(c)
  <2>1. PICK d : d = [c EXCEPT !.phase = "ok", !.config = Notifications!Returned(memory)]
    OBVIOUS
  <2>2. /\ calls' = (calls \ {c}) \cup {d} /\ c.op = "load"
        /\ UNCHANGED <<memory, form, troubles, habit>>
    BY <1>2, <2>1 DEF Notifications!HandleGetNotifierConfig, Notifications!Update,
                      Notifications!server, Notifications!page, Notifications!bounds
  <2>3. d.op = "load" /\ d.phase = "ok" /\ d.config = memory
    BY <1>1, <2>1, <2>2, ReturnedAsItIs DEF IsNotifierCall, SettingsType, AreSettings
  <2>4. SettingsType'
    BY <1>1, <2>2, <2>3 DEF SettingsType, AreSettings, HasChannel
  <2>5. ASSUME habit = "waits" PROVE SingleCall' /\ (troubles = 0 => SettingsMine')
    <3>1. calls' = {d} /\ calls = {c}
      BY <1>1, <2>2, <2>5
    <3>2. QED
      BY <1>1, <2>2, <2>3, <2>5, <3>1 DEF SingleCall, SettingsMine, SaveIsSent
  <2>6. QED
    BY <2>2, <2>4, <2>5 DEF SettingsUse
<1>3. CASE Notifications!SetNotifierConfig(c)
  <2>1. PICK d : d = [c EXCEPT !.phase = "set"]
    OBVIOUS
  <2>2. /\ calls' = (calls \ {c}) \cup {d} /\ c.op = "save" /\ c.phase = "sent"
        /\ memory' = c.config /\ UNCHANGED <<form, troubles, habit>>
    BY <1>3, <2>1 DEF Notifications!SetNotifierConfig, Notifications!Update,
                      Notifications!page, Notifications!bounds
  <2>3. d.op = "save" /\ d.phase = "set" /\ d.config = c.config
    BY <1>1, <2>1, <2>2 DEF IsNotifierCall
  <2>4. SettingsType'
    BY <1>1, <2>2, <2>3 DEF SettingsType, AreSettings, HasChannel
  <2>5. ASSUME habit = "waits" PROVE SingleCall' /\ (troubles = 0 => SettingsMine')
    <3>1. calls' = {d} /\ calls = {c}
      BY <1>1, <2>2, <2>5
    <3>2. QED
      BY <1>1, <2>2, <2>3, <2>5, <3>1 DEF SingleCall, SettingsMine
  <2>6. QED
    BY <2>2, <2>4, <2>5 DEF SettingsUse
<1>4. CASE \/ Notifications!Marshal(c) \/ Notifications!WriteFile(c)
           \/ Notifications!TestNotifierWebhook(c)
  <2>1. PICK d : /\ calls' = (calls \ {c}) \cup {d}
                 /\ \/ d = [c EXCEPT !.phase = "ok"]
                    \/ d = [c EXCEPT !.phase = "marshalled", !.config = memory]
    BY <1>4, Zenon DEF Notifications!Marshal, Notifications!WriteFile,
                       Notifications!TestNotifierWebhook, Notifications!Update
  <2>2. /\ (c.op = "save" /\ c.phase # "sent") \/ c.op = "test"
        /\ UNCHANGED <<memory, form, troubles, habit>>
    BY <1>4 DEF Notifications!Marshal, Notifications!WriteFile,
                Notifications!TestNotifierWebhook,
                Notifications!server, Notifications!page, Notifications!bounds
  <2>3. d.op = c.op /\ d.phase \in {"ok", "marshalled"} /\ d.config \in {c.config, memory}
    BY <1>1, <2>1, <2>2 DEF IsNotifierCall
  <2>4. SettingsType'
    <3>1. \A e \in calls' :
              e.op = "save" \/ (e.op = "load" /\ e.phase = "ok") => AreSettings(e.config)
      BY <1>1, <2>1, <2>2, <2>3 DEF SettingsType
    <3>2. QED
      BY <1>1, <2>2, <3>1 DEF SettingsType, AreSettings, HasChannel
  <2>5. ASSUME habit = "waits" PROVE SingleCall' /\ (troubles = 0 => SettingsMine')
    <3>1. calls' = {d} /\ calls = {c}
      BY <1>1, <2>1, <2>5
    <3>2. QED
      BY <1>1, <2>2, <2>3, <2>5, <3>1 DEF SingleCall, SettingsMine, SaveIsSent
  <2>6. QED
    BY <2>2, <2>4, <2>5 DEF SettingsUse
<1>5. CASE Notifications!Deliver(c)
  <2>1. /\ calls' = calls \ {c} /\ c.phase # "sent"
        /\ UNCHANGED <<memory, troubles, habit>>
        /\ form' = form \/ (c.op = "load" /\ c.phase = "ok" /\ form' = c.config)
    <3>1. /\ calls' = calls \ {c} /\ c.phase # "sent"
          /\ UNCHANGED <<memory, troubles, habit>>
      BY <1>5 DEF Notifications!Deliver, Notifications!server, Notifications!bounds
    <3>2. \/ UNCHANGED Notifications!page \/ Notifications!LoadAnswered(c)
          \/ Notifications!SaveAnswered(c) \/ Notifications!TestAnswered(c)
      BY <1>5, Zenon DEF Notifications!Deliver
    <3>3. form' = form \/ (c.op = "load" /\ c.phase = "ok" /\ form' = c.config)
      <4>1. CASE Notifications!LoadAnswered(c)
        <5>1. c.op = "load" /\ form' = IF c.phase = "ok" THEN c.config ELSE form
          BY <4>1, Zenon DEF Notifications!LoadAnswered
        <5>2. QED
          BY <5>1
      <4>2. CASE UNCHANGED Notifications!page
        BY <4>2 DEF Notifications!page
      <4>3. CASE Notifications!SaveAnswered(c) \/ Notifications!TestAnswered(c)
        BY <4>3, Zenon DEF Notifications!SaveAnswered, Notifications!TestAnswered
      <4>4. QED
        BY <3>2, <4>1, <4>2, <4>3
    <3>4. QED
      BY <3>1, <3>3
  <2>2. SettingsType'
    BY <1>1, <2>1 DEF SettingsType, AreSettings, HasChannel
  <2>3. ASSUME habit = "waits" PROVE SingleCall' /\ (troubles = 0 => SettingsMine')
    <3>1. calls' = {} /\ calls = {c}
      BY <1>1, <2>1, <2>3
    <3>2. QED
      BY <1>1, <2>1, <2>3, <3>1 DEF SingleCall, SettingsMine, SaveIsSent
  <2>4. QED
    BY <2>1, <2>2, <2>3 DEF SettingsUse
<1>6. CASE Notifications!Fail(c)
  <2>1. PICK d : d = [c EXCEPT !.phase = "failed"]
    OBVIOUS
  <2>2. /\ calls' = (calls \ {c}) \cup {d} /\ troubles' = troubles + 1
        /\ UNCHANGED <<memory, form, habit>>
    BY <1>6, <2>1 DEF Notifications!Fail, Notifications!Update, Notifications!server,
                      Notifications!page
  <2>3. d.op = c.op /\ d.phase = "failed" /\ d.config = c.config
    BY <1>1, <2>1 DEF IsNotifierCall
  <2>4. SettingsType'
    <3>1. troubles' \in Nat /\ troubles' # 0
      BY <1>1, <2>2
    <3>2. d.op = "save" => AreSettings(d.config)
      BY <1>1, <2>3 DEF SettingsType
    <3>3. \A e \in calls' :
              e.op = "save" \/ (e.op = "load" /\ e.phase = "ok") => AreSettings(e.config)
      BY <1>1, <2>2, <2>3, <3>2 DEF SettingsType
    <3>4. QED
      BY <1>1, <2>2, <3>1, <3>3 DEF SettingsType, AreSettings, HasChannel
  <2>5. habit = "waits" => SingleCall'
    BY <1>1, <2>2 DEF SingleCall
  <2>6. QED
    BY <1>1, <2>2, <2>4, <2>5 DEF SettingsUse
<1>7. QED
  BY <1>2, <1>3, <1>4, <1>5, <1>6

LEMMA SettingsUseKept ==
    SettingsUse /\ [Notifications!Next]_(Notifications!vars) => SettingsUse'
<1> SUFFICES ASSUME SettingsUse, [Notifications!Next]_(Notifications!vars) PROVE SettingsUse'
  OBVIOUS
<1>1. PageInv'
  BY PageKept DEF SettingsUse
<1>2. CASE Notifications!User
  BY <1>1, <1>2, SettingsUserUse
<1>3. ASSUME NEW c \in calls,
             \/ Notifications!HandleGetNotifierConfig(c) \/ Notifications!SetNotifierConfig(c)
             \/ Notifications!Marshal(c) \/ Notifications!WriteFile(c)
             \/ Notifications!TestNotifierWebhook(c)
             \/ Notifications!Deliver(c) \/ Notifications!Fail(c)
      PROVE  SettingsUse'
  BY <1>1, <1>3, SettingsServeUse
<1>4. CASE UNCHANGED Notifications!vars
  BY <1>1, <1>4 DEF Notifications!vars, Notifications!server, Notifications!page, Notifications!bounds,
                    SettingsUse, SettingsType, AreSettings, HasChannel,
                    SingleCall, SettingsMine, SaveIsSent
<1>5. QED
  BY <1>2, <1>3, <1>4, Zenon DEF Notifications!Next, Notifications!Serve

(* A user who waits and saves the notification settings changes what he    *)
(* typed and nothing else, through any loads, tests and saves, if a        *)
(* channel has a webhook at the start.  If none has, a notifier that is    *)
(* off is shown as an empty one (HandleGetNotifierConfig), and what it had *)
(* is lost with the next save.                                             *)
THEOREM SavedSettingsAreMeant ==
    ASSUME \A s \in InitSettings : HasChannel(s)
    PROVE  Spec => NotifierSavesAreExact
<1> DEFINE Inv == open = "notifications" => SettingsUse
<1>1. Init => Inv
  BY NotificationsSession, SettingsUseBegins
<1>2. Inv /\ [Next]_vars => Inv'
  BY OpenStays, NotificationsSession, SettingsUseKept
<1>3. ASSUME SettingsUse, [Notifications!Next]_(Notifications!vars)
      PROVE  Notifications!SaveIsExact
  <2> SUFFICES ASSUME habit = "waits", troubles = 0, NEW c \in calls,
                      c.op = "save", c.phase = "sent", c \notin calls',
                      NEW f \in Notifications!Fields \ c.typed
               PROVE  memory'[f] = memory[f]
    BY DEF Notifications!SaveIsExact
  <2>1. calls = {c} /\ c.config[f] = memory[f]
    BY <1>3 DEF SettingsUse, SingleCall, SettingsMine
  <2>2. CASE Notifications!SetNotifierConfig(c)
    BY <2>1, <2>2 DEF Notifications!SetNotifierConfig
  <2>3. CASE ~Notifications!SetNotifierConfig(c)
    <3>1. CASE Notifications!User
      BY <3>1 DEF Notifications!User, Notifications!LoadConfig, Notifications!SaveConfig,
                  Notifications!TestWebhook, Notifications!Click, Notifications!server
    <3>2. ASSUME NEW d \in calls,
                 \/ Notifications!HandleGetNotifierConfig(d)
                 \/ Notifications!Marshal(d) \/ Notifications!WriteFile(d)
                 \/ Notifications!TestNotifierWebhook(d) \/ Notifications!Deliver(d)
                 \/ Notifications!Fail(d)
          PROVE  memory' = memory
      BY <3>2 DEF Notifications!HandleGetNotifierConfig, Notifications!Marshal,
                  Notifications!WriteFile, Notifications!TestNotifierWebhook, Notifications!Deliver,
                  Notifications!Fail, Notifications!server
    <3>3. CASE UNCHANGED Notifications!vars
      BY <3>3 DEF Notifications!vars, Notifications!server, Notifications!page, Notifications!bounds
    <3>4. QED
      BY <1>3, <2>1, <2>3, <3>1, <3>2, <3>3 DEF Notifications!Next, Notifications!Serve
  <2>4. QED
    BY <2>2, <2>3
<1>4. Inv /\ [Next]_vars => [open = "notifications" => Notifications!SaveIsExact]_vars
  BY <1>3, NotificationsSession
<1>5. QED
  BY <1>1, <1>2, <1>4, PTL DEF Spec, NotifierSavesAreExact

-----------------------------------------------------------------------------
(* The pages of the configuration. *)

Row(row) == row.index \in Nat /\ (row.index # 0 => row.metric \in Config!Metric)

(* The fields of the settings are empty until there is something to show.  *)
FormIsFilled ==
    page = "settings" /\ query.data # None =>
        \A f \in Config!Fields : form[f] # Config!Blank

(* What travels is a configuration or a metric, and a call of its kind.    *)
ConfigType ==
    /\ server \in Config!Config
    /\ query.data # None => query.data \in Config!Config
    /\ query.fetch = "answered" => query.answer \in Config!Config
    /\ form \in Config!Form /\ FormIsFilled
    /\ \A c \in calls :
           /\ c.index \in Nat /\ c.kind \in Config!InPlace \cup {"settings", "apply"}
           /\ c.kind \in Config!ByIndex => c.index # 0
           /\ c.kind \in {"create", "update"} => c.metric \in Config!Metric
           /\ c.phase \in {"get", "validate", "put"} => c.kind = "apply"
           /\ c.kind = "settings" \/ c.phase \in {"validate", "put"} =>
                  c.config \in Config!Config
           /\ c.kind = "apply" => c.phase # "sent"

(* The dialog asks about a row that is shown; an editor keeps the row it   *)
(* opened with.                                                            *)
RowsAreShown ==
    /\ dialog # None =>
           /\ editor = None
           /\ DOMAIN dialog = {"index", "metric"} /\ dialog.index \in Nat \ {0}
           /\ dialog.index \in 1 .. Config!Len(query.data.metrics)
           /\ dialog.metric.name = query.data.metrics[dialog.index].name
    /\ editor # None => page = "metrics" /\ Row(editor)

EditsRow == editor # None /\ editor.index # 0

(* A call that has still to be handled is about what is shown.             *)
CallIsShown(c) ==
    /\ c.kind \in {"enable", "disable", "delete"} =>
           /\ c.index <= Config!Len(query.data.metrics)
           /\ query.data.metrics[c.index].name = c.row
    /\ c.kind = "update" =>
           EditsRow /\ editor.index = c.index /\ editor.metric.name = c.row
    /\ c.kind \in {"create", "delete", "settings"} => ~EditsRow
    /\ c.kind = "settings" => page = "settings" /\ form.typed = c.row
                                  /\ c.config.metrics = query.data.metrics
                                  /\ \A f \in Config!Fields : c.config[f] = form[f]

Agree(conf) == \A f \in Config!Fields : conf[f] = server[f]

Saved(k) == \E c \in calls : c.kind = k /\ c.phase = "ok"

(* The settings that a user who is alone sees, and does not touch, are the *)
(* server's, whatever refused changes have made of the metrics.            *)
SettingsAgree ==
    /\ query.fetch = "answered" => Agree(query.answer)
    /\ query.fetch = "idle" /\ query.data # None => Agree(query.data) \/ Saved("settings")
    /\ page = "settings" /\ query.data # None =>
           \A f \in Config!Fields \ form.typed : form[f] = server[f]
    /\ \A c \in calls : c.phase \in {"validate", "put"} => c.config = server

(* A server whose metrics are valid again has accepted a change that the   *)
(* page is about to show, and until then an editor's row is in its place.  *)
MetricsAgree ==
    "server" \notin troubles /\ Config!Valid(server) =>
        /\ missed => SuccessIsToCome \/ query.fetch = "asked"
        /\ EditsRow /\ ~Saved("update") =>
               /\ editor.index <= Config!Len(server.metrics)
               /\ server.metrics[editor.index].name = editor.metric.name

CallsAreShown ==
    /\ SingleCall
    /\ calls # {} => query.fetch = "idle" /\ Config!Used /\ query.data # None
    /\ \A c \in calls : c.heard /\ (c.phase = "sent" => CallIsShown(c))

ConfigUse ==
    /\ ConfigInv /\ ConfigType /\ RowsAreShown
    /\ habit = "waits" =>
           /\ CallsAreShown
           /\ troubles \cap {"edit", "fetch"} = {} => SettingsAgree /\ MetricsAgree

LEMMA ConfigUseBegins == Config!Init => ConfigUse
<1> SUFFICES ASSUME Config!Init PROVE ConfigUse
  OBVIOUS
<1>1. PICK s \in InitConfigs :
          server = [metrics |-> s.metrics, interval |-> "old", listener |-> "old",
                    url |-> s.url]
  BY DEF Config!Init
<1>2. /\ page \in Config!ConfigUsers /\ query = Cache!Mounted(Cache!EmptyQuery)
      /\ dialog = None /\ editor = None /\ form = Config!EmptyForm
      /\ calls = {} /\ ~missed
  BY OneCache, Zenon DEF Config!Init
<1>3. query.data = None /\ query.fetch = "asked"
  BY <1>2 DEF Cache!Mounted, Cache!EmptyQuery, Cache!Fetching, Cache!Asked
<1>4. server \in Config!Config
  BY <1>1, ConsoleAssumption DEF Config!Config, Config!Values
<1>5. form \in Config!Form
  BY <1>2 DEF Config!Form, Config!EmptyForm, Config!Values, Config!Blank, Config!Fields
<1>6. ConfigType /\ RowsAreShown
  BY <1>2, <1>3, <1>4, <1>5 DEF ConfigType, FormIsFilled, RowsAreShown
<1>7. CallsAreShown /\ SettingsAgree /\ MetricsAgree
  BY <1>2, <1>3 DEF CallsAreShown, SingleCall, SettingsAgree, MetricsAgree, EditsRow
<1>8. QED
  BY <1>6, <1>7, ConfigBegins DEF ConfigUse

(* What a request about metrics keeps.                                     *)
AllFields == Config!Fields \cup {"url"}

(* What a request makes of the metrics is a configuration, and a switched  *)
(* metric keeps its name.                                                  *)
LEMMA SwitchedMetric ==
    ASSUME NEW m \in Config!Metric, NEW k
    PROVE  Config!Switched(m, k) \in Config!Metric /\ Config!Switched(m, k).name = m.name
  BY DEF Config!Metric, Config!Switched

LEMMA ChangedConfig ==
    ASSUME NEW conf \in Config!Config, NEW c, c.index \in Nat,
           c.kind \in Config!ByIndex => c.index \in 1 .. Config!Len(conf.metrics),
           c.kind \in {"create", "update"} => c.metric \in Config!Metric,
           c.kind \in Config!InPlace \/ c.config \in Config!Config
    PROVE  /\ Config!Changed(conf, c) \in Config!Config
           /\ c.kind \in Config!InPlace =>
                  \A f \in AllFields : Config!Changed(conf, c)[f] = conf[f]
           /\ c.kind \notin Config!InPlace => Config!Changed(conf, c) = c.config
<1>1. PICK metrics \in Config!Seq(Config!Metric) : metrics = conf.metrics
  BY DEF Config!Config
<1>2. ASSUME NEW new \in Config!Seq(Config!Metric)
      PROVE  /\ [conf EXCEPT !.metrics = new] \in Config!Config
             /\ \A f \in AllFields : [conf EXCEPT !.metrics = new][f] = conf[f]
  BY DEF Config!Config, Config!Fields, AllFields
<1>3. CASE c.kind = "delete"
  <2>1. Config!RemoveAt(metrics, c.index) \in Config!Seq(Config!Metric)
    BY <1>1, <1>3 DEF Config!RemoveAt, Config!ByIndex
  <2>2. Config!Changed(conf, c) = [conf EXCEPT !.metrics = Config!RemoveAt(metrics, c.index)]
    BY <1>1, <1>3 DEF Config!Changed
  <2>3. QED
    BY <1>2, <1>3, <2>1, <2>2 DEF Config!InPlace, Config!ByIndex
<1>4. CASE c.kind = "update"
  <2> DEFINE new == [metrics EXCEPT ![c.index] = c.metric]
  <2>1. new \in Config!Seq(Config!Metric)
    BY <1>1, <1>4 DEF Config!ByIndex
  <2>2. Config!Changed(conf, c) = [conf EXCEPT !.metrics = new]
    BY <1>1, <1>4 DEF Config!Changed
  <2> HIDE DEF new
  <2>3. QED
    BY <1>2, <1>4, <2>1, <2>2 DEF Config!InPlace, Config!ByIndex
<1>5. CASE c.kind \in {"enable", "disable"}
  <2>1. PICK m : m = Config!Switched(metrics[c.index], c.kind)
    OBVIOUS
  <2>2. m \in Config!Metric
    BY <1>1, <1>5, <2>1, SwitchedMetric DEF Config!ByIndex
  <2> DEFINE new == [metrics EXCEPT ![c.index] = m]
  <2>3. new \in Config!Seq(Config!Metric)
    BY <1>1, <1>5, <2>2 DEF Config!ByIndex
  <2>4. Config!Changed(conf, c) = [conf EXCEPT !.metrics = new]
    BY <1>1, <1>5, <2>1 DEF Config!Changed
  <2> HIDE DEF new
  <2>5. QED
    BY <1>2, <1>5, <2>3, <2>4 DEF Config!InPlace, Config!ByIndex
<1>6. CASE c.kind = "create"
  <2>1. Config!Append(metrics, c.metric) \in Config!Seq(Config!Metric)
    BY <1>6
  <2>2. Config!Changed(conf, c) = [conf EXCEPT !.metrics = Config!Append(metrics, c.metric)]
    BY <1>1, <1>6 DEF Config!Changed
  <2>3. QED
    BY <1>2, <1>6, <2>1, <2>2 DEF Config!InPlace, Config!ByIndex
<1>7. CASE c.kind \notin Config!InPlace
  BY <1>7 DEF Config!Changed, Config!InPlace, Config!ByIndex
<1>8. QED
  BY <1>3, <1>4, <1>5, <1>6, <1>7 DEF Config!InPlace, Config!ByIndex

(* Switching a metric on or off makes metrics neither valid nor invalid.   *)
LEMMA SwitchKeepsRows ==
    ASSUME NEW conf \in Config!Config, NEW c, c.kind \in {"enable", "disable"},
           c.index \in 1 .. Config!Len(conf.metrics),
           NEW new, new = Config!Changed(conf, c)
    PROVE  /\ Config!Len(new.metrics) = Config!Len(conf.metrics)
           /\ \A i \in 1 .. Config!Len(conf.metrics) :
                  new.metrics[i].name = conf.metrics[i].name
           /\ Config!Valid(new) => Config!Valid(conf)
<1>1. PICK metrics \in Config!Seq(Config!Metric) : metrics = conf.metrics
  BY DEF Config!Config
<1>2. PICK m : m = Config!Switched(metrics[c.index], c.kind)
  OBVIOUS
<1>3. m.name = metrics[c.index].name
  BY <1>1, <1>2, SwitchedMetric
<1>4. new.metrics = [metrics EXCEPT ![c.index] = m]
  BY <1>1, <1>2 DEF Config!Changed, Config!Config
<1>5. /\ Config!Len(new.metrics) = Config!Len(metrics)
      /\ \A i \in 1 .. Config!Len(metrics) : new.metrics[i].name = metrics[i].name
  BY <1>1, <1>3, <1>4
<1>6. Config!Valid(new) => Config!Valid(conf)
  BY <1>1, <1>5 DEF Config!Valid
<1>7. QED
  BY <1>1, <1>5, <1>6

(* A user who waits acts on what the server has, unless a refused change   *)
(* was missed.                                                             *)
LEMMA ConfigSeen ==
    ASSUME ConfigUse, habit = "waits" => Config!Quiet, Config!Shown
    PROVE  /\ query.data \in Config!Config
           /\ habit = "waits" => calls = {} /\ query.fetch = "idle"
                                     /\ (~missed => query.data = server)
<1>1. query.data # None /\ Config!Used /\ query.data \in Config!Config
  BY Zenon DEF Config!Shown, ConfigUse, ConfigType
<1>2. ASSUME habit = "waits"
      PROVE  calls = {} /\ query.fetch = "idle" /\ (~missed => query.data = server)
  <2>1. calls = {} /\ query.fetch = "idle"
    BY <1>2 DEF Config!Quiet, Config!Fetching
  <2>2. ~SuccessIsToCome
    BY <2>1 DEF SuccessIsToCome
  <2>3. missed \/ Fresh(query, server, Config!Used)
    BY <2>2, Zenon DEF ConfigUse, ConfigInv
  <2>4. Fresh(query, server, Config!Used) => query.data = server
    BY <1>1, <2>1 DEF Fresh
  <2>5. QED
    BY <2>1, <2>3, <2>4, Zenon
<1>3. QED
  BY <1>1, <1>2

IsNewCall(c) ==
    /\ IsConfigCall(c) /\ c.heard
    /\ c.phase = IF c.kind = "apply" THEN "get" ELSE "sent"
    /\ c.index \in Nat /\ c.kind \in Config!InPlace \cup {"settings", "apply"}
    /\ c.kind \in Config!ByIndex => c.index # 0
    /\ c.kind \in {"create", "update"} => c.metric \in Config!Metric
    /\ c.kind = "settings" => c.config \in Config!Config

(* A click or a change of what is open keeps all in order if the new call  *)
(* and the new editor are about what is shown.                             *)
LEMMA ConfigActs ==
    ASSUME ConfigUse, ConfigInv', Config!MayAct,
           UNCHANGED <<server, query, page, missed, habit, troubles>>,
           \/ UNCHANGED calls
           \/ \E c : /\ IsNewCall(c) /\ calls' = calls \cup {c}
                     /\ habit = "waits" /\ c.kind # "apply" => CallIsShown(c)',
           form' \in Config!Form, FormIsFilled', RowsAreShown',
           habit = "waits" /\ SettingsAgree /\ page = "settings" =>
               \A f \in Config!Fields \ form'.typed : form'[f] = server[f],
           \/ editor' = editor \/ ~EditsRow'
           \/ /\ editor'.index \in 1 .. Config!Len(query.data.metrics)
              /\ editor'.metric.name = query.data.metrics[editor'.index].name
    PROVE  ConfigUse'
<1>1. /\ Config!Shown /\ (habit = "waits" => Config!Quiet)
  BY Zenon DEF Config!MayAct
<1>2. ConfigType'
  <2>1. \A c : IsNewCall(c) =>
            /\ c.index \in Nat /\ c.kind \in Config!InPlace \cup {"settings", "apply"}
            /\ c.kind \in Config!ByIndex => c.index # 0
            /\ c.kind \in {"create", "update"} => c.metric \in Config!Metric
            /\ c.phase \in {"get", "validate", "put"} => c.kind = "apply"
            /\ c.kind = "settings" \/ c.phase \in {"validate", "put"} =>
                   c.config \in Config!Config
            /\ c.kind = "apply" => c.phase # "sent"
    BY DEF IsNewCall
  <2>2. QED
    BY <2>1 DEF ConfigUse, ConfigType
<1>3. ASSUME habit = "waits"
      PROVE  /\ CallsAreShown'
             /\ troubles \cap {"edit", "fetch"} = {} => SettingsAgree' /\ MetricsAgree'
  <2>1. calls = {} /\ query.fetch = "idle" /\ (~missed => query.data = server)
    BY <1>1, <1>3, ConfigSeen
  <2>2. query.data # None /\ Config!Used /\ Config!Used'
    BY <1>1 DEF Config!Shown, Config!Used
  <2>3. \A c \in calls' : /\ calls' = {c} /\ c.heard /\ c.phase \in {"sent", "get"}
                          /\ c.phase = "sent" => CallIsShown(c)'
    BY <1>3, <2>1 DEF IsNewCall
  <2>4. CallsAreShown'
    BY <2>1, <2>2, <2>3 DEF CallsAreShown, SingleCall
  <2>5. ASSUME troubles \cap {"edit", "fetch"} = {} PROVE SettingsAgree' /\ MetricsAgree'
    <3>1. SettingsAgree /\ MetricsAgree
      BY <1>3, <2>5 DEF ConfigUse
    <3>2. SettingsAgree'
      BY <1>3, <2>1, <2>3, <3>1 DEF SettingsAgree, Agree, Saved
    <3>3. MetricsAgree'
      <4>1. SUFFICES ASSUME "server" \notin troubles, Config!Valid(server)
                     PROVE  /\ ~missed
                            /\ EditsRow' => /\ editor'.index <= Config!Len(server.metrics)
                                            /\ server.metrics[editor'.index].name
                                                   = editor'.metric.name
        BY Zenon DEF MetricsAgree
      <4>2. ~missed
        BY <2>1, <3>1, <4>1 DEF MetricsAgree, SuccessIsToCome
      <4>3. EditsRow => /\ editor.index <= Config!Len(server.metrics)
                        /\ server.metrics[editor.index].name = editor.metric.name
        BY <2>1, <3>1, <4>1 DEF MetricsAgree, Saved
      <4>4. query.data = server
        BY <2>1, <4>2
      <4>5. QED
        BY <4>2, <4>3, <4>4 DEF EditsRow
    <3>4. QED
      BY <3>2, <3>3
  <2>6. QED
    BY <2>4, <2>5
<1>4. QED
  BY <1>2, <1>3 DEF ConfigUse

(* What is typed over is a form still.                                     *)
LEMMA FilledIsAForm ==
    ASSUME ConfigType
    PROVE  /\ Config!Filled \in Config!Form
           /\ query.data # None => \A f \in Config!Fields :
                                       Config!Filled[f] = query.data[f]
           /\ Config!EmptyForm \in Config!Form
  BY DEF ConfigType, Config!Filled, Config!EmptyForm, Config!Form, Config!Config,
         Config!Values, Config!Blank, Config!Fields

LEMMA TypedIsAConfigForm ==
    ASSUME form \in Config!Form, NEW fields \in SUBSET Config!Fields,
           \A f \in Config!Fields : form[f] # Config!Blank
    PROVE  /\ Config!Typed(fields) \in Config!Form
           /\ \A f \in Config!Fields : Config!Typed(fields)[f] # Config!Blank
           /\ Config!Typed(fields).typed = form.typed \cup fields
           /\ \A f \in Config!Fields \ fields : Config!Typed(fields)[f] = form[f]
  BY DEF Config!Typed, Config!Form, Config!Values, Config!Blank, Config!Fields

LEMMA RowIsShown ==
    ASSUME ConfigUse, NEW i \in Config!Rows
    PROVE  /\ query.data # None /\ query.data \in Config!Config
           /\ DOMAIN Config!Row(i) = {"index", "metric"}
           /\ i \in Nat \ {0} /\ Config!Row(i).index = i /\ Config!Row(i).metric = query.data.metrics[i]
           /\ i \in 1 .. Config!Len(query.data.metrics)
           /\ query.data.metrics[i] \in Config!Metric
           /\ Row(Config!Row(i))
<1>1. query.data # None /\ i \in 1 .. Config!Len(query.data.metrics)
  BY DEF Config!Rows
<1>2. query.data \in Config!Config
  BY <1>1 DEF ConfigUse, ConfigType
<1>3. query.data.metrics[i] \in Config!Metric
  BY <1>1, <1>2 DEF Config!Config
<1>4. i \in Nat \ {0}
  BY <1>1, <1>2 DEF Config!Config
<1>5. QED
  BY <1>1, <1>2, <1>3, <1>4 DEF Config!Row, Row

(* A call about a row.                                                     *)
LEMMA CallOnRow ==
    ASSUME NEW k \in Config!ByIndex, NEW row, row.index \in Nat \ {0},
           NEW m, k = "update" => m \in Config!Metric,
           NEW c, c = Config!CallOn(k, row, m)
    PROVE  IsNewCall(c) /\ c.kind = k /\ c.index = row.index /\ c.row = row.metric.name
  BY DEF IsNewCall, IsConfigCall, Config!CallOn, Config!Call, Config!ByIndex,
         Config!InPlace

LEMMA ToggleUse ==
    ASSUME ConfigUse, ConfigInv', NEW i \in Config!Rows, Config!Toggle(i)
    PROVE  ConfigUse'
<1> PICK k \in {"enable", "disable"} : Config!Click(Config!CallOn(k, Config!Row(i), None))
  BY DEF Config!Toggle
<1>1. PICK c : c = Config!CallOn(k, Config!Row(i), None)
  OBVIOUS
<1>2. Config!MayAct /\ UNCHANGED <<page, dialog, editor, form>>
  BY DEF Config!Toggle, Config!OnMetrics, Config!pageVars
<1>3. /\ calls' = calls \cup {c}
      /\ UNCHANGED <<server, query, troubles, missed, habit>>
  BY <1>1 DEF Config!Click
<1>4. IsNewCall(c) /\ c.kind = k /\ c.index = i /\ c.row = query.data.metrics[i].name
  BY <1>1, CallOnRow, RowIsShown DEF Config!ByIndex
<1>5. CallIsShown(c)'
  BY <1>3, <1>4, RowIsShown DEF CallIsShown
<1>6. /\ form' \in Config!Form /\ FormIsFilled' /\ RowsAreShown'
  BY <1>2, <1>3 DEF ConfigUse, ConfigType, FormIsFilled, RowsAreShown, Row
<1>7. SettingsAgree /\ page = "settings" =>
          \A f \in Config!Fields \ form'.typed : form'[f] = server[f]
  BY <1>2, RowIsShown DEF SettingsAgree
<1>8. QED
  BY <1>2, <1>3, <1>4, <1>5, <1>6, <1>7, ConfigActs

(* Dialogs and editors that open and close.                                *)
LEMMA RowOpensUse ==
    ASSUME ConfigUse, ConfigInv', NEW i \in Config!Rows,
           Config!AskDelete(i) \/ Config!Edit(i)
    PROVE  ConfigUse'
<1>1. /\ Config!MayAct /\ page = "metrics"
      /\ UNCHANGED <<server, query, calls, missed, troubles, habit, page, form>>
      /\ \/ editor = None /\ editor' = None /\ dialog' = Config!Row(i)
         \/ dialog = None /\ dialog' = None /\ editor' = Config!Row(i)
  BY DEF Config!AskDelete, Config!Edit, Config!OnMetrics, Config!Look, Config!boundVars
<1>2. form' \in Config!Form /\ FormIsFilled'
  BY <1>1 DEF ConfigUse, ConfigType, FormIsFilled
<1>3. RowsAreShown'
  BY <1>1, RowIsShown DEF RowsAreShown, Row
<1>4. \/ ~EditsRow' \/ /\ editor'.index \in 1 .. Config!Len(query.data.metrics)
                       /\ editor'.metric.name = query.data.metrics[editor'.index].name
  BY <1>1, RowIsShown DEF EditsRow
<1>5. QED
  BY <1>1, <1>2, <1>3, <1>4, ConfigActs

LEMMA DialogClosesUse ==
    ASSUME ConfigUse, ConfigInv', Config!CancelDelete PROVE ConfigUse'
<1>1. /\ UNCHANGED <<server, query, calls, missed, troubles, habit, page, editor, form>>
      /\ dialog' = None
  BY DEF Config!CancelDelete, Config!Look, Config!boundVars
<1>2. ConfigType' /\ RowsAreShown'
  BY <1>1 DEF ConfigUse, ConfigType, FormIsFilled, RowsAreShown, Row
<1>3. /\ CallsAreShown => CallsAreShown'
      /\ SettingsAgree => SettingsAgree'
      /\ MetricsAgree => MetricsAgree'
  <2>1. \A c : CallIsShown(c) => CallIsShown(c)'
    BY <1>1 DEF CallIsShown, EditsRow
  <2>2. CallsAreShown => CallsAreShown'
    BY <1>1, <2>1 DEF CallsAreShown, SingleCall, Config!Used
  <2>3. SettingsAgree => SettingsAgree'
    BY <1>1 DEF SettingsAgree, Agree, Saved
  <2>4. MetricsAgree => MetricsAgree'
    BY <1>1 DEF MetricsAgree, EditsRow, SuccessIsToCome, Saved
  <2>5. QED
    BY <2>2, <2>3, <2>4
<1>4. QED
  BY <1>1, <1>2, <1>3 DEF ConfigUse

LEMMA EditorOpensUse ==
    ASSUME ConfigUse, ConfigInv', Config!Add \/ Config!CancelEdit PROVE ConfigUse'
<1>1. /\ Config!MayAct /\ page = "metrics" /\ dialog = None /\ dialog' = None
      /\ UNCHANGED <<server, query, calls, missed, troubles, habit, page, form>>
      /\ editor' \in {None, [index |-> 0, metric |-> None]}
  BY DEF Config!Add, Config!CancelEdit, Config!OnMetrics, Config!Look, Config!boundVars
<1>2. form' \in Config!Form /\ FormIsFilled' /\ RowsAreShown' /\ ~EditsRow'
  BY <1>1 DEF ConfigUse, ConfigType, FormIsFilled, RowsAreShown, EditsRow, Row
<1>3. QED
  BY <1>1, <1>2, ConfigActs

LEMMA ConfirmUse ==
    ASSUME ConfigUse, ConfigInv', Config!ConfirmDelete PROVE ConfigUse'
<1>1. PICK c : c = Config!CallOn("delete", dialog, None)
  OBVIOUS
<1>2. /\ Config!MayAct /\ dialog # None /\ dialog' = None
      /\ calls' = calls \cup {c}
      /\ UNCHANGED <<server, query, troubles, missed, habit, page, editor, form>>
  BY <1>1 DEF Config!ConfirmDelete, Config!Click
<1>3. /\ editor = None /\ dialog.index \in 1 .. Config!Len(query.data.metrics)
      /\ dialog.metric.name = query.data.metrics[dialog.index].name
  BY <1>2 DEF ConfigUse, RowsAreShown
<1>4. query.data \in Config!Config /\ query.data # None
  BY <1>2, Zenon DEF Config!MayAct, Config!Shown, ConfigUse, ConfigType
<1>5. dialog.index \in Nat \ {0}
  BY <1>3, <1>4 DEF Config!Config
<1>6. IsNewCall(c) /\ c.kind = "delete" /\ c.index = dialog.index /\ c.row = dialog.metric.name
  BY <1>1, <1>5, CallOnRow DEF Config!ByIndex
<1>7. CallIsShown(c)'
  BY <1>2, <1>3, <1>4, <1>6 DEF CallIsShown, EditsRow, Config!Config
<1>8. form' \in Config!Form /\ FormIsFilled' /\ RowsAreShown'
  BY <1>2, <1>3 DEF ConfigUse, ConfigType, FormIsFilled, RowsAreShown
<1>9. SettingsAgree /\ page = "settings" =>
          \A f \in Config!Fields \ form'.typed : form'[f] = server[f]
  BY <1>2, <1>4 DEF SettingsAgree
<1>10. QED
  BY <1>2, <1>6, <1>7, <1>8, <1>9, ConfigActs

LEMMA SaveMetricUse ==
    ASSUME ConfigUse, ConfigInv', NEW m \in Config!Metric, Config!SaveMetric(m)
    PROVE  ConfigUse'
<1>1. PICK c : c = IF editor.index = 0 THEN [Config!Call("create") EXCEPT !.metric = m]
                   ELSE Config!CallOn("update", editor, m)
  OBVIOUS
<1>2. /\ Config!MayAct /\ editor # None /\ dialog = None /\ calls' = calls \cup {c}
      /\ UNCHANGED <<server, query, troubles, missed, habit, page, dialog, editor, form>>
  BY <1>1 DEF Config!SaveMetric, Config!OnMetrics, Config!Click, Config!pageVars
<1>3. page = "metrics" /\ Row(editor)
  BY <1>2 DEF ConfigUse, RowsAreShown
<1>4. IsNewCall(c) /\ CallIsShown(c)'
  <2>1. CASE editor.index = 0
    <3>1. c = [Config!Call("create") EXCEPT !.metric = m]
      BY <1>1, <2>1
    <3>2. IsNewCall(c) /\ c.kind = "create"
      BY <3>1 DEF IsNewCall, IsConfigCall, Config!Call, Config!ByIndex, Config!InPlace
    <3>3. QED
      BY <1>2, <2>1, <3>2 DEF CallIsShown, EditsRow
  <2>2. CASE editor.index # 0
    <3>1. c = Config!CallOn("update", editor, m) /\ editor.index \in Nat \ {0}
      BY <1>1, <1>3, <2>2 DEF Row
    <3>2. IsNewCall(c) /\ c.kind = "update" /\ c.index = editor.index
                       /\ c.row = editor.metric.name
      BY <3>1, CallOnRow DEF Config!ByIndex
    <3>3. QED
      BY <1>2, <2>2, <3>2 DEF CallIsShown, EditsRow
  <2>3. QED
    BY <2>1, <2>2
<1>5. form' \in Config!Form /\ FormIsFilled' /\ RowsAreShown'
  BY <1>2 DEF ConfigUse, ConfigType, FormIsFilled, RowsAreShown, Row
<1>6. QED
  BY <1>2, <1>3, <1>4, <1>5, ConfigActs

LEMMA ApplyUse ==
    ASSUME ConfigUse, ConfigInv', Config!SaveAndApply PROVE ConfigUse'
<1>1. PICK c : c = [Config!Call("apply") EXCEPT !.phase = "get"]
  OBVIOUS
<1>2. /\ Config!MayAct /\ page = "metrics" /\ calls' = calls \cup {c}
      /\ UNCHANGED <<server, query, troubles, missed, habit, page, dialog, editor, form>>
  BY <1>1 DEF Config!SaveAndApply, Config!OnMetrics, Config!Click, Config!pageVars
<1>3. IsNewCall(c) /\ c.kind = "apply"
  BY <1>1 DEF IsNewCall, IsConfigCall, Config!Call, Config!ByIndex, Config!InPlace
<1>4. form' \in Config!Form /\ FormIsFilled' /\ RowsAreShown'
  BY <1>2 DEF ConfigUse, ConfigType, FormIsFilled, RowsAreShown, Row
<1>5. QED
  BY <1>2, <1>3, <1>4, ConfigActs

LEMMA ClearUse ==
    ASSUME ConfigUse, ConfigInv', Config!ClearInterval PROVE ConfigUse'
<1>1. /\ Config!MayAct /\ page = "settings" /\ form' = Config!Filled
      /\ UNCHANGED <<server, query, calls, troubles, missed, habit, page, dialog, editor>>
  BY DEF Config!ClearInterval, Config!Look, Config!boundVars
<1>2. /\ query.data # None /\ Config!Shown /\ (habit = "waits" => Config!Quiet)
  BY <1>1, Zenon DEF Config!MayAct, Config!Shown
<1>3. form' \in Config!Form /\ \A f \in Config!Fields : form'[f] = query.data[f]
  BY <1>1, <1>2, FilledIsAForm DEF ConfigUse
<1>4. RowsAreShown' /\ FormIsFilled'
  <2>1. \A f \in Config!Fields : query.data[f] # Config!Blank
    BY <1>2 DEF ConfigUse, ConfigType, Config!Config, Config!Values, Config!Blank, Config!Fields
  <2>2. QED
    BY <1>1, <1>3, <2>1 DEF ConfigUse, RowsAreShown, Row, FormIsFilled
<1>5. habit = "waits" /\ SettingsAgree => \A f \in Config!Fields : form'[f] = server[f]
  <2>1. habit = "waits" => calls = {} /\ query.fetch = "idle"
    BY <1>2, ConfigSeen
  <2>2. QED
    BY <1>2, <1>3, <2>1 DEF SettingsAgree, Agree, Saved
<1>6. QED
  BY <1>1, <1>3, <1>4, <1>5, ConfigActs

LEMMA SaveSettingsUse ==
    ASSUME ConfigUse, ConfigInv', NEW fields \in SUBSET Config!Fields,
           Config!SaveSettings(fields)
    PROVE  ConfigUse'
<1>1. PICK f : f = Config!Typed(fields)
  OBVIOUS
<1>2. PICK s : s = [query.data EXCEPT !.interval = f.interval, !.listener = f.listener,
                                      !.url = Config!Blank]
  OBVIOUS
<1>3. PICK c : c = [Config!Call("settings") EXCEPT !.row = f.typed, !.config = s]
  OBVIOUS
<1>4. /\ Config!MayAct /\ page = "settings" /\ form' = f /\ calls' = calls \cup {c}
      /\ UNCHANGED <<server, query, troubles, missed, habit, page, dialog, editor>>
  BY <1>1, <1>2, <1>3 DEF Config!SaveSettings, Config!Click
<1>5. query.data # None /\ query.data \in Config!Config
  BY <1>4, Zenon DEF Config!MayAct, Config!Shown, ConfigUse, ConfigType
<1>6. /\ f \in Config!Form /\ form.typed \subseteq f.typed
      /\ \A field \in Config!Fields \ f.typed : f[field] = form[field]
      /\ \A field \in Config!Fields : f[field] # Config!Blank
  <2>1. form \in Config!Form /\ \A field \in Config!Fields : form[field] # Config!Blank
    BY <1>4, <1>5 DEF ConfigUse, ConfigType, FormIsFilled
  <2>2. QED
    BY <1>1, <2>1, TypedIsAConfigForm
<1>7. IsNewCall(c) /\ CallIsShown(c)'
  <2>1. /\ IsConfigCall(c) /\ c.heard /\ c.phase = "sent" /\ c.kind = "settings"
        /\ c.index = 0 /\ c.row = f.typed /\ c.config = s
    BY <1>3 DEF IsConfigCall, Config!Call
  <2>2. s.metrics = query.data.metrics /\ \A field \in Config!Fields : s[field] = f[field]
    BY <1>2, <1>5 DEF Config!Config, Config!Fields
  <2>3. s \in Config!Config
    <3>1. f.interval \in Config!Values /\ f.listener \in Config!Values
      BY <1>6 DEF Config!Form, Config!Fields
    <3>2. QED
      BY <1>2, <1>5, <3>1 DEF Config!Config, Config!Urls
  <2>4. ~EditsRow
    BY <1>4 DEF ConfigUse, RowsAreShown, EditsRow
  <2>5. QED
    BY <1>4, <2>1, <2>2, <2>3, <2>4 DEF IsNewCall, CallIsShown, EditsRow, Config!ByIndex,
                                       Config!InPlace
<1>8. RowsAreShown' /\ FormIsFilled'
  BY <1>4, <1>6 DEF ConfigUse, RowsAreShown, Row, FormIsFilled
<1>9. SettingsAgree => \A field \in Config!Fields \ f.typed : form'[field] = server[field]
  BY <1>4, <1>5, <1>6 DEF SettingsAgree
<1>10. QED
  BY <1>4, <1>6, <1>7, <1>8, <1>9, ConfigActs

(* The console of a user who waits is quiet when he leaves a page.         *)
LEMMA QuietUse ==
    ASSUME ConfigUse, habit = "waits", Config!Quiet
    PROVE  /\ calls = {} /\ query.fetch = "idle"
           /\ troubles \cap {"edit", "fetch"} = {} =>
                  /\ query.data # None => Agree(query.data)
                  /\ "server" \notin troubles /\ Config!Valid(server) => ~missed
<1>1. calls = {} /\ query.fetch = "idle"
  BY DEF Config!Quiet, Config!Fetching
<1>2. ASSUME troubles \cap {"edit", "fetch"} = {}
      PROVE  /\ query.data # None => Agree(query.data)
             /\ "server" \notin troubles /\ Config!Valid(server) => ~missed
  <2>1. SettingsAgree /\ MetricsAgree
    BY <1>2 DEF ConfigUse
  <2>2. query.data # None => Agree(query.data)
    BY <1>1, <2>1 DEF SettingsAgree, Saved
  <2>3. "server" \notin troubles /\ Config!Valid(server) => ~missed
    BY <1>1, <2>1 DEF MetricsAgree, SuccessIsToCome
  <2>4. QED
    BY <2>2, <2>3
<1>3. QED
  BY <1>1, <1>2

LEMMA OpenUse ==
    ASSUME ConfigUse, ConfigInv', NEW p, Config!Open(p)
    PROVE  ConfigUse'
<1>1. /\ page' = p /\ editor' = None /\ dialog' = None
      /\ UNCHANGED <<server, calls, missed, troubles, habit>>
      /\ form' = IF p = "settings" THEN Config!Filled ELSE Config!EmptyForm
  BY DEF Config!Open, Config!boundVars
<1>2. habit = "waits" => Config!Quiet
  BY Zenon DEF Config!Open
<1>3. query' = query \/ query' = Cache!Mounted(query)
  BY OneCache DEF Config!Open
<1>4. /\ query'.data = query.data
      /\ query'.fetch \in {query.fetch, "asked"}
      /\ query'.fetch = "answered" => query'.answer = query.answer
      /\ query'.fetch = "idle" => query.fetch = "idle"
  BY <1>3 DEF Cache!Mounted, Cache!Asked, Cache!Fetching, ConfigUse, ConfigInv, IsEntry
<1>5. form' \in Config!Form /\ FormIsFilled'
  <2>1. form' \in Config!Form
    BY <1>1, FilledIsAForm DEF ConfigUse
  <2>2. query.data # None => query.data \in Config!Config
    BY DEF ConfigUse, ConfigType
  <2>3. ASSUME p = "settings", query.data # None, NEW f \in Config!Fields
        PROVE  form'[f] # Config!Blank
    <3>1. form'[f] = query.data[f]
      BY <1>1, <2>3, FilledIsAForm DEF ConfigUse
    <3>2. query.data[f] \in Config!Values
      BY <2>2, <2>3 DEF Config!Config, Config!Fields
    <3>3. QED
      BY <3>1, <3>2 DEF Config!Values, Config!Blank
  <2>4. QED
    BY <1>1, <1>4, <2>1, <2>3 DEF FormIsFilled
<1>6. ConfigType' /\ RowsAreShown'
  BY <1>1, <1>4, <1>5 DEF ConfigUse, ConfigType, RowsAreShown
<1>7. ASSUME habit = "waits"
      PROVE  /\ CallsAreShown'
             /\ troubles \cap {"edit", "fetch"} = {} => SettingsAgree' /\ MetricsAgree'
  <2>1. calls = {} /\ query.fetch = "idle"
    BY <1>2, <1>7, QuietUse
  <2>2. CallsAreShown'
    BY <1>1, <2>1 DEF CallsAreShown, SingleCall
  <2>3. ASSUME troubles \cap {"edit", "fetch"} = {} PROVE SettingsAgree' /\ MetricsAgree'
    <3>1. query.data # None => Agree(query.data)
      BY <1>2, <1>7, <2>3, QuietUse
    <3>2. p = "settings" /\ query.data # None =>
              \A f \in Config!Fields : form'[f] = query.data[f]
      BY <1>1, FilledIsAForm DEF ConfigUse
    <3>3. SettingsAgree'
      BY <1>1, <1>4, <2>1, <3>1, <3>2 DEF SettingsAgree, Agree
    <3>4. "server" \notin troubles /\ Config!Valid(server) => ~missed
      BY <1>2, <1>7, <2>3, QuietUse
    <3>5. MetricsAgree'
      BY <1>1, <3>4 DEF MetricsAgree, EditsRow
    <3>6. QED
      BY <3>3, <3>5
  <2>4. QED
    BY <2>2, <2>3
<1>8. QED
  BY <1>1, <1>6, <1>7 DEF ConfigUse

LEMMA ReloadUse ==
    ASSUME ConfigUse, ConfigInv', NEW p, Config!Reload(p)
    PROVE  ConfigUse'
<1>1. /\ page' = p /\ editor' = None /\ dialog' = None /\ form' = Config!EmptyForm
      /\ UNCHANGED <<server, missed, habit>>
  BY DEF Config!Reload
<1>2. habit = "waits" => Config!Quiet
  BY Zenon DEF Config!Reload
<1>3. troubles \subseteq troubles'
  BY DEF Config!Reload, Config!Trouble
<1>4. query'.data = None /\ query'.fetch \in {"idle", "asked"}
  <2>1. query' = Cache!EmptyQuery \/ query' = Cache!Mounted(Cache!EmptyQuery)
    BY OneCache DEF Config!Reload
  <2>2. CASE query' = Cache!EmptyQuery
    BY <2>2 DEF Cache!EmptyQuery
  <2>3. CASE query' = Cache!Mounted(Cache!EmptyQuery)
    BY <2>3 DEF Cache!EmptyQuery, Cache!Mounted, Cache!Asked, Cache!Fetching
  <2>4. QED
    BY <2>1, <2>2, <2>3
<1>5. calls' = {[c EXCEPT !.heard = FALSE] :
                    c \in {d \in calls : d.phase \in {"sent", "put"}}}
  BY DEF Config!Reload
<1>6. ConfigType' /\ RowsAreShown'
  <2>1. form' \in Config!Form /\ FormIsFilled'
    BY <1>1, <1>4, FilledIsAForm DEF ConfigUse, FormIsFilled
  <2>2. ASSUME NEW e \in calls'
        PROVE  \E c \in calls : /\ e.index = c.index /\ e.kind = c.kind /\ e.metric = c.metric
                                /\ e.phase = c.phase /\ e.config = c.config
    <3>1. PICK c \in calls : e = [c EXCEPT !.heard = FALSE]
      BY <1>5
    <3>2. IsConfigCall(c)
      BY DEF ConfigUse, ConfigInv
    <3>3. QED
      BY <3>1, <3>2 DEF IsConfigCall
  <2>3. \A e \in calls' :
           /\ e.index \in Nat /\ e.kind \in Config!InPlace \cup {"settings", "apply"}
           /\ e.kind \in Config!ByIndex => e.index # 0
           /\ e.kind \in {"create", "update"} => e.metric \in Config!Metric
           /\ e.phase \in {"get", "validate", "put"} => e.kind = "apply"
           /\ e.kind = "settings" \/ e.phase \in {"validate", "put"} =>
                  e.config \in Config!Config
           /\ e.kind = "apply" => e.phase # "sent"
    BY <2>2 DEF ConfigUse, ConfigType
  <2>4. QED
    BY <1>1, <1>4, <2>1, <2>3 DEF ConfigUse, ConfigType, RowsAreShown
<1>7. ASSUME habit = "waits"
      PROVE  /\ CallsAreShown'
             /\ troubles' \cap {"edit", "fetch"} = {} => SettingsAgree' /\ MetricsAgree'
  <2>1. calls' = {}
    BY <1>2, <1>5, <1>7, QuietUse
  <2>2. CallsAreShown' /\ SettingsAgree'
    BY <1>4, <2>1 DEF CallsAreShown, SingleCall, SettingsAgree
  <2>3. ASSUME troubles' \cap {"edit", "fetch"} = {} PROVE MetricsAgree'
    <3>1. "server" \notin troubles' /\ Config!Valid(server) => ~missed
      BY <1>2, <1>3, <1>7, <2>3, QuietUse
    <3>2. QED
      BY <1>1, <3>1 DEF MetricsAgree, EditsRow
  <2>4. QED
    BY <2>2, <2>3
<1>8. QED
  BY <1>1, <1>6, <1>7 DEF ConfigUse

LEMMA ConfigUserUse == ConfigUse /\ ConfigInv' /\ Config!User => ConfigUse'
  BY ToggleUse, RowOpensUse, DialogClosesUse, EditorOpensUse, ConfirmUse, SaveMetricUse,
     ApplyUse, ClearUse, SaveSettingsUse, OpenUse, Zenon
     DEF Config!User

(* A call that goes on: what it is about stays.                            *)
GoesOn(c, d) ==
    /\ d.id = c.id /\ d.kind = c.kind /\ d.heard = c.heard /\ d.index = c.index
    /\ d.row = c.row /\ d.metric = c.metric

(* What a request may do to the server: nothing, or the change it is for;  *)
(* a refused one leaves its change to the metrics, for a reason.           *)
LEMMA ConfigHandled ==
    ASSUME ConfigUse, NEW c \in calls, NEW broken \in BOOLEAN, Config!Handle(c, broken)
    PROVE  \E d :
               /\ calls' = (calls \ {c}) \cup {d} /\ GoesOn(c, d) /\ d.config = c.config
               /\ c.phase \in {"sent", "put"} /\ d.phase \in {"ok", "refused"}
               /\ server' \in Config!Config
               /\ server' = server \/ /\ server' = Config!Changed(server, c)
                                      /\ c.kind \in Config!ByIndex =>
                                             c.index \in 1 .. Config!Len(server.metrics)
               /\ c.kind \in Config!InPlace =>
                      \A f \in AllFields : server'[f] = server[f]
               /\ c.kind \notin Config!InPlace =>
                      server' = server \/ (server' = c.config /\ d.phase = "ok")
               /\ d.phase = "refused" /\ "server" \notin troubles' /\ server' # server =>
                      ~Config!Valid(server')
               /\ missed' /\ ~missed => server' # server /\ (d.phase = "refused" \/ ~c.heard)
               /\ troubles \subseteq troubles'
<1> DEFINE new == Config!Changed(server, c)
           o == Config!Outcome(server, c, broken)
<1>1. /\ IsConfigCall(c) /\ server \in Config!Config /\ c.index \in Nat
      /\ c.kind \in Config!ByIndex => c.index # 0
      /\ c.kind \in {"create", "update"} => c.metric \in Config!Metric
      /\ c.phase \in {"sent", "put"}
  BY DEF ConfigUse, ConfigInv, ConfigType, Config!Handle
<1>2. PICK ok \in BOOLEAN : ok <=> o.ok
  OBVIOUS
<1>3. PICK d : d = [c EXCEPT !.phase = IF ok THEN "ok" ELSE "refused"]
  OBVIOUS
<1>4. /\ server' = o.config /\ calls' = (calls \ {c}) \cup {d}
  BY <1>2, <1>3 DEF Config!Handle, Config!Update
<1>5. /\ GoesOn(c, d) /\ d.config = c.config
      /\ d.phase = IF ok THEN "ok" ELSE "refused"
  BY <1>1, <1>3 DEF GoesOn, IsConfigCall
<1>6. missed' /\ ~missed => server' # server /\ (~ok \/ ~c.heard)
  BY <1>2, Zenon DEF Config!Handle
<1>7. /\ troubles \subseteq troubles'
      /\ broken => "server" \in troubles'
  BY DEF Config!Handle, Config!Trouble
<1>8. CASE ~Config!Found(server, c) \/ Config!Unneeded(server, c)
  <2>1. o.config = server
    BY <1>8 DEF Config!Outcome
  <2>2. QED
    BY <1>1, <1>4, <1>5, <1>6, <1>7, <2>1
<1>9. CASE Config!Found(server, c) /\ ~Config!Unneeded(server, c)
  <2>1. PICK done \in BOOLEAN : done <=> (Config!Valid(new) /\ ~broken)
    OBVIOUS
  <2>2. o = [config |-> IF done \/ c.kind \in Config!InPlace THEN new ELSE server,
             ok |-> Config!Valid(new) /\ ~broken]
    BY <1>9, <2>1, Zenon DEF Config!Outcome
  <2>3. ok = done /\ server' = IF done \/ c.kind \in Config!InPlace THEN new ELSE server
    <3>1. o.ok = (Config!Valid(new) /\ ~broken)
      BY <2>2
    <3>2. o.config = IF done \/ c.kind \in Config!InPlace THEN new ELSE server
      BY <2>2
    <3>3. QED
      BY <1>2, <1>4, <2>1, <3>1, <3>2
  <2>4. c.kind \in Config!ByIndex => c.index \in 1 .. Config!Len(server.metrics)
    BY <1>1, <1>9 DEF Config!Found, Config!Config
  <2>5. c.kind \notin Config!InPlace => c.config \in Config!Config
    BY <1>1 DEF ConfigUse, ConfigType
  <2>6. /\ new \in Config!Config
        /\ c.kind \in Config!InPlace => \A f \in AllFields : new[f] = server[f]
        /\ c.kind \notin Config!InPlace => new = c.config
    BY <1>1, <2>4, <2>5, ChangedConfig
  <2> HIDE DEF new, o
  <2>7. ~ok /\ "server" \notin troubles' => ~Config!Valid(new)
    BY <1>7, <2>1, <2>3
  <2>8. server' = server \/ (server' = new /\ (ok \/ c.kind \in Config!InPlace))
    BY <2>3
  <2>9. /\ server' \in Config!Config
        /\ c.kind \in Config!InPlace => \A f \in AllFields : server'[f] = server[f]
        /\ c.kind \notin Config!InPlace => server' = server \/ (server' = c.config /\ ok)
        /\ ~ok /\ "server" \notin troubles' /\ server' # server => ~Config!Valid(server')
        /\ server' = server \/ server' = new
    BY <1>1, <2>6, <2>7, <2>8
  <2>10. QED
    BY <1>1, <1>4, <1>5, <1>6, <1>7, <2>4, <2>9 DEF new
<1>10. QED
  BY <1>8, <1>9

LEMMA ConfigHandleUse ==
    ASSUME ConfigUse, ConfigInv', NEW c \in calls, NEW broken \in BOOLEAN,
           Config!Handle(c, broken)
    PROVE  ConfigUse'
<1>1. PICK d :
          /\ calls' = (calls \ {c}) \cup {d} /\ GoesOn(c, d) /\ d.config = c.config
          /\ c.phase \in {"sent", "put"} /\ d.phase \in {"ok", "refused"}
          /\ server' \in Config!Config
          /\ server' = server \/ /\ server' = Config!Changed(server, c)
                                 /\ c.kind \in Config!ByIndex =>
                                        c.index \in 1 .. Config!Len(server.metrics)
          /\ c.kind \in Config!InPlace => \A f \in AllFields : server'[f] = server[f]
          /\ c.kind \notin Config!InPlace =>
                 server' = server \/ (server' = c.config /\ d.phase = "ok")
          /\ d.phase = "refused" /\ "server" \notin troubles' /\ server' # server =>
                 ~Config!Valid(server')
          /\ missed' /\ ~missed => server' # server /\ (d.phase = "refused" \/ ~c.heard)
          /\ troubles \subseteq troubles'
  BY ConfigHandled, Zenon
<1>2. UNCHANGED <<query, habit, page, dialog, editor, form>>
  BY DEF Config!Handle, Config!pageVars
<1>3. ConfigType'
  <2>1. form' \in Config!Form /\ FormIsFilled'
    BY <1>2 DEF ConfigUse, ConfigType, FormIsFilled
  <2>2. ConfigType
    BY DEF ConfigUse
  <2>3. /\ d.index \in Nat /\ d.kind \in Config!InPlace \cup {"settings", "apply"}
        /\ d.kind \in Config!ByIndex => d.index # 0
        /\ d.kind \in {"create", "update"} => d.metric \in Config!Metric
        /\ d.phase \notin {"get", "validate", "put", "sent"}
        /\ d.kind = "settings" => d.config \in Config!Config
    BY <1>1, <2>2 DEF ConfigType, GoesOn
  <2>4. QED
    BY <1>1, <1>2, <2>1, <2>2, <2>3 DEF ConfigType
<1>4. RowsAreShown'
  BY <1>2 DEF ConfigUse, RowsAreShown, Row
<1>5. ASSUME habit = "waits"
      PROVE  /\ CallsAreShown'
             /\ troubles' \cap {"edit", "fetch"} = {} => SettingsAgree' /\ MetricsAgree'
  <2>1. calls = {c} /\ calls' = {d} /\ CallsAreShown
    BY <1>1, <1>5 DEF ConfigUse, CallsAreShown, SingleCall
  <2>2. /\ c.heard /\ d.heard /\ query.fetch = "idle" /\ query.data # None
        /\ Config!Used /\ (c.phase = "sent" => CallIsShown(c))
    BY <1>1, <2>1 DEF CallsAreShown, GoesOn
  <2>3. CallsAreShown'
    BY <1>1, <1>2, <2>1, <2>2 DEF CallsAreShown, SingleCall, Config!Used
  <2>4. ASSUME troubles' \cap {"edit", "fetch"} = {} PROVE SettingsAgree' /\ MetricsAgree'
    <3>1. SettingsAgree /\ MetricsAgree
      BY <1>1, <1>5, <2>4 DEF ConfigUse
    <3>2. ~Saved("settings") /\ ~Saved("update") /\ ~SuccessIsToCome
      BY <1>1, <2>1 DEF Saved, SuccessIsToCome
    <3>3. c.kind # "apply" => c.phase = "sent" /\ CallIsShown(c)
      BY <1>1, <2>2 DEF ConfigUse, ConfigType
    <3>4. c.kind = "apply" => server' = server
      BY <1>1, <2>1, <3>1 DEF SettingsAgree, ConfigUse, ConfigType, Config!InPlace,
                              Config!ByIndex
    <3>5. c.kind \in Config!InPlace \/ c.kind \in {"settings", "apply"}
      BY DEF ConfigUse, ConfigType
    <3>6. \/ \A f \in Config!Fields : server'[f] = server[f]
          \/ c.kind = "settings" /\ d.phase = "ok" /\ server' = c.config
      BY <1>1, <3>4, <3>5 DEF AllFields
    <3>7. SettingsAgree'
      <4>1. Agree(query.data)
        BY <2>2, <3>1, <3>2 DEF SettingsAgree
      <4>2. CASE \A f \in Config!Fields : server'[f] = server[f]
        BY <1>1, <1>2, <2>1, <2>2, <3>1, <4>1, <4>2 DEF SettingsAgree, Agree
      <4>3. CASE c.kind = "settings" /\ d.phase = "ok" /\ server' = c.config
        <5>1. Saved("settings")'
          BY <1>1, <2>1, <4>3 DEF Saved, GoesOn
        <5>2. \A f \in Config!Fields : server'[f] = form[f]
          BY <3>3, <4>3 DEF CallIsShown
        <5>3. QED
          BY <1>1, <1>2, <2>1, <2>2, <5>1, <5>2 DEF SettingsAgree
      <4>4. QED
        BY <3>6, <4>2, <4>3
    <3>8. MetricsAgree'
      <4>1. SUFFICES ASSUME "server" \notin troubles', Config!Valid(server')
                     PROVE  /\ missed' => SuccessIsToCome'
                            /\ EditsRow /\ ~Saved("update")' =>
                                   /\ editor.index <= Config!Len(server'.metrics)
                                   /\ server'.metrics[editor.index].name = editor.metric.name
        <5>1. EditsRow' = EditsRow /\ editor' = editor
          BY <1>2 DEF EditsRow
        <5>2. Config!Valid(server)' = Config!Valid(server')
          BY DEF Config!Valid
        <5>3. QED
          BY <5>1, <5>2 DEF MetricsAgree
      <4>2. server' = server \/ d.phase = "ok"
        BY <1>1, <4>1
      <4>3. d.phase = "ok" => SuccessIsToCome'
        BY <2>1, <2>2 DEF SuccessIsToCome
      <4>4. server' = server =>
                /\ ~missed
                /\ EditsRow => /\ editor.index <= Config!Len(server.metrics)
                               /\ server.metrics[editor.index].name = editor.metric.name
        BY <1>1, <2>2, <3>1, <3>2, <4>1 DEF MetricsAgree
      <4>5. missed' => SuccessIsToCome'
        BY <1>1, <4>2, <4>3, <4>4
      <4>6. ASSUME EditsRow, ~Saved("update")', server' # server
            PROVE  /\ editor.index <= Config!Len(server'.metrics)
                   /\ server'.metrics[editor.index].name = editor.metric.name
        <5>1. c.kind \in {"enable", "disable"}
          <6>1. d.phase = "ok" /\ c.kind # "apply"
            BY <3>4, <4>2, <4>6
          <6>2. c.kind # "update"
            BY <1>1, <2>1, <4>6, <6>1 DEF Saved, GoesOn
          <6>3. c.kind \notin {"create", "delete", "settings"}
            BY <3>3, <4>6, <6>1 DEF CallIsShown
          <6>4. QED
            BY <3>5, <6>1, <6>2, <6>3 DEF Config!InPlace, Config!ByIndex
        <5>2. /\ server' = Config!Changed(server, c) /\ server \in Config!Config
              /\ c.index \in 1 .. Config!Len(server.metrics)
          BY <1>1, <4>6, <5>1 DEF Config!ByIndex, ConfigUse, ConfigType
        <5>3. /\ Config!Len(server'.metrics) = Config!Len(server.metrics)
              /\ \A i \in 1 .. Config!Len(server.metrics) :
                     server'.metrics[i].name = server.metrics[i].name
              /\ Config!Valid(server)
          BY <4>1, <5>1, <5>2, SwitchKeepsRows
        <5>4. /\ editor.index \in Nat \ {0} /\ editor.index <= Config!Len(server.metrics)
              /\ server.metrics[editor.index].name = editor.metric.name
          BY <1>1, <3>1, <3>2, <4>1, <4>6, <5>3
             DEF MetricsAgree, EditsRow, ConfigUse, RowsAreShown, Row
        <5>5. QED
          BY <5>2, <5>3, <5>4 DEF Config!Config
      <4>7. QED
        BY <4>4, <4>5, <4>6
    <3>9. QED
      BY <3>7, <3>8
  <2>5. QED
    BY <2>3, <2>4
<1>6. QED
  BY <1>2, <1>3, <1>4, <1>5 DEF ConfigUse

(* SaveAndApply reads what the server has and sends it back.               *)
LEMMA ConfigApplyUse ==
    ASSUME ConfigUse, ConfigInv', NEW c \in calls, Config!ApplyRead(c) \/ Config!ApplyValidate(c)
    PROVE  ConfigUse'
<1>1. /\ IsConfigCall(c) /\ ConfigType /\ c.kind = "apply" /\ c.phase \in {"get", "validate"}
      /\ UNCHANGED <<server, query, missed, troubles, habit, page, dialog, editor, form>>
  BY DEF ConfigUse, ConfigInv, ConfigType, Config!ApplyRead, Config!ApplyValidate,
         Config!pageVars, Config!boundVars
<1>2. PICK d : /\ calls' = (calls \ {c}) \cup {d} /\ GoesOn(c, d)
               /\ d.phase \in {"validate", "put", "refused"}
               /\ \/ d.config = server
                  \/ c.phase = "validate" /\ d.config = c.config
  <2>1. CASE Config!ApplyRead(c)
    <3>1. PICK d : d = [c EXCEPT !.phase = "validate", !.config = server]
      OBVIOUS
    <3>2. calls' = (calls \ {c}) \cup {d}
      BY <2>1, <3>1 DEF Config!ApplyRead, Config!Update
    <3>3. GoesOn(c, d) /\ d.phase = "validate" /\ d.config = server
      BY <1>1, <3>1 DEF GoesOn, IsConfigCall
    <3>4. QED
      BY <3>2, <3>3
  <2>2. CASE Config!ApplyValidate(c)
    <3>1. PICK phase : phase = IF Config!Valid(server) THEN "put" ELSE "refused"
      OBVIOUS
    <3>2. PICK d : d = [c EXCEPT !.phase = phase]
      OBVIOUS
    <3>3. calls' = (calls \ {c}) \cup {d} /\ c.phase = "validate"
      BY <2>2, <3>1, <3>2 DEF Config!ApplyValidate, Config!Update
    <3>4. GoesOn(c, d) /\ d.phase \in {"put", "refused"} /\ d.config = c.config
      BY <1>1, <3>1, <3>2 DEF GoesOn, IsConfigCall
    <3>5. QED
      BY <3>3, <3>4
  <2>3. QED
    BY <2>1, <2>2
<1>3. ConfigType'
  <2>1. form' \in Config!Form /\ FormIsFilled'
    BY <1>1 DEF ConfigType, FormIsFilled
  <2>2. /\ d.index \in Nat /\ d.kind = "apply" /\ d.phase # "sent"
        /\ d.config \in Config!Config
    BY <1>1, <1>2 DEF ConfigType, GoesOn
  <2>3. QED
    BY <1>1, <1>2, <2>1, <2>2 DEF ConfigType, Config!ByIndex
<1>4. RowsAreShown'
  BY <1>1 DEF ConfigUse, RowsAreShown, Row
<1>5. ASSUME habit = "waits"
      PROVE  /\ CallsAreShown'
             /\ troubles \cap {"edit", "fetch"} = {} => SettingsAgree' /\ MetricsAgree'
  <2>1. calls = {c} /\ calls' = {d} /\ CallsAreShown
    BY <1>2, <1>5 DEF ConfigUse, CallsAreShown, SingleCall
  <2>2. c.heard /\ d.heard /\ query.fetch = "idle" /\ query.data # None /\ Config!Used
    BY <1>2, <2>1 DEF CallsAreShown, GoesOn
  <2>3. CallsAreShown'
    BY <1>1, <1>2, <2>1, <2>2 DEF CallsAreShown, SingleCall, Config!Used
  <2>4. ASSUME troubles \cap {"edit", "fetch"} = {} PROVE SettingsAgree' /\ MetricsAgree'
    <3>1. SettingsAgree /\ MetricsAgree
      BY <1>5, <2>4 DEF ConfigUse
    <3>2. ~Saved("settings") /\ ~Saved("update") /\ ~SuccessIsToCome
      BY <1>1, <2>1 DEF Saved, SuccessIsToCome
    <3>3. d.config = server
      BY <1>2, <2>1, <3>1 DEF SettingsAgree
    <3>4. SettingsAgree'
      BY <1>1, <2>1, <2>2, <3>1, <3>2, <3>3 DEF SettingsAgree, Agree
    <3>5. MetricsAgree'
      BY <1>1, <2>2, <3>1, <3>2 DEF MetricsAgree, EditsRow
    <3>6. QED
      BY <3>4, <3>5
  <2>5. QED
    BY <2>3, <2>4
<1>6. QED
  BY <1>1, <1>3, <1>4, <1>5 DEF ConfigUse

LEMMA ConfigDeliverUse ==
    ASSUME ConfigUse, ConfigInv', NEW c \in calls, Config!Deliver(c)
    PROVE  ConfigUse'
<1>1. /\ c.phase \in {"ok", "refused"} /\ calls' = calls \ {c}
      /\ UNCHANGED <<server, troubles, habit, page, dialog, form>>
      /\ editor' \in {editor, None}
      /\ c.heard /\ c.phase = "ok" /\ c.kind = "update" => editor' = None
  BY DEF Config!Deliver, Config!boundVars
<1>2. /\ c.heard /\ c.phase = "ok" => query' = Cache!Invalidated(query, Config!Used)
      /\ ~(c.heard /\ c.phase = "ok") => query' = query
  BY OneCache, Zenon DEF Config!Deliver, Config!Done
<1>3. missed' => missed \/ query.fetch # "idle"
  BY Zenon DEF Config!Deliver, Config!Overtaken, Config!Fetching
<1>4. IsEntry(query)
  BY DEF ConfigUse, ConfigInv
<1>5. /\ query'.data = query.data
      /\ query'.fetch = "answered" => query.fetch = "answered" /\ query'.answer = query.answer
  <2>1. PICK used \in BOOLEAN : used <=> Config!Used
    OBVIOUS
  <2>2. query' = query \/ query' = Cache!Invalidated(query, used)
    BY <1>2, <2>1
  <2>3. QED
    BY <1>4, <2>2
       DEF IsEntry, Cache!Invalidated, Cache!Asked, Cache!Mounted, Cache!Fetching
<1>6. ConfigType' /\ RowsAreShown'
  BY <1>1, <1>5 DEF ConfigUse, ConfigType, FormIsFilled, RowsAreShown, Row
<1>7. ASSUME habit = "waits"
      PROVE  /\ CallsAreShown'
             /\ troubles \cap {"edit", "fetch"} = {} => SettingsAgree' /\ MetricsAgree'
  <2>1. calls = {c} /\ calls' = {} /\ CallsAreShown
    BY <1>1, <1>7 DEF ConfigUse, CallsAreShown, SingleCall
  <2>2. c.heard /\ query.fetch = "idle" /\ query.data # None /\ Config!Used
    BY <2>1 DEF CallsAreShown
  <2>3. CallsAreShown'
    BY <2>1 DEF CallsAreShown, SingleCall
  <2>4. c.phase = "ok" => query'.fetch = "asked"
    BY <1>2, <1>4, <2>2 DEF IsEntry, Cache!Invalidated, Cache!Asked
  <2>5. ASSUME troubles \cap {"edit", "fetch"} = {} PROVE SettingsAgree' /\ MetricsAgree'
    <3>1. SettingsAgree /\ MetricsAgree
      BY <1>7, <2>5 DEF ConfigUse
    <3>2. c.phase = "refused" =>
              query' = query /\ ~Saved("settings") /\ ~Saved("update") /\ ~SuccessIsToCome
      BY <1>2, <2>1 DEF Saved, SuccessIsToCome
    <3>3. SettingsAgree'
      BY <1>1, <1>5, <2>1, <2>2, <2>4, <3>1, <3>2 DEF SettingsAgree, Agree
    <3>4. MetricsAgree'
      <4>1. SUFFICES ASSUME "server" \notin troubles, Config!Valid(server)
                     PROVE  /\ missed' => query'.fetch = "asked"
                            /\ EditsRow' =>
                                   /\ editor'.index <= Config!Len(server.metrics)
                                   /\ server.metrics[editor'.index].name = editor'.metric.name
        BY <1>1 DEF MetricsAgree
      <4>2. missed' => query'.fetch = "asked"
        BY <1>1, <1>3, <2>2, <2>4, <3>1, <3>2, <4>1, Zenon DEF MetricsAgree
      <4>3. EditsRow' => editor' = editor /\ EditsRow /\ ~Saved("update")
        BY <1>1, <2>1, <2>2 DEF EditsRow, Saved
      <4>4. QED
        BY <3>1, <4>1, <4>2, <4>3 DEF MetricsAgree
    <3>5. QED
      BY <3>3, <3>4
  <2>6. QED
    BY <2>3, <2>5
<1>8. QED
  BY <1>1, <1>6, <1>7 DEF ConfigUse

(* While a fetch runs, a user who waits has no call in flight.             *)
LEMMA ConfigFetchUse ==
    ASSUME ConfigUse, ConfigInv', Config!AnswerFetch \/ Config!ArriveFetch
    PROVE  ConfigUse'
<1>1. /\ UNCHANGED <<server, calls, troubles, habit, editor, form>>
      /\ IsEntry(query) /\ query.fetch # "idle"
      /\ missed' => missed
  <2>1. missed' => missed
    BY Zenon DEF Config!AnswerFetch, Config!ArriveFetch
  <2>2. QED
    BY <2>1 DEF Config!AnswerFetch, Config!ArriveFetch, Config!pageVars, Config!boundVars,
                ConfigUse, ConfigInv
<1>2. habit = "waits" => calls = {}
  BY <1>1 DEF ConfigUse, CallsAreShown
<1>3. habit = "waits" => CallsAreShown'
  BY <1>1, <1>2 DEF CallsAreShown, SingleCall
<1>4. EditsRow' = EditsRow
  BY <1>1 DEF EditsRow
<1>5. CASE Config!AnswerFetch
  <2>1. /\ query' = Cache!Answered(query, server) /\ UNCHANGED <<page, dialog>>
    BY <1>5, OneCache DEF Config!AnswerFetch, Config!pageVars
  <2>2. ~missed'
    BY <1>5, Zenon DEF Config!AnswerFetch
  <2>3. query'.data = query.data /\ query'.fetch = "answered" /\ query'.answer = server
    BY <1>1, <2>1 DEF IsEntry, Cache!Answered
  <2>4. ConfigType' /\ RowsAreShown'
    BY <1>1, <2>1, <2>3 DEF ConfigUse, ConfigType, FormIsFilled, RowsAreShown, Row
  <2>5. ASSUME habit = "waits", troubles \cap {"edit", "fetch"} = {}
        PROVE  SettingsAgree' /\ MetricsAgree'
    <3>1. SettingsAgree /\ MetricsAgree
      BY <2>5 DEF ConfigUse
    <3>2. SettingsAgree'
      BY <1>1, <1>2, <2>1, <2>3, <2>5, <3>1 DEF SettingsAgree, Agree
    <3>3. MetricsAgree'
      BY <1>1, <1>2, <1>4, <2>2, <2>5, <3>1 DEF MetricsAgree, Saved
    <3>4. QED
      BY <3>2, <3>3
  <2>6. QED
    BY <1>1, <1>3, <2>4, <2>5 DEF ConfigUse
<1>6. CASE Config!ArriveFetch
  <2>1. /\ query.fetch = "answered" /\ query' = Cache!Arrived(query)
        /\ page' = IF page = "settings" /\ query.data = None THEN "crashed" ELSE page
        /\ dialog' = IF dialog # None /\ Config!SameRow(dialog, query.answer)
                     THEN [dialog EXCEPT !.metric = query.answer.metrics[dialog.index]]
                     ELSE None
    BY <1>6, OneCache, Zenon DEF Config!ArriveFetch
  <2>2. query'.data = query.answer /\ query'.fetch = "idle"
    BY <2>1 DEF Cache!Arrived
  <2>3. query.answer \in Config!Config
    BY <2>1 DEF ConfigUse, ConfigType
  <2>4. page' = "settings" => page = "settings" /\ query.data # None
    BY <2>1
  <2>5. ConfigType'
    BY <1>1, <2>2, <2>3, <2>4 DEF ConfigUse, ConfigType, FormIsFilled
  <2>6. RowsAreShown'
    <3>1. ASSUME dialog' # None
          PROVE  /\ editor' = None
                 /\ DOMAIN dialog' = {"index", "metric"} /\ dialog'.index \in Nat \ {0}
                 /\ dialog'.index \in 1 .. Config!Len(query'.data.metrics)
                 /\ dialog'.metric.name = query'.data.metrics[dialog'.index].name
      <4>1. /\ dialog # None /\ Config!SameRow(dialog, query.answer)
            /\ dialog' = [dialog EXCEPT !.metric = query.answer.metrics[dialog.index]]
        BY <2>1, <3>1
      <4>2. /\ editor = None
            /\ DOMAIN dialog = {"index", "metric"} /\ dialog.index \in Nat \ {0}
        BY <4>1 DEF ConfigUse, RowsAreShown
      <4>3. dialog'.index = dialog.index /\ DOMAIN dialog' = {"index", "metric"}
            /\ dialog'.metric = query.answer.metrics[dialog.index]
        BY <4>1, <4>2
      <4>4. dialog.index \in 1 .. Config!Len(query.answer.metrics)
        BY <2>3, <4>1, <4>2 DEF Config!SameRow, Config!Config
      <4>5. QED
        BY <1>1, <2>2, <4>2, <4>3, <4>4
    <3>2. editor # None => page = "metrics" /\ page' = "metrics" /\ Row(editor)
      BY <2>1 DEF ConfigUse, RowsAreShown
    <3>3. QED
      BY <1>1, <3>1, <3>2 DEF RowsAreShown, Row
  <2>7. ASSUME habit = "waits", troubles \cap {"edit", "fetch"} = {}
        PROVE  SettingsAgree' /\ MetricsAgree'
    <3>1. SettingsAgree /\ MetricsAgree
      BY <2>7 DEF ConfigUse
    <3>2. SettingsAgree'
      BY <1>1, <1>2, <2>1, <2>2, <2>4, <2>7, <3>1 DEF SettingsAgree, Agree
    <3>3. MetricsAgree'
      BY <1>1, <1>2, <1>4, <2>1, <2>7, <3>1 DEF MetricsAgree, Saved, SuccessIsToCome
    <3>4. QED
      BY <3>2, <3>3
  <2>8. QED
    BY <1>1, <1>3, <2>5, <2>6, <2>7 DEF ConfigUse
<1>7. QED
  BY <1>5, <1>6

(* Other people's changes and failing fetches take the user's word away,   *)
(* and leave what he has in flight.                                        *)
LEMMA ConfigTroubleUse ==
    ASSUME ConfigUse, ConfigInv', Config!FailFetch \/ Config!OtherEdit
    PROVE  ConfigUse'
<1>1. /\ UNCHANGED <<calls, habit, page, dialog, editor, form>>
      /\ troubles' \cap {"edit", "fetch"} # {}
  BY DEF Config!FailFetch, Config!OtherEdit, Config!pageVars, Config!Trouble
<1>2. /\ query'.data = query.data /\ query'.fetch \in {"idle", query.fetch}
      /\ query'.fetch = "answered" => query'.answer = query.answer
  <2>1. IsEntry(query) /\ (query' = query \/ query' = Cache!Failed(query))
    BY OneCache DEF Config!FailFetch, Config!OtherEdit, ConfigUse, ConfigInv
  <2>2. QED
    BY <2>1 DEF IsEntry, Cache!Failed
<1>3. server' \in Config!Config
  <2>1. CASE Config!FailFetch
    BY <2>1 DEF Config!FailFetch, ConfigUse, ConfigType
  <2>2. CASE Config!OtherEdit
    <3>1. PICK i \in 1 .. Config!Len(server.metrics) :
              \E k \in {"delete", "enable", "disable"} :
                  server' = Config!Changed(server, [kind |-> k, index |-> i])
      BY <2>2 DEF Config!OtherEdit
    <3>2. PICK k \in {"delete", "enable", "disable"} :
              server' = Config!Changed(server, [kind |-> k, index |-> i])
      BY <3>1
    <3>3. PICK c : c = [kind |-> k, index |-> i]
      OBVIOUS
    <3>4. server \in Config!Config /\ i \in Nat
      BY DEF ConfigUse, ConfigType, Config!Config
    <3>5. /\ c.kind = k /\ c.index = i /\ k \in Config!InPlace
          /\ k \notin {"create", "update"}
      BY <3>3 DEF Config!InPlace, Config!ByIndex
    <3>6. QED
      BY <3>2, <3>3, <3>4, <3>5, ChangedConfig
  <2>3. QED
    BY <2>1, <2>2
<1>4. ConfigType' /\ RowsAreShown'
  BY <1>1, <1>2, <1>3 DEF ConfigUse, ConfigType, FormIsFilled, RowsAreShown, Row
<1>5. habit = "waits" => CallsAreShown'
  <2>1. \A c : CallIsShown(c) => CallIsShown(c)'
    BY <1>1, <1>2 DEF CallIsShown, EditsRow
  <2>2. QED
    BY <1>1, <1>2, <2>1 DEF ConfigUse, CallsAreShown, SingleCall, Config!Used
<1>6. QED
  BY <1>1, <1>4, <1>5 DEF ConfigUse

LEMMA ConfigUseKept == ConfigUse /\ [Config!Next]_(Config!vars) => ConfigUse'
<1> SUFFICES ASSUME ConfigUse, [Config!Next]_(Config!vars) PROVE ConfigUse'
  OBVIOUS
<1>1. ConfigInv'
  BY ConfigKept DEF ConfigUse
<1>2. CASE UNCHANGED Config!vars
  <2>1. /\ UNCHANGED <<server, query, calls, missed, troubles, habit>>
        /\ UNCHANGED <<page, dialog, editor, form>>
    BY <1>2 DEF Config!vars
  <2>2. ConfigType' /\ RowsAreShown'
    BY <2>1 DEF ConfigUse, ConfigType, FormIsFilled, RowsAreShown, Row
  <2>3. \A c : CallIsShown(c) => CallIsShown(c)'
    BY <2>1 DEF CallIsShown, EditsRow
  <2>4. CallsAreShown => CallsAreShown'
    BY <2>1, <2>3 DEF CallsAreShown, SingleCall, Config!Used
  <2>5. SettingsAgree => SettingsAgree'
    BY <2>1 DEF SettingsAgree, Agree, Saved
  <2>6. MetricsAgree => MetricsAgree'
    BY <2>1 DEF MetricsAgree, EditsRow, SuccessIsToCome, Saved
  <2>7. QED
    BY <1>1, <2>1, <2>2, <2>4, <2>5, <2>6 DEF ConfigUse
<1>3. ASSUME NEW c \in calls, NEW broken \in BOOLEAN, Config!Handle(c, broken)
      PROVE  ConfigUse'
  BY <1>1, <1>3, ConfigHandleUse
<1>4. ASSUME NEW c \in calls,
             Config!ApplyRead(c) \/ Config!ApplyValidate(c) \/ Config!Deliver(c)
      PROVE  ConfigUse'
  BY <1>1, <1>4, ConfigApplyUse, ConfigDeliverUse
<1>5. TRUE \in BOOLEAN /\ FALSE \in BOOLEAN
  OBVIOUS
<1>6. QED
  BY <1>1, <1>2, <1>3, <1>4, <1>5, ConfigUserUse, ConfigFetchUse, ConfigTroubleUse,
     ReloadUse, Zenon
     DEF Config!Next, Config!Fetch, Config!Serve

(* A call is handled by a step of its own.                                 *)
LEMMA ConfigHandlers ==
    ASSUME ConfigUse, [Config!Next]_(Config!vars), habit = "waits",
           NEW c \in calls, Config!Handled(c)
    PROVE  \/ \E broken \in BOOLEAN : Config!Handle(c, broken)
           \/ Config!ApplyRead(c) \/ Config!ApplyValidate(c)
<1>1. calls = {c} /\ c \notin calls' /\ calls' # {}
  BY DEF ConfigUse, CallsAreShown, SingleCall, Config!Handled
<1>2. ~Config!User
  <2>1. Config!User => calls \subseteq calls'
    BY DEF Config!User, Config!Toggle, Config!AskDelete, Config!Edit, Config!CancelDelete,
           Config!ConfirmDelete, Config!Add, Config!CancelEdit, Config!SaveMetric,
           Config!SaveAndApply, Config!ClearInterval, Config!SaveSettings, Config!Open,
           Config!Look, Config!Click
  <2>2. QED
    BY <1>1, <2>1
<1>3. /\ ~Config!Fetch /\ ~Config!FailFetch /\ ~Config!OtherEdit
      /\ ~UNCHANGED Config!vars
  BY <1>1 DEF Config!Fetch, Config!AnswerFetch, Config!ArriveFetch, Config!FailFetch,
              Config!OtherEdit, Config!vars
<1>4. \A p : ~Config!Reload(p)
  BY <1>1 DEF Config!Reload, Config!Quiet
<1>5. ~Config!Deliver(c)
  BY <1>1 DEF Config!Deliver
<1>6. TRUE \in BOOLEAN /\ FALSE \in BOOLEAN
  OBVIOUS
<1>7. \E d \in calls : \/ \E broken \in BOOLEAN : Config!Handle(d, broken)
                       \/ Config!ApplyRead(d) \/ Config!ApplyValidate(d) \/ Config!Deliver(d)
  BY <1>2, <1>3, <1>4, <1>6, Zenon DEF Config!Next, Config!Serve
<1>8. QED
  BY <1>1, <1>5, <1>7, Zenon

(* A user of the configuration pages who waits and is alone hits the rows  *)
(* that are shown (deletes, switches and edits go by index), saves of the  *)
(* settings the page has fields for only those he typed, and changes       *)
(* nothing by "save and apply": for any metrics and any number of calls,   *)
(* with refused changes in between.  The settings' page has no field for   *)
(* prometheus.url, and a save of the settings removes it.                  *)
THEOREM ConfigCallsHitTheShown == Spec => ConfigUseIsSafe
<1> DEFINE Inv == open = "config" => ConfigUse
<1>1. Init => Inv
  BY ConfigSession, ConfigUseBegins
<1>2. Inv /\ [Next]_vars => Inv'
  BY OpenStays, ConfigSession, ConfigUseKept
<1>3. ASSUME ConfigUse, [Config!Next]_(Config!vars) PROVE Config!UseIsSafe
  <2> SUFFICES ASSUME habit = "waits", troubles \cap {"edit", "fetch"} = {}, ~missed,
                      NEW c \in calls, Config!Handled(c)
               PROVE  Config!HitsWhatIsShown(c)
    BY Zenon DEF Config!UseIsSafe
  <2>1. ConfigType /\ CallsAreShown /\ SettingsAgree /\ MetricsAgree
    BY <1>3 DEF ConfigUse
  <2>2. calls = {c} /\ query.fetch = "idle" /\ Config!Used
    BY <2>1 DEF CallsAreShown, SingleCall
  <2>3. CASE Config!ApplyRead(c) \/ Config!ApplyValidate(c)
    <3>1. c.kind = "apply" /\ server' = server
      BY <2>1, <2>3 DEF ConfigType, Config!ApplyRead, Config!ApplyValidate
    <3>2. QED
      BY <3>1 DEF Config!HitsWhatIsShown, Config!ByIndex
  <2>4. ASSUME NEW broken \in BOOLEAN, Config!Handle(c, broken)
        PROVE  Config!HitsWhatIsShown(c)
    <3>1. /\ c.phase \in {"sent", "put"}
          /\ c.kind \in Config!InPlace => \A f \in AllFields : server'[f] = server[f]
          /\ c.kind \notin Config!InPlace => server' \in {server, c.config}
      BY <1>3, <2>4, ConfigHandled
    <3>2. ~SuccessIsToCome /\ ~Saved("settings") /\ ~Saved("update")
      BY <2>2, <3>1 DEF SuccessIsToCome, Saved
    <3>3. query.data = server
      <4>1. Fresh(query, server, Config!Used)
        BY <1>3, <3>2, Zenon DEF ConfigUse, ConfigInv
      <4>2. QED
        BY <2>2, <4>1 DEF Fresh
    <3>4. CASE c.kind = "apply"
      <4>1. server' = server
        BY <2>1, <3>1, <3>4 DEF ConfigType, SettingsAgree, Config!InPlace, Config!ByIndex
      <4>2. QED
        BY <3>4, <4>1 DEF Config!HitsWhatIsShown, Config!ByIndex
    <3>5. CASE c.kind # "apply"
      <4>1. CallIsShown(c)
        BY <2>1, <3>1, <3>5 DEF ConfigType, CallsAreShown
      <4>2. CASE c.kind \in {"enable", "disable", "delete"}
        BY <3>1, <3>3, <4>1, <4>2
           DEF CallIsShown, Config!HitsWhatIsShown, Config!LeftAlone, AllFields,
               Config!InPlace, Config!ByIndex
      <4>3. CASE c.kind = "update"
        <5>1. EditsRow /\ editor.index = c.index /\ editor.metric.name = c.row
          BY <4>1, <4>3 DEF CallIsShown
        <5>2. Config!NothingRefusedStays =>
                  /\ c.index <= Config!Len(server.metrics)
                  /\ server.metrics[c.index].name = c.row
          BY <2>1, <3>2, <5>1 DEF MetricsAgree, Config!NothingRefusedStays
        <5>3. \A f \in Config!LeftAlone(c) : server'[f] = server[f]
          BY <3>1, <4>3 DEF Config!LeftAlone, AllFields, Config!InPlace, Config!ByIndex
        <5>4. c.kind # "settings" /\ c.kind # "apply"
          BY <4>3
        <5>5. QED
          BY <4>3, <5>2, <5>3, <5>4, Zenon DEF Config!HitsWhatIsShown
      <4>4. CASE c.kind = "settings"
        <5>1. /\ page = "settings" /\ form.typed = c.row /\ c.config.metrics = server.metrics
              /\ \A f \in Config!Fields : c.config[f] = form[f]
          BY <3>3, <4>1, <4>4 DEF CallIsShown
        <5>2. query.data # None
          BY <2>1 DEF CallsAreShown
        <5>3. \A f \in Config!Fields \ c.row : form[f] = server[f]
          BY <2>1, <5>1, <5>2 DEF SettingsAgree
        <5>4. server' \in {server, c.config}
          BY <3>1, <4>4 DEF Config!InPlace, Config!ByIndex
        <5>5. /\ server'.metrics = server.metrics
              /\ \A f \in Config!Fields \ c.row : server'[f] = server[f]
          BY <5>1, <5>3, <5>4
        <5>6. QED
          BY <4>4, <5>5 DEF Config!HitsWhatIsShown, Config!LeftAlone, Config!ByIndex
      <4>5. CASE c.kind = "create"
        BY <3>1, <4>5 DEF Config!HitsWhatIsShown, Config!LeftAlone, AllFields,
                         Config!InPlace, Config!ByIndex
      <4>6. QED
        BY <2>1, <3>5, <4>2, <4>3, <4>4, <4>5
           DEF ConfigType, Config!InPlace, Config!ByIndex
    <3>6. QED
      BY <3>4, <3>5
  <2>5. QED
    BY <1>3, <2>3, <2>4, ConfigHandlers
<1>4. Inv /\ [Next]_vars => [open = "config" => Config!UseIsSafe]_vars
  BY <1>3, ConfigSession
<1>5. QED
  BY <1>1, <1>2, <1>4, PTL DEF Spec, ConfigUseIsSafe

-----------------------------------------------------------------------------
(* The types of all pages. *)

(* The chat. *)
LEMMA ChatTyped ==
    ASSUME ChatInv, MessagesInv
    PROVE  Chat!TypeOK
<1>1. Threads \subseteq {None} \cup Nat /\ Threads = {None} \cup 1 .. clicks
  BY DEF Threads, MessagesInv
<1>2. ASSUME NEW said \in Chat!Seq(ChatMessage)
      PROVE  said \in Chat!Messages
  <2>1. PICK M : M = [role : Chat!Roles, n : Nat, parts : Chat!Seq(Nat \X Nat),
                      streaming : BOOLEAN]
    OBVIOUS
  <2>2. ChatMessage \subseteq M
    BY <2>1 DEF ChatMessage
  <2>3. said \in Chat!Seq(M)
    BY <2>2, SmallerLists
  <2>4. QED
    BY <2>1, <2>3 DEF Chat!Messages
<1>3. /\ messages \in Chat!Seq(ChatMessage) /\ thread \in Threads
      /\ {stored, storing} \subseteq {None} \cup ChatHistory /\ controller \in Threads
  BY DEF MessagesInv, Shown, PageState
<1>4. \A h \in {stored, storing} \ {None} :
          h \in Chat!Histories /\ Chat!Len(h.messages) <= MaxStored
  BY <1>1, <1>2, <1>3 DEF ChatHistory, Chat!Histories
<1>5. \A r \in requests :
          r.n <= clicks /\ r.visit <= visit /\ r.lines <= Chat!Lines * Chat!Len(r.script)
  BY DEF ChatInv, MessagesInv, OfReader
<1>6. loading \in BOOLEAN
  BY DEF ChatInv
<1>7. QED
  BY <1>1, <1>2, <1>3, <1>4, <1>5, <1>6, Zenon DEF Chat!TypeOK

(* The form of a data source. *)
SettingsAreTyped == kind \in SourceForm!Kinds /\ settings \in SourceForm!Settings(kind)

LEMMA OneKindOfSettings ==
    ASSUME NEW k, NEW s
    PROVE  /\ SourceForm!Kinds = Sources!Kinds
           /\ SourceForm!Settings(k) = Sources!Settings(k)
           /\ SourceForm!DefaultSettings(k) = Sources!DefaultSettings(k)
           /\ SourceForm!Edits(k, s) = Sources!Edits(k, s)
<1>1. /\ SourceForm!Kinds = Sources!Kinds
      /\ SourceForm!Settings(k) = Sources!Settings(k)
  BY Zenon DEF SourceForm!Kinds, Sources!Kinds, SourceForm!Settings, Sources!Settings,
     SourceForm!Mains, Sources!Mains, SourceForm!Headers, Sources!Headers
<1>2. SourceForm!DefaultSettings(k) = Sources!DefaultSettings(k)
  BY Zenon DEF SourceForm!DefaultSettings, Sources!DefaultSettings
<1>3. SourceForm!Edits(k, s) = Sources!Edits(k, s)
  <2>1. /\ SourceForm!MySQLEdits(s) = Sources!MySQLEdits(s)
        /\ SourceForm!IoTDBEdits(s) = Sources!IoTDBEdits(s)
        /\ SourceForm!RedisEdits(s) = Sources!RedisEdits(s)
        /\ SourceForm!RestAPIEdits(s) = Sources!RestAPIEdits(s)
    BY Zenon
       DEF SourceForm!MySQLEdits, Sources!MySQLEdits, SourceForm!IoTDBEdits,
           Sources!IoTDBEdits, SourceForm!RedisEdits, Sources!RedisEdits,
           SourceForm!RestAPIEdits, Sources!RestAPIEdits, SourceForm!Set, Sources!Set,
           SourceForm!AuthKind, Sources!AuthKind, SourceForm!AuthChosen,
           Sources!AuthChosen, SourceForm!AuthTyped, Sources!AuthTyped
  <2>2. QED
    BY <2>1, Zenon DEF SourceForm!Edits, Sources!Edits
<1>4. QED
  BY <1>1, <1>2, <1>3

LEMMA SourceFormTyped ==
    /\ SourceForm!Init => SettingsAreTyped
    /\ SettingsAreTyped /\ [SourceForm!Next]_(SourceForm!vars) => SettingsAreTyped'
<1>1. ASSUME SourceForm!Init PROVE SettingsAreTyped
  <2>1. kind \in Sources!Kinds
    BY <1>1, OneKindOfSettings, Zenon DEF SourceForm!Init
  <2>2. PICK s : s = Sources!DefaultSettings(kind)
    OBVIOUS
  <2>3. s \in Sources!Settings(kind)
    BY <2>1, <2>2, DefaultSettingsType
  <2>4. settings = s \/ settings = [s EXCEPT !.main = "old"]
    BY <1>1, <2>2, OneKindOfSettings, Zenon DEF SourceForm!Init
  <2>5. [s EXCEPT !.main = "old"] \in Sources!Settings(kind)
    BY <2>1, <2>3 DEF Sources!Settings, Sources!Kinds, Sources!Mains
  <2>6. QED
    BY <2>1, <2>3, <2>4, <2>5, OneKindOfSettings, Zenon DEF SettingsAreTyped
<1>2. ASSUME SettingsAreTyped, SourceForm!Type
      PROVE  SettingsAreTyped'
  <2>1. SourceForm!Edits(kind, settings) = Sources!Edits(kind, settings)
    BY OneKindOfSettings
  <2>0. PICK e \in SourceForm!Edits(kind, settings) :
            settings' = [settings EXCEPT ![e.field] = e.value]
    BY <1>2, Zenon DEF SourceForm!Type
  <2>2. kind \in Sources!Kinds /\ settings \in Sources!Settings(kind) /\ kind' = kind
    BY <1>2, OneKindOfSettings, Zenon DEF SettingsAreTyped, SourceForm!Type
  <2>3. settings' \in Sources!Settings(kind)
    BY <2>0, <2>1, <2>2, EditKeepsSettings, Zenon
  <2>4. QED
    BY <2>2, <2>3, OneKindOfSettings, Zenon DEF SettingsAreTyped
<1>3. ASSUME SettingsAreTyped, UNCHANGED <<kind, settings>>
      PROVE  SettingsAreTyped'
  BY <1>3 DEF SettingsAreTyped
<1>4. SourceForm!Next \/ UNCHANGED SourceForm!vars =>
          SourceForm!Type \/ UNCHANGED <<kind, settings>>
  BY DEF SourceForm!Next, SourceForm!vars, SourceForm!StartTest, SourceForm!Answer,
         SourceForm!TestAnswered, SourceForm!TestFailed, SourceForm!Take, SourceForm!Close
<1>5. QED
  BY <1>1, <1>2, <1>3, <1>4

-----------------------------------------------------------------------------
(* The form of a metric. *)

LabelSets == UNION {[K -> {"", "value"}] : K \in SUBSET Metric!Keys}

MetricFields(m) ==
    /\ m.source \in Metric!Sources
    /\ m \in Metric!MetricsOf(m.source)

MetricTyped ==
    /\ MetricFields(metric)
    /\ testing \in BOOLEAN /\ confirming \in BOOLEAN /\ saving \in BOOLEAN
    /\ started \in Nat
    /\ \A t \in tests : t.n \in 1 .. started
    /\ {verdict, response} \subseteq {None} \cup 1 .. started

LEMMA LabelSet ==
    ASSUME NEW f, NEW K, K \subseteq Metric!Keys, f \in [K -> {"", "value"}]
    PROVE  f \in LabelSets
BY DEF LabelSets

(* Labels stay labels, however a key or a value is changed.                *)
LEMMA LabelsStayLabels ==
    ASSUME NEW labels \in LabelSets
    PROVE  /\ \A key \in DOMAIN labels, new \in Metric!Keys :
                  Metric!Renamed(labels, key, new) \in LabelSets
           /\ \A key \in Metric!Keys, value \in {"", "value"} :
                  Metric!Labelled(labels, key, value) \in LabelSets
           /\ \A K \in SUBSET (DOMAIN labels) : Metric!Restrict(labels, K) \in LabelSets
           /\ DOMAIN labels \subseteq Metric!Keys
<1>1. PICK K \in SUBSET Metric!Keys : labels \in [K -> {"", "value"}]
  BY DEF LabelSets
<1>2. DOMAIN labels = K
  BY <1>1
<1>3. ASSUME NEW key \in K, NEW new \in Metric!Keys
      PROVE  Metric!Renamed(labels, key, new) \in LabelSets
  <2>1. Metric!Renamed(labels, key, new) \in [(K \ {key}) \cup {new} -> {"", "value"}]
    BY <1>1, <1>2, <1>3 DEF Metric!Renamed
  <2>2. (K \ {key}) \cup {new} \subseteq Metric!Keys
    BY <1>1, <1>3
  <2>3. QED
    BY <2>1, <2>2, LabelSet
<1>4. ASSUME NEW key \in Metric!Keys, NEW value \in {"", "value"}
      PROVE  Metric!Labelled(labels, key, value) \in LabelSets
  <2>1. Metric!Labelled(labels, key, value) \in [K \cup {key} -> {"", "value"}]
    BY <1>1, <1>2, <1>4 DEF Metric!Labelled
  <2>2. K \cup {key} \subseteq Metric!Keys
    BY <1>1, <1>4
  <2>3. QED
    BY <2>1, <2>2, LabelSet
<1>5. ASSUME NEW L \in SUBSET K
      PROVE  Metric!Restrict(labels, L) \in LabelSets
  <2>1. Metric!Restrict(labels, L) \in [L -> {"", "value"}]
    BY <1>1, <1>2, <1>5 DEF Metric!Restrict
  <2>2. L \subseteq Metric!Keys
    BY <1>1, <1>5
  <2>3. QED
    BY <2>1, <2>2, LabelSet
<1>6. QED
  BY <1>1, <1>2, <1>3, <1>4, <1>5

LEMMA LabelEditsAreOfLabels ==
    ASSUME NEW m, m.labels \in LabelSets, NEW e \in Metric!LabelEdits(m)
    PROVE  \E l \in LabelSets : e = [m EXCEPT !.labels = l]
<1>1. PICK ls : ls = m.labels
  OBVIOUS
<1>2. ls \in LabelSets /\ DOMAIN ls \subseteq Metric!Keys /\ "" \in Metric!Keys
  BY <1>1, LabelsStayLabels DEF Metric!Keys
<1>3. PICK l \in Metric!Relabelled(ls) : e = [m EXCEPT !.labels = l]
  BY <1>1 DEF Metric!LabelEdits
<1>4. PICK A : A = {Metric!Renamed(ls, r[1], r[2]) : r \in (DOMAIN ls) \X Metric!Keys}
  OBVIOUS
<1>5. PICK B : B = {Metric!Labelled(ls, key, "value") : key \in DOMAIN ls}
  OBVIOUS
<1>6. PICK C : C = {Metric!Restrict(ls, DOMAIN ls \ {key}) : key \in DOMAIN ls}
  OBVIOUS
<1>7. Metric!Relabelled(ls) = A \cup B \cup C \cup {Metric!Labelled(ls, "", "")}
  BY <1>4, <1>5, <1>6, Zenon DEF Metric!Relabelled
<1>8. A \subseteq LabelSets
  <2>1. ASSUME NEW r \in (DOMAIN ls) \X Metric!Keys
        PROVE  Metric!Renamed(ls, r[1], r[2]) \in LabelSets
    BY <1>2, LabelsStayLabels
  <2>2. QED
    BY <1>4, <2>1
<1>9. B \subseteq LabelSets
  BY <1>2, <1>5, LabelsStayLabels
<1>10. C \subseteq LabelSets
  <2>1. ASSUME NEW key \in DOMAIN ls
        PROVE  Metric!Restrict(ls, DOMAIN ls \ {key}) \in LabelSets
    BY <1>2, LabelsStayLabels
  <2>2. QED
    BY <1>6, <2>1
<1>11. Metric!Labelled(ls, "", "") \in LabelSets
  BY <1>2, LabelsStayLabels
<1>12. QED
  BY <1>3, <1>7, <1>8, <1>9, <1>10, <1>11

(* An edit leaves a connection and a result field such as its source has.  *)
LEMMA EditKeepsMetric ==
    ASSUME NEW m, MetricFields(m), NEW e \in Metric!Edits(m)
    PROVE  MetricFields(e)
<1>1. PICK src : src = m.source
  OBVIOUS
<1>2. src \in Metric!Sources /\ m \in Metric!MetricsOf(src)
  BY <1>1 DEF MetricFields
<1>3. PICK C, F, Q, T, B :
          /\ C = Metric!Named(src) \cup {None} /\ F = Metric!FieldsOf(src) \cup {None}
          /\ Q = Metric!Texts /\ T = Metric!Types /\ B = LabelSets
  OBVIOUS
<1> DEFINE R == [source: {src}, connection: C, result_field: F, query: Q, text: Q,
                 type: T, labels: B, buckets: BOOLEAN, objectives: BOOLEAN]
<1>4. R = Metric!MetricsOf(src)
  BY <1>3, Zenon DEF Metric!MetricsOf, LabelSets
<1>5. m \in R
  BY <1>2, <1>4
<1>6. ASSUME e \in R PROVE MetricFields(e)
  <2>1. e.source = src
    BY <1>6
  <2>2. QED
    BY <1>2, <1>4, <1>6, <2>1 DEF MetricFields
<1>7. CASE e \in Metric!TextEdits(m)
  <2>1. {"", "new"} \subseteq Q
    BY <1>3 DEF Metric!Texts
  <2>2. e \in R
    BY <1>5, <1>7, <2>1 DEF Metric!TextEdits
  <2>3. QED
    BY <1>6, <2>2
<1>8. CASE e \in Metric!TypeEdits(m)
  <2>1. e \in R
    BY <1>3, <1>5, <1>8 DEF Metric!TypeEdits
  <2>2. QED
    BY <1>6, <2>1
<1>9. CASE e \in Metric!ConnectionEdits(m)
  <2>1. PICK c \in Metric!Connections(src) : e = [m EXCEPT !.connection = c]
    BY <1>1, <1>9 DEF Metric!ConnectionEdits
  <2>2. c \in C
    BY <1>3, <2>1 DEF Metric!Named
  <2>3. e \in R
    BY <1>5, <2>1, <2>2
  <2>4. QED
    BY <1>6, <2>3
<1>10. CASE e \in Metric!FieldEdits(m)
  <2>1. PICK f : /\ e = [m EXCEPT !.result_field = f]
                 /\ f \in IF src \notin {"iotdb", "restapi"} THEN {}
                          ELSE {None, "typed"} \cup
                               IF src = "restapi" /\ response # None THEN {"picked"} ELSE {}
    BY <1>1, <1>10 DEF Metric!FieldEdits
  <2>2. f \in F
    BY <1>3, <2>1 DEF Metric!FieldsOf
  <2>3. e \in R
    BY <1>5, <2>1, <2>2
  <2>4. QED
    BY <1>6, <2>3
<1>11. CASE e \in Metric!LabelEdits(m)
  <2>1. m.labels \in LabelSets
    BY <1>3, <1>5
  <2>2. PICK l \in LabelSets : e = [m EXCEPT !.labels = l]
    BY <1>11, <2>1, LabelEditsAreOfLabels
  <2>4. l \in B
    BY <1>3, <2>2
  <2>5. e \in R
    BY <1>5, <2>2, <2>4
  <2>6. QED
    BY <1>6, <2>5
<1>12. CASE e \in Metric!NumberEdits(m)
  <2>1. \E b \in BOOLEAN : e = [m EXCEPT !.buckets = b] \/ e = [m EXCEPT !.objectives = b]
    BY <1>12, Zenon DEF Metric!NumberEdits
  <2>2. e \in R
    BY <1>5, <2>1
  <2>3. QED
    BY <1>6, <2>2
<1>13. CASE e \in Metric!SourceEdits(m)
  <2>1. PICK t \in Metric!Sources :
            e = [m EXCEPT !.source = t, !.connection = None, !.result_field = None]
    BY <1>13 DEF Metric!SourceEdits
  <2>2. e.source = t
    BY <1>5, <2>1
  <2>3. PICK D, G : D = Metric!Named(t) \cup {None} /\ G = Metric!FieldsOf(t) \cup {None}
    OBVIOUS
  <2>4. e \in [source: {t}, connection: D, result_field: G, query: Q, text: Q,
               type: T, labels: B, buckets: BOOLEAN, objectives: BOOLEAN]
    BY <1>5, <2>1, <2>3
  <2>5. e \in Metric!MetricsOf(t)
    BY <1>3, <2>3, <2>4, Zenon DEF Metric!MetricsOf, LabelSets
  <2>6. QED
    BY <2>1, <2>2, <2>5 DEF MetricFields
<1>14. QED
  BY <1>7, <1>8, <1>9, <1>10, <1>11, <1>12, <1>13 DEF Metric!Edits

LEMMA FirstMetrics ==
    ASSUME Metric!Init
    PROVE  MetricFields(metric)
<1>1. PICK B : B = LabelSets
  OBVIOUS
<1>2. <<>> \in LabelSets
  <2>1. <<>> \in [{} -> {"", "value"}]
    OBVIOUS
  <2>2. QED
    BY <2>1, LabelSet
<1>3. [k \in {"key"} |-> "value"] \in LabelSets
  <2>1. [k \in {"key"} |-> "value"] \in [{"key"} -> {"", "value"}]
    OBVIOUS
  <2>2. QED
    BY <2>1, LabelSet DEF Metric!Keys
<1>4. CASE metric = Metric!NewMetric
  <2>1. metric \in [source: {"mysql"}, connection: {None}, result_field: {None},
                    query: {""}, text: {""}, type: {"gauge"}, labels: B,
                    buckets: BOOLEAN, objectives: BOOLEAN]
    BY <1>1, <1>2, <1>4 DEF Metric!NewMetric
  <2>2. metric.source = "mysql"
    BY <2>1
  <2>3. metric \in Metric!MetricsOf("mysql")
    BY <1>1, <2>1 DEF Metric!MetricsOf, LabelSets, Metric!Texts, Metric!Types
  <2>4. QED
    BY <2>2, <2>3 DEF MetricFields, Metric!Sources
<1>5. ASSUME NEW c \in Metric!Named("restapi"),
             metric = [Metric!NewMetric EXCEPT
                           !.source = "restapi", !.connection = c, !.text = "old",
                           !.result_field = "typed", !.query = "old",
                           !.labels = [k \in {"key"} |-> "value"]]
      PROVE  MetricFields(metric)
  <2>1. metric \in [source: {"restapi"}, connection: {c}, result_field: {"typed"},
                    query: {"old"}, text: {"old"}, type: {"gauge"}, labels: B,
                    buckets: BOOLEAN, objectives: BOOLEAN]
    BY <1>1, <1>3, <1>5 DEF Metric!NewMetric
  <2>2. metric.source = "restapi"
    BY <2>1
  <2>3. metric \in Metric!MetricsOf("restapi")
    BY <1>1, <1>5, <2>1
       DEF Metric!MetricsOf, LabelSets, Metric!Texts, Metric!Types, Metric!FieldsOf
  <2>4. QED
    BY <2>2, <2>3 DEF MetricFields, Metric!Sources
<1>6. QED
  BY <1>4, <1>5, Zenon DEF Metric!Init

LEMMA MetricFormTyped ==
    /\ Metric!Init => MetricTyped
    /\ MetricTyped /\ [Metric!Next]_(Metric!vars) => MetricTyped'
    /\ MetricTyped => Metric!TypeOK
<1>1. ASSUME Metric!Init PROVE MetricTyped
  <2>1. testing \in BOOLEAN /\ confirming \in BOOLEAN /\ saving \in BOOLEAN
    BY <1>1, Zenon DEF Metric!Init
  <2>2. started = 0 /\ tests = {} /\ verdict = None /\ response = None
    BY <1>1, Zenon DEF Metric!Init
  <2>3. QED
    BY <1>1, <2>1, <2>2, FirstMetrics DEF MetricTyped
<1>2. ASSUME MetricTyped, Metric!Type
      PROVE  MetricTyped'
  <2>1. metric' \in Metric!Edits(metric)
    BY <1>2, Zenon DEF Metric!Type
  <2>2. MetricFields(metric')
    BY <1>2, <2>1, EditKeepsMetric DEF MetricTyped
  <2>3. UNCHANGED <<testing, confirming, saving, started, tests, verdict, response>>
    BY <1>2, Zenon DEF Metric!Type, Metric!answers
  <2>4. QED
    BY <1>2, <2>2, <2>3, Zenon DEF MetricTyped, MetricFields, Metric!MetricsOf
<1>3. ASSUME MetricTyped, NEW t \in {"query", "restapi"}, Metric!Start(t),
             {verdict', response'} \subseteq {None, verdict, response},
             UNCHANGED <<metric, confirming, saving>>
      PROVE  MetricTyped'
  <2>1. /\ started' = started + 1 /\ testing' = TRUE
        /\ tests' = tests \cup {[n |-> started', kind |-> t]}
    BY <1>3, Zenon DEF Metric!Start
  <2>2. started' \in Nat /\ 1 .. started \subseteq 1 .. started' /\ started' \in 1 .. started'
    BY <1>3, <2>1 DEF MetricTyped
  <2>3. \A u \in tests' : u.n \in 1 .. started'
    BY <1>3, <2>1, <2>2 DEF MetricTyped
  <2>4. {verdict', response'} \subseteq {None} \cup 1 .. started'
    BY <1>3, <2>2 DEF MetricTyped
  <2>5. testing' \in BOOLEAN /\ confirming' \in BOOLEAN /\ saving' \in BOOLEAN
    BY <1>3, <2>1, Zenon DEF MetricTyped
  <2>6. MetricFields(metric')
    BY <1>3 DEF MetricTyped
  <2>7. QED
    BY <2>2, <2>3, <2>4, <2>5, <2>6, Zenon DEF MetricTyped, MetricFields, Metric!MetricsOf
<1>4. ASSUME MetricTyped, Metric!PreviewQuery
      PROVE  MetricTyped'
  BY <1>3, <1>4, Zenon DEF Metric!PreviewQuery
<1>5. ASSUME MetricTyped, Metric!PreviewRestAPI
      PROVE  MetricTyped'
  <2>1. UNCHANGED <<metric, confirming, saving>>
    BY <1>5, Zenon DEF Metric!PreviewRestAPI
  <2>2. CASE Metric!Start("restapi") /\ response' = None /\ UNCHANGED verdict
    BY <1>3, <1>5, <2>1, <2>2
  <2>3. CASE /\ started' = started + 1 /\ verdict' = started'
             /\ UNCHANGED <<testing, tests, response>>
    <3>1. started' \in Nat /\ 1 .. started \subseteq 1 .. started' /\ started' \in 1 .. started'
      BY <1>5, <2>3 DEF MetricTyped
    <3>2. \A u \in tests' : u.n \in 1 .. started'
      BY <1>5, <2>3, <3>1 DEF MetricTyped
    <3>3. {verdict', response'} \subseteq {None} \cup 1 .. started'
      BY <1>5, <2>3, <3>1 DEF MetricTyped
    <3>4. testing' \in BOOLEAN /\ confirming' \in BOOLEAN /\ saving' \in BOOLEAN
      BY <1>5, <2>1, <2>3, Zenon DEF MetricTyped
    <3>5. MetricFields(metric')
      BY <1>5, <2>1 DEF MetricTyped
    <3>6. QED
      BY <3>1, <3>2, <3>3, <3>4, <3>5, Zenon DEF MetricTyped, MetricFields, Metric!MetricsOf
  <2>4. QED
    BY <1>5, <2>2, <2>3, Zenon DEF Metric!PreviewRestAPI
<1>6. ASSUME MetricTyped, NEW t \in tests, Metric!Previewed(t)
      PROVE  MetricTyped'
  <2>1. /\ UNCHANGED <<metric, started, confirming, saving>> /\ tests' = tests \ {t}
        /\ testing' \in {testing, FALSE}
        /\ verdict' \in {verdict, t.n} /\ response' \in {response, t.n}
    BY <1>6, Zenon DEF Metric!Previewed
  <2>2. {verdict', response'} \subseteq {None} \cup 1 .. started'
    BY <1>6, <2>1 DEF MetricTyped
  <2>3. started' \in Nat /\ \A u \in tests' : u.n \in 1 .. started'
    BY <1>6, <2>1 DEF MetricTyped
  <2>4. testing' \in BOOLEAN /\ confirming' \in BOOLEAN /\ saving' \in BOOLEAN
    BY <1>6, <2>1, Zenon DEF MetricTyped
  <2>5. MetricFields(metric')
    BY <1>6, <2>1 DEF MetricTyped
  <2>6. QED
    BY <2>2, <2>3, <2>4, <2>5, Zenon DEF MetricTyped, MetricFields, Metric!MetricsOf
<1>7. ASSUME MetricTyped, UNCHANGED <<metric, testing, tests, started, verdict, response>>,
             confirming' \in BOOLEAN, saving' \in BOOLEAN
      PROVE  MetricTyped'
  BY <1>7, Zenon DEF MetricTyped, MetricFields, Metric!MetricsOf
<1>8. ASSUME MetricTyped, Metric!Submit \/ Metric!Cancel \/ UNCHANGED Metric!vars
      PROVE  MetricTyped'
  <2>1. UNCHANGED <<metric, testing, tests, started, verdict, response>>
    BY <1>8, Zenon DEF Metric!Submit, Metric!Cancel, Metric!answers, Metric!vars
  <2>2. confirming' \in {confirming, TRUE} /\ saving' = saving
    BY <1>8, Zenon DEF Metric!Submit, Metric!Cancel, Metric!vars
  <2>3. confirming' \in BOOLEAN /\ saving' \in BOOLEAN
    BY <1>8, <2>2, Zenon DEF MetricTyped
  <2>4. QED
    BY <1>7, <1>8, <2>1, <2>3
<1>9. ASSUME MetricTyped, NEW confirmed \in BOOLEAN, Metric!AnswerDialog(confirmed)
      PROVE  MetricTyped'
  <2>1. UNCHANGED <<metric, testing, tests, started, verdict, response>>
    BY <1>9, Zenon DEF Metric!AnswerDialog, Metric!answers
  <2>2. confirming' \in BOOLEAN /\ saving' \in BOOLEAN
    BY <1>9, Zenon DEF Metric!AnswerDialog
  <2>3. QED
    BY <1>7, <1>9, <2>1, <2>2
<1>10. ASSUME MetricTyped, NEW ok \in BOOLEAN, Metric!SaveAnswered(ok)
      PROVE  MetricTyped'
  <2>1. UNCHANGED <<metric, testing, tests, started, verdict, response>>
    BY <1>10, Zenon DEF Metric!SaveAnswered, Metric!answers
  <2>2. confirming' \in {confirming, FALSE} /\ saving' = FALSE
    BY <1>10, Zenon DEF Metric!SaveAnswered
  <2>3. confirming' \in BOOLEAN /\ saving' \in BOOLEAN
    BY <1>10, <2>2, Zenon DEF MetricTyped
  <2>4. QED
    BY <1>7, <1>10, <2>1, <2>3
<1>11. MetricTyped => Metric!TypeOK
  BY Zenon DEF MetricTyped, MetricFields, Metric!TypeOK
<1>12. QED
  BY <1>1, <1>2, <1>4, <1>5, <1>6, <1>8, <1>9, <1>10, <1>11, Zenon
     DEF Metric!Next, Metric!User, Metric!Serve

-----------------------------------------------------------------------------
(* The pages of the configuration. *)

(* Whatever happens to an entry, it is one still, and it holds nothing it  *)
(* was not given.                                                          *)
LEMMA EntriesStayEntries ==
    ASSUME NEW D, NEW q \in Cache!Query(D), NEW used
    PROVE  /\ {Cache!EmptyQuery, Cache!Mounted(Cache!EmptyQuery)} \subseteq Cache!Query(D)
           /\ Cache!Mounted(q) \in Cache!Query(D)
           /\ Cache!Invalidated(q, used) \in Cache!Query(D)
           /\ \A v \in D : Cache!Answered(q, v) \in Cache!Query(D)
           /\ Cache!Arrived(q) \in Cache!Query(D)
           /\ Cache!Failed(q) \in Cache!Query(D)
<1>1. Cache!EmptyQuery \in Cache!Query(D)
  BY DEF Cache!Query, Cache!EmptyQuery
<1>2. ASSUME NEW r \in Cache!Query(D)
      PROVE  Cache!Mounted(r) \in Cache!Query(D) /\ Cache!Asked(r) \in Cache!Query(D)
  BY <1>2 DEF Cache!Query, Cache!Mounted, Cache!Asked, Cache!Fetching
<1>3. Cache!Invalidated(q, used) \in Cache!Query(D)
  BY <1>2, Zenon DEF Cache!Invalidated
<1>4. /\ \A v \in D : Cache!Answered(q, v) \in Cache!Query(D)
      /\ Cache!Failed(q) \in Cache!Query(D)
  BY DEF Cache!Query, Cache!Answered, Cache!Failed
<1>5. Cache!Arrived(q) \in Cache!Query(D)
  BY DEF Cache!Query, Cache!Arrived
<1>6. QED
  BY <1>1, <1>2, <1>3, <1>4, <1>5

ConfigTyped ==
    /\ query \in Cache!Query(Config!Config)
    /\ page \in Config!Pages
    /\ dialog # None => dialog.metric \in Config!Metric
    /\ \A c \in calls : c.phase \in {"sent", "get", "validate", "put", "ok", "refused"}
    /\ missed \in BOOLEAN

LEMMA ConfigTypedBegins == Config!Init => ConfigTyped
<1> SUFFICES ASSUME Config!Init PROVE ConfigTyped
  OBVIOUS
<1>1. query = Cache!Mounted(Cache!EmptyQuery) /\ page \in Config!Pages /\ dialog = None
      /\ calls = {}
  BY OneCache DEF Config!Init, Config!Pages
<1>2. missed \in BOOLEAN
  BY Zenon DEF Config!Init
<1>3. query \in Cache!Query(Config!Config)
  BY <1>1 DEF Cache!Query, Cache!Mounted, Cache!EmptyQuery, Cache!Fetching, Cache!Asked
<1>4. QED
  BY <1>1, <1>2, <1>3 DEF ConfigTyped

(* What the user's steps do to the parts that are typed here.              *)
LEMMA ConfigUserTyped ==
    ASSUME ConfigUse, ConfigTyped, Config!User
    PROVE  ConfigTyped'
<1>1. missed' = missed
  BY DEF Config!User, Config!Toggle, Config!AskDelete, Config!Edit, Config!CancelDelete,
         Config!ConfirmDelete, Config!Add, Config!CancelEdit, Config!SaveMetric,
         Config!SaveAndApply, Config!ClearInterval, Config!SaveSettings, Config!Open,
         Config!Look, Config!Click
<1>2. query' = query \/ query' = Cache!Mounted(query)
  BY OneCache
     DEF Config!User, Config!Toggle, Config!AskDelete, Config!Edit, Config!CancelDelete,
         Config!ConfirmDelete, Config!Add, Config!CancelEdit, Config!SaveMetric,
         Config!SaveAndApply, Config!ClearInterval, Config!SaveSettings, Config!Open,
         Config!Look, Config!Click
<1>3. page' = page \/ page' \in Config!Pages
  BY DEF Config!User, Config!Toggle, Config!AskDelete, Config!Edit, Config!CancelDelete,
         Config!ConfirmDelete, Config!Add, Config!CancelEdit, Config!SaveMetric,
         Config!SaveAndApply, Config!ClearInterval, Config!SaveSettings, Config!Open,
         Config!pageVars
<1>4. \/ dialog' = dialog \/ dialog' = None
      \/ \E i \in Config!Rows : dialog' = Config!Row(i)
  BY DEF Config!User, Config!Toggle, Config!AskDelete, Config!Edit, Config!CancelDelete,
         Config!ConfirmDelete, Config!Add, Config!CancelEdit, Config!SaveMetric,
         Config!SaveAndApply, Config!ClearInterval, Config!SaveSettings, Config!Open,
         Config!pageVars
<1>5. \/ calls' = calls
      \/ \E c : c.phase \in {"sent", "get"} /\ calls' = calls \cup {c}
  <2>1. ASSUME Config!Look PROVE calls' = calls
    BY <2>1 DEF Config!Look
  <2>2. ASSUME NEW k PROVE Config!Call(k).phase = "sent" /\ "phase" \in DOMAIN Config!Call(k)
                           /\ "metric" \in DOMAIN Config!Call(k)
    BY DEF Config!Call
  <2>3. ASSUME NEW k, NEW row, NEW m PROVE Config!CallOn(k, row, m).phase = "sent"
    BY <2>2 DEF Config!CallOn
  <2>4. ASSUME NEW c, Config!Click(c) PROVE calls' = calls \cup {c}
    BY <2>4 DEF Config!Click
  <2>5. ASSUME NEW i, Config!Toggle(i) PROVE \E c : c.phase = "sent" /\ Config!Click(c)
    BY <2>3, <2>5 DEF Config!Toggle
  <2>6. ASSUME Config!ConfirmDelete PROVE \E c : c.phase = "sent" /\ Config!Click(c)
    BY <2>3, <2>6 DEF Config!ConfirmDelete
  <2>7. ASSUME NEW m, Config!SaveMetric(m) PROVE \E c : c.phase = "sent" /\ Config!Click(c)
    <3>1. PICK c : c = (IF editor.index = 0 THEN [Config!Call("create") EXCEPT !.metric = m]
                        ELSE Config!CallOn("update", editor, m))
      OBVIOUS
    <3>2. c.phase = "sent"
      BY <2>2, <2>3, <3>1
    <3>3. QED
      BY <2>7, <3>1, <3>2 DEF Config!SaveMetric
  <2>8. ASSUME Config!SaveAndApply PROVE \E c : c.phase = "get" /\ Config!Click(c)
    BY <2>2, <2>8 DEF Config!SaveAndApply
  <2>9. ASSUME NEW fields, Config!SaveSettings(fields)
        PROVE \E c : c.phase = "sent" /\ Config!Click(c)
    <3>1. PICK c : /\ Config!Click(c)
                   /\ \E r, conf : c = [Config!Call("settings") EXCEPT !.row = r, !.config = conf]
      BY <2>9 DEF Config!SaveSettings
    <3>2. c.phase = "sent"
      BY <2>2, <3>1
    <3>3. QED
      BY <3>1, <3>2
  <2>10. QED
    BY <2>1, <2>4, <2>5, <2>6, <2>7, <2>8, <2>9
       DEF Config!User, Config!AskDelete, Config!Edit, Config!CancelDelete, Config!Add,
           Config!CancelEdit, Config!ClearInterval, Config!Open
<1>6. query' \in Cache!Query(Config!Config)
  <2>1. server \in Config!Config
    BY DEF ConfigUse, ConfigType
  <2>2. QED
    BY <1>2, <2>1, EntriesStayEntries DEF ConfigTyped
<1>7. dialog' # None => dialog'.metric \in Config!Metric
  BY <1>4, RowIsShown DEF ConfigTyped
<1>8. missed' \in BOOLEAN
  BY <1>1, Zenon DEF ConfigTyped
<1>9. QED
  BY <1>3, <1>5, <1>6, <1>7, <1>8 DEF ConfigTyped

LEMMA ConfigTypedKept ==
    ConfigUse /\ ConfigTyped /\ [Config!Next]_(Config!vars) => ConfigTyped'
<1> SUFFICES ASSUME ConfigUse, ConfigTyped, [Config!Next]_(Config!vars) PROVE ConfigTyped'
  OBVIOUS
<1>1. server \in Config!Config
  BY DEF ConfigUse, ConfigType
<1>2. \A c \in calls : IsConfigCall(c)
  BY DEF ConfigUse, ConfigInv
<1>3. ASSUME query' \in Cache!Query(Config!Config),
             page' = page \/ page' \in Config!Pages,
             dialog' = dialog \/ dialog' = None,
             \A c \in calls' :
                 c \in calls \/ c.phase \in {"sent", "get", "validate", "put", "ok", "refused"},
             missed' \in BOOLEAN
      PROVE  ConfigTyped'
  BY <1>3 DEF ConfigTyped
<1>4. ASSUME NEW c \in calls, NEW broken, Config!Handle(c, broken)
      PROVE  ConfigTyped'
  <2>1. UNCHANGED <<query, page, dialog>>
    BY <1>4 DEF Config!Handle, Config!pageVars
  <2>2. missed' \in BOOLEAN
    BY <1>4, Zenon DEF Config!Handle
  <2>3. PICK p \in {"ok", "refused"} : calls' = (calls \ {c}) \cup {[c EXCEPT !.phase = p]}
    BY <1>4 DEF Config!Handle, Config!Update
  <2>4. [c EXCEPT !.phase = p].phase = p
    BY <1>2, <1>4 DEF IsConfigCall
  <2>5. QED
    BY <1>3, <2>1, <2>2, <2>3, <2>4 DEF ConfigTyped
<1>5. ASSUME NEW c \in calls, Config!ApplyRead(c) \/ Config!ApplyValidate(c)
      PROVE  ConfigTyped'
  <2>1. UNCHANGED <<query, page, dialog, missed>>
    BY <1>5 DEF Config!ApplyRead, Config!ApplyValidate, Config!pageVars
  <2>2. missed' \in BOOLEAN
    BY <2>1, Zenon DEF ConfigTyped
  <2>3. PICK d : /\ calls' = (calls \ {c}) \cup {d}
                 /\ d.phase \in {"validate", "put", "refused"}
    <3>1. CASE Config!ApplyRead(c)
      <4>1. PICK d : d = [c EXCEPT !.phase = "validate", !.config = server]
        OBVIOUS
      <4>2. calls' = (calls \ {c}) \cup {d}
        BY <3>1, <4>1 DEF Config!ApplyRead, Config!Update
      <4>3. d.phase = "validate"
        BY <1>2, <1>5, <4>1 DEF IsConfigCall
      <4>4. QED
        BY <4>2, <4>3
    <3>2. CASE Config!ApplyValidate(c)
      <4>1. PICK p \in {"put", "refused"} : calls' = (calls \ {c}) \cup {[c EXCEPT !.phase = p]}
        BY <3>2 DEF Config!ApplyValidate, Config!Update
      <4>2. [c EXCEPT !.phase = p].phase = p
        BY <1>2, <1>5 DEF IsConfigCall
      <4>3. QED
        BY <4>1, <4>2
    <3>3. QED
      BY <1>5, <3>1, <3>2
  <2>4. QED
    BY <1>3, <2>1, <2>2, <2>3 DEF ConfigTyped
<1>6. ASSUME NEW c \in calls, Config!Deliver(c)
      PROVE  ConfigTyped'
  <2>1. UNCHANGED <<page, dialog>> /\ calls' = calls \ {c}
    BY <1>6 DEF Config!Deliver
  <2>2. missed' \in BOOLEAN
    BY <1>6, Zenon DEF Config!Deliver
  <2>3. query' = query \/ query' = Cache!Invalidated(query, Config!Used)
    BY <1>6, OneCache DEF Config!Deliver, Config!Done
  <2>4. query' \in Cache!Query(Config!Config)
    BY <1>1, <2>3, EntriesStayEntries DEF ConfigTyped
  <2>5. QED
    BY <1>3, <2>1, <2>2, <2>4
<1>7. CASE Config!AnswerFetch
  <2>1. UNCHANGED <<page, dialog, calls>> /\ query' = Cache!Answered(query, server)
    BY <1>7, OneCache DEF Config!AnswerFetch, Config!pageVars
  <2>2. missed' \in BOOLEAN
    BY <1>7, Zenon DEF Config!AnswerFetch
  <2>3. query' \in Cache!Query(Config!Config)
    BY <1>1, <2>1, EntriesStayEntries DEF ConfigTyped
  <2>4. QED
    BY <1>3, <2>1, <2>2, <2>3
<1>8. CASE Config!ArriveFetch
  <2>1. /\ UNCHANGED <<calls, missed>> /\ query' = Cache!Arrived(query)
        /\ page' \in {page, "crashed"} /\ query.fetch = "answered"
        /\ dialog' = IF dialog # None /\ Config!SameRow(dialog, query.answer)
                     THEN [dialog EXCEPT !.metric = query.answer.metrics[dialog.index]]
                     ELSE None
    BY <1>8, OneCache DEF Config!ArriveFetch
  <2>2. missed' \in BOOLEAN
    BY <2>1, Zenon DEF ConfigTyped
  <2>3. query' \in Cache!Query(Config!Config)
    BY <1>1, <2>1, EntriesStayEntries DEF ConfigTyped
  <2>4. query.answer \in Config!Config
    BY <2>1 DEF ConfigUse, ConfigType
  <2>5. dialog' # None => dialog'.metric \in Config!Metric
    <3>1. SUFFICES ASSUME dialog' # None
                   PROVE  dialog'.metric \in Config!Metric
      OBVIOUS
    <3>2. /\ dialog # None /\ Config!SameRow(dialog, query.answer)
          /\ dialog' = [dialog EXCEPT !.metric = query.answer.metrics[dialog.index]]
      BY <2>1, <3>1
    <3>3. DOMAIN dialog = {"index", "metric"} /\ dialog.index \in Nat \ {0}
      BY <3>2 DEF ConfigUse, RowsAreShown
    <3>4. dialog.index \in 1 .. Config!Len(query.answer.metrics)
      BY <2>4, <3>2, <3>3 DEF Config!SameRow, Config!Config
    <3>5. query.answer.metrics[dialog.index] \in Config!Metric
      BY <2>4, <3>4 DEF Config!Config
    <3>6. QED
      BY <3>2, <3>3, <3>5
  <2>6. page' \in Config!Pages
    BY <2>1 DEF ConfigTyped, Config!Pages
  <2>7. QED
    BY <2>1, <2>2, <2>3, <2>5, <2>6 DEF ConfigTyped
<1>9. CASE Config!FailFetch
  <2>1. UNCHANGED <<page, dialog, calls>> /\ query' = Cache!Failed(query)
    BY <1>9, OneCache DEF Config!FailFetch, Config!pageVars
  <2>2. missed' \in BOOLEAN
    BY <1>9, Zenon DEF Config!FailFetch
  <2>3. query' \in Cache!Query(Config!Config)
    BY <1>1, <2>1, EntriesStayEntries DEF ConfigTyped
  <2>4. QED
    BY <1>3, <2>1, <2>2, <2>3
<1>10. CASE Config!OtherEdit
  <2>1. UNCHANGED <<query, page, dialog, calls>>
    BY <1>10 DEF Config!OtherEdit, Config!pageVars
  <2>2. missed' \in BOOLEAN
    BY <1>10, Zenon DEF Config!OtherEdit
  <2>3. QED
    BY <1>3, <2>1, <2>2 DEF ConfigTyped
<1>11. ASSUME NEW p \in Config!Pages \ {"crashed"}, Config!Reload(p)
       PROVE  ConfigTyped'
  <2>1. /\ query' \in {Cache!EmptyQuery, Cache!Mounted(Cache!EmptyQuery)}
        /\ page' = p /\ dialog' = None /\ missed' = missed
    BY <1>11, OneCache DEF Config!Reload
  <2>2. missed' \in BOOLEAN
    BY <2>1, Zenon DEF ConfigTyped
  <2>3. query' \in Cache!Query(Config!Config)
    BY <1>1, <2>1, EntriesStayEntries DEF ConfigTyped
  <2>4. \A c \in calls' : \E d \in calls : c = [d EXCEPT !.heard = FALSE]
    BY <1>11 DEF Config!Reload
  <2>5. \A d \in calls : [d EXCEPT !.heard = FALSE].phase = d.phase
    BY <1>2 DEF IsConfigCall
  <2>6. \A c \in calls' : c.phase \in {"sent", "get", "validate", "put", "ok", "refused"}
    BY <2>4, <2>5 DEF ConfigTyped
  <2>7. QED
    BY <1>3, <1>11, <2>1, <2>2, <2>3, <2>6
<1>12. CASE UNCHANGED Config!vars
  <2>1. UNCHANGED <<query, page, dialog, calls, missed>>
    BY <1>12 DEF Config!vars
  <2>2. QED
    BY <2>1, Zenon DEF ConfigTyped
<1>13. QED
  BY <1>4, <1>5, <1>6, <1>7, <1>8, <1>9, <1>10, <1>11, <1>12, ConfigUserTyped, Zenon
     DEF Config!Next, Config!Fetch, Config!Serve

LEMMA ConfigPagesTyped == ConfigUse /\ ConfigTyped => Config!TypeOK
<1> SUFFICES ASSUME ConfigUse, ConfigTyped PROVE Config!TypeOK
  OBVIOUS
<1>1. query \in Config!Query(Config!Config)
  BY DEF ConfigTyped, Cache!Query, Config!Query
<1>2. server \in Config!Config /\ form \in Config!Form
  BY DEF ConfigUse, ConfigType
<1>3. \A row \in {dialog, editor} \ {None} : row.index = 0 \/ row.metric \in Config!Metric
  BY DEF ConfigTyped, ConfigUse, RowsAreShown, Row
<1>4. QED
  BY <1>1, <1>2, <1>3, Zenon DEF ConfigTyped, Config!TypeOK

-----------------------------------------------------------------------------
(* The page of data sources. *)

(* An answer is there while it is on its way, and no longer.               *)
AnswerIsOnItsWay(q) == q.answer # None => q.fetch = "answered"

LEMMA AnswersAreOnTheirWay ==
    ASSUME NEW q, IsEntry(q), AnswerIsOnItsWay(q), NEW v, NEW used
    PROVE  /\ AnswerIsOnItsWay(Cache!EmptyQuery)
           /\ AnswerIsOnItsWay(Cache!Mounted(Cache!EmptyQuery))
           /\ AnswerIsOnItsWay(Cache!Mounted(q))
           /\ AnswerIsOnItsWay(Cache!Invalidated(q, used))
           /\ AnswerIsOnItsWay(Cache!Answered(q, v))
           /\ AnswerIsOnItsWay(Cache!Arrived(q))
           /\ AnswerIsOnItsWay(Cache!Failed(q))
<1>1. AnswerIsOnItsWay(Cache!EmptyQuery)
  BY DEF AnswerIsOnItsWay, Cache!EmptyQuery
<1>2. AnswerIsOnItsWay(Cache!Asked(q)) /\ AnswerIsOnItsWay(Cache!Asked(Cache!EmptyQuery))
  BY DEF AnswerIsOnItsWay, IsEntry, Cache!Asked, Cache!EmptyQuery
<1>3. /\ AnswerIsOnItsWay(Cache!Mounted(q))
      /\ AnswerIsOnItsWay(Cache!Mounted(Cache!EmptyQuery))
  BY <1>1, <1>2, Zenon DEF Cache!Mounted
<1>4. AnswerIsOnItsWay(Cache!Invalidated(q, used))
  BY <1>2, <1>3, Zenon DEF Cache!Invalidated
<1>5. AnswerIsOnItsWay(Cache!Answered(q, v)) /\ AnswerIsOnItsWay(Cache!Failed(q))
  BY DEF AnswerIsOnItsWay, IsEntry, Cache!Answered, Cache!Failed
<1>6. AnswerIsOnItsWay(Cache!Arrived(q))
  BY DEF AnswerIsOnItsWay, Cache!Arrived
<1>7. QED
  BY <1>1, <1>3, <1>4, <1>5, <1>6

SourcesTyped ==
    /\ AnswerIsOnItsWay(query)
    /\ \A c \in calls : c.phase \in {"sent", "cloned", "ok", "refused"}
    /\ missed \in BOOLEAN

LEMMA SourcesTypedBegins == Sources!Init => SourcesTyped
<1> SUFFICES ASSUME Sources!Init PROVE SourcesTyped
  OBVIOUS
<1>1. query = Cache!Mounted(Cache!EmptyQuery) /\ calls = {}
  BY OneCache DEF Sources!Init
<1>2. missed \in BOOLEAN
  BY Zenon DEF Sources!Init
<1>3. AnswerIsOnItsWay(query)
  BY <1>1 DEF AnswerIsOnItsWay, Cache!Mounted, Cache!EmptyQuery, Cache!Fetching, Cache!Asked
<1>4. QED
  BY <1>1, <1>2, <1>3 DEF SourcesTyped

LEMMA SourcesSectionTyped ==
    ASSUME SourcesInv, SourcesTyped, NEW k \in Sources!Kinds, Sources!Section(k)
    PROVE  SourcesTyped'
<1>1. ASSUME NEW op, NEW name
      PROVE  /\ Sources!Call(op, k, name).phase = "sent"
             /\ DOMAIN Sources!Call(op, k, name) =
                    {"id", "op", "kind", "name", "settings", "typed", "phase", "clone"}
  BY DEF Sources!Call
<1>2. ASSUME Sources!Look PROVE SourcesTyped'
  <2>1. UNCHANGED <<query, calls, missed>>
    BY <1>2 DEF Sources!Look
  <2>2. QED
    BY <2>1, Zenon DEF SourcesTyped, AnswerIsOnItsWay
<1>3. ASSUME NEW c, c.phase = "sent", Sources!Click(c) PROVE SourcesTyped'
  <2>1. UNCHANGED <<query, missed>> /\ calls' = calls \cup {c}
    BY <1>3 DEF Sources!Click
  <2>2. missed' \in BOOLEAN
    BY <2>1, Zenon DEF SourcesTyped
  <2>3. QED
    BY <1>3, <2>1, <2>2 DEF SourcesTyped, AnswerIsOnItsWay
<1>4. ASSUME NEW name, Sources!DeleteConnection(k, name) PROVE SourcesTyped'
  BY <1>1, <1>3, <1>4, Zenon DEF Sources!DeleteConnection
<1>5. CASE Sources!SaveConnection(k)
  <2>1. PICK c : /\ Sources!Click(c)
                 /\ \E s, t : c = [Sources!Call("save", k, editing[k]) EXCEPT
                                       !.settings = s, !.typed = t]
    BY <1>5 DEF Sources!SaveConnection
  <2>2. c.phase = "sent"
    BY <1>1, <2>1
  <2>3. QED
    BY <1>3, <2>1, <2>2
<1>6. QED
  BY <1>2, <1>4, <1>5, Zenon DEF Sources!Section, Sources!Edit, Sources!Add, Sources!Cancel

LEMMA SourcesTypedKept ==
    SourcesInv /\ SourcesTyped /\ [Sources!Next]_(Sources!vars) => SourcesTyped'
<1> SUFFICES ASSUME SourcesInv, SourcesTyped, [Sources!Next]_(Sources!vars)
             PROVE  SourcesTyped'
  OBVIOUS
<1>1. IsEntry(query) /\ \A c \in calls : IsSourceCall(c)
  BY DEF SourcesInv, SourcesType
<1>2. ASSUME NEW c \in calls, Sources!Clone(c) \/ Sources!Publish(c) \/ Sources!Refuse(c)
      PROVE  SourcesTyped'
  <2>1. UNCHANGED <<query, missed>>
    BY <1>2 DEF Sources!Clone, Sources!Publish, Sources!Refuse
  <2>2. missed' \in BOOLEAN
    BY <2>1, Zenon DEF SourcesTyped
  <2>3. PICK d :
            /\ calls' = (calls \ {c}) \cup {d}
            /\ \/ \E p \in {"ok", "refused"} : d = [c EXCEPT !.phase = p]
               \/ d = [c EXCEPT !.phase = "cloned", !.clone = server]
    BY <1>2, Zenon DEF Sources!Clone, Sources!Publish, Sources!Refuse, Sources!Update
  <2>4. d.phase \in {"ok", "refused", "cloned"}
    BY <1>1, <1>2, <2>3 DEF IsSourceCall
  <2>5. QED
    BY <2>1, <2>2, <2>3, <2>4 DEF SourcesTyped, AnswerIsOnItsWay
<1>3. ASSUME NEW c \in calls, Sources!Deliver(c)
      PROVE  SourcesTyped'
  <2>1. calls' = calls \ {c} /\ missed' = missed
    BY <1>3 DEF Sources!Deliver
  <2>2. missed' \in BOOLEAN
    BY <2>1, Zenon DEF SourcesTyped
  <2>3. query' = query \/ query' = Cache!Invalidated(query, TRUE)
    BY <1>3, OneCache DEF Sources!Deliver
  <2>4. AnswerIsOnItsWay(query')
    BY <1>1, <2>3, AnswersAreOnTheirWay DEF SourcesTyped
  <2>5. QED
    BY <2>1, <2>2, <2>4 DEF SourcesTyped, AnswerIsOnItsWay
<1>4. CASE Sources!AnswerFetch \/ Sources!ArriveFetch
  <2>1. /\ calls' = calls
        /\ query' = Cache!Answered(query, server) \/ query' = Cache!Arrived(query)
    BY <1>4, OneCache DEF Sources!AnswerFetch, Sources!ArriveFetch
  <2>2. missed' \in BOOLEAN
    BY <1>4, Zenon DEF Sources!AnswerFetch, Sources!ArriveFetch, SourcesTyped
  <2>3. AnswerIsOnItsWay(query')
    BY <1>1, <2>1, AnswersAreOnTheirWay DEF SourcesTyped
  <2>4. QED
    BY <2>1, <2>2, <2>3 DEF SourcesTyped, AnswerIsOnItsWay
<1>5. CASE Sources!OtherEdit
  <2>1. UNCHANGED <<query, calls>>
    BY <1>5 DEF Sources!OtherEdit
  <2>2. missed' \in BOOLEAN
    BY <1>5, Zenon DEF Sources!OtherEdit
  <2>3. QED
    BY <2>1, <2>2 DEF SourcesTyped, AnswerIsOnItsWay
<1>6. CASE Sources!FailFetch
  <2>1. calls' = calls /\ query' = Cache!Failed(query)
    BY <1>6, OneCache DEF Sources!FailFetch
  <2>2. missed' \in BOOLEAN
    BY <1>6, Zenon DEF Sources!FailFetch
  <2>3. AnswerIsOnItsWay(query')
    BY <1>1, <2>1, AnswersAreOnTheirWay DEF SourcesTyped
  <2>4. QED
    BY <2>1, <2>2, <2>3 DEF SourcesTyped, AnswerIsOnItsWay
<1>7. CASE UNCHANGED Sources!vars
  <2>1. UNCHANGED <<query, calls, missed>>
    BY <1>7 DEF Sources!vars
  <2>2. QED
    BY <2>1, Zenon DEF SourcesTyped, AnswerIsOnItsWay
<1>8. ASSUME NEW k \in Sources!Kinds, Sources!Section(k) PROVE SourcesTyped'
  BY <1>8, SourcesSectionTyped
<1>9. QED
  BY <1>2, <1>3, <1>4, <1>5, <1>6, <1>7, <1>8, Zenon
     DEF Sources!Next, Sources!Fetch, Sources!Serve, Sources!Kinds,
         Sources!MySQLSection, Sources!RedisSection, Sources!IoTDBSection,
         Sources!RestAPISection

LEMMA SourcesPageTyped == SourcesInv /\ SourcesTyped => Sources!TypeOK
<1> SUFFICES ASSUME SourcesInv, SourcesTyped PROVE Sources!TypeOK
  OBVIOUS
<1>1. \A s \in {server, query.data, query.answer} \ {None} : Sources!IsSources(s)
  BY DEF SourcesInv, SourcesType, SourcesTyped, AnswerIsOnItsWay
<1>2. \A k \in Sources!Kinds : form[k] # None =>
          form[k].settings \in Sources!Settings(k) /\ form[k].typed \subseteq Sources!Fields
  BY DEF SourcesInv, SourcesType, IsSourceForm
<1>3. editing \in [Sources!Kinds -> {Default, Other, None}]
  BY DEF SourcesInv, SourcesType
<1>4. QED
  BY <1>1, <1>2, <1>3, Zenon DEF SourcesTyped, Sources!TypeOK

-----------------------------------------------------------------------------
(* The page of notification settings. *)

IsWhole(s) == DOMAIN s = Notifications!Fields

SettingsTyped ==
    /\ IsWhole(memory) /\ IsWhole(file)
    /\ form # None => IsWhole(form)
    /\ testing \in Notifications!Channels \cup {None}
    /\ raced \in BOOLEAN
    /\ \A c \in calls :
           /\ c.phase \in {"sent", "set", "marshalled", "ok", "failed"}
           /\ c.op = "save" \/ (c.op = "load" /\ c.phase = "ok") => IsWhole(c.config)

LEMMA SettingsTypedBegin == Notifications!Init => SettingsTyped
<1> SUFFICES ASSUME Notifications!Init PROVE SettingsTyped
  OBVIOUS
<1>1. /\ memory \in InitSettings /\ file = memory /\ form = None /\ testing = None
      /\ raced \in BOOLEAN
  BY DEF Notifications!Init
<1>2. \A c \in calls : c.op = "load" /\ c.phase = "sent"
  BY DEF Notifications!Init
<1>3. IsWhole(memory)
  BY <1>1, ConsoleAssumption DEF IsWhole, Notifications!IsSettings
<1>4. QED
  BY <1>1, <1>2, <1>3 DEF SettingsTyped

LEMMA TypedIsWhole ==
    ASSUME IsWhole(form), NEW t \in Notifications!Typed
    PROVE  IsWhole(t.config)
<1>1. CASE t = [config |-> form, typed |-> {}]
  BY <1>1
<1>2. ASSUME NEW e, t = [config |-> [form EXCEPT ![e.field] = e.value], typed |-> {e.field}]
      PROVE  IsWhole(t.config)
  <2>1. PICK field, value : field = e.field /\ value = e.value
    OBVIOUS
  <2>2. t.config = [form EXCEPT ![field] = value]
    BY <1>2, <2>1
  <2>3. QED
    BY <2>2 DEF IsWhole
<1>3. QED
  BY <1>1, <1>2 DEF Notifications!Typed

LEMMA SettingsUserTyped ==
    ASSUME SettingsTyped, Notifications!User
    PROVE  SettingsTyped'
<1>1. ASSUME NEW c, calls' = calls \cup {c}, c.phase = "sent",
             c.op = "save" => IsWhole(c.config),
             UNCHANGED <<memory, file, raced>>, form' # None => IsWhole(form'),
             testing' \in Notifications!Channels \cup {None}
      PROVE  SettingsTyped'
  BY <1>1 DEF SettingsTyped, IsWhole
<1>2. CASE Notifications!LoadConfig
  <2>1. PICK c : c = [Notifications!Call("load") EXCEPT !.visit = visit']
    OBVIOUS
  <2>2. /\ calls' = calls \cup {c} /\ form' = None /\ testing' = None
        /\ UNCHANGED <<memory, file, raced>>
    BY <1>2, <2>1 DEF Notifications!LoadConfig, Notifications!server
  <2>3. c.op = "load" /\ c.phase = "sent"
    BY <2>1 DEF Notifications!Call
  <2>4. QED
    BY <1>1, <2>2, <2>3
<1>3. CASE Notifications!SaveConfig
  <2>1. PICK t \in Notifications!Typed :
            /\ form' = t.config
            /\ Notifications!Click([Notifications!Call("save") EXCEPT !.config = t.config,
                                                                      !.typed = t.typed])
    BY <1>3 DEF Notifications!SaveConfig
  <2>2. PICK c : c = [[Notifications!Call("save") EXCEPT !.config = t.config, !.typed = t.typed]
                         EXCEPT !.n = clicks']
    OBVIOUS
  <2>3. calls' = calls \cup {c} /\ UNCHANGED <<memory, file, raced>>
    BY <2>1, <2>2 DEF Notifications!Click, Notifications!server
  <2>4. form # None /\ testing' = testing
    BY <1>3, Zenon DEF Notifications!SaveConfig, Notifications!CanSave
  <2>5. c.phase = "sent" /\ c.config = t.config
    BY <2>2 DEF Notifications!Call
  <2>6. IsWhole(t.config)
    BY <2>1, <2>4, TypedIsWhole DEF SettingsTyped
  <2>7. QED
    BY <1>1, <2>1, <2>3, <2>4, <2>5, <2>6 DEF SettingsTyped, IsWhole
<1>4. ASSUME NEW channel \in Notifications!Channels, Notifications!TestWebhook(channel)
      PROVE  SettingsTyped'
  <2>1. PICK c : c = [[Notifications!Call("test") EXCEPT !.channel = channel]
                         EXCEPT !.n = clicks']
    OBVIOUS
  <2>2. /\ calls' = calls \cup {c} /\ form' = form /\ testing' = channel
        /\ UNCHANGED <<memory, file, raced>>
    BY <1>4, <2>1 DEF Notifications!TestWebhook, Notifications!Click, Notifications!server
  <2>3. c.op = "test" /\ c.phase = "sent"
    BY <2>1 DEF Notifications!Call
  <2>4. QED
    BY <1>1, <2>2, <2>3 DEF SettingsTyped, IsWhole
<1>5. QED
  BY <1>2, <1>3, <1>4 DEF Notifications!User

LEMMA SettingsServeTyped ==
    ASSUME PageInv, SettingsTyped,
           NEW c \in calls,
           \/ Notifications!HandleGetNotifierConfig(c) \/ Notifications!SetNotifierConfig(c)
           \/ Notifications!Marshal(c) \/ Notifications!WriteFile(c)
           \/ Notifications!TestNotifierWebhook(c)
           \/ Notifications!Deliver(c) \/ Notifications!Fail(c)
    PROVE  SettingsTyped'
<1>1. IsNotifierCall(c)
  BY DEF PageInv
<1>2. ASSUME NEW d, calls' = (calls \ {c}) \cup {d},
             d.phase \in {"set", "marshalled", "ok", "failed"}, d.op = c.op,
             d.op = "save" \/ (d.op = "load" /\ d.phase = "ok") => IsWhole(d.config),
             IsWhole(memory'), IsWhole(file'), raced' \in BOOLEAN, UNCHANGED <<form, testing>>
      PROVE  SettingsTyped'
  BY <1>2 DEF SettingsTyped, IsWhole
<1>3. CASE Notifications!HandleGetNotifierConfig(c)
  <2>1. PICK d : d = [c EXCEPT !.phase = "ok", !.config = Notifications!Returned(memory)]
    OBVIOUS
  <2>2. /\ calls' = (calls \ {c}) \cup {d} /\ c.op = "load"
        /\ UNCHANGED <<memory, file, raced, form, testing>>
    BY <1>3, <2>1 DEF Notifications!HandleGetNotifierConfig, Notifications!Update,
                      Notifications!server, Notifications!page
  <2>3. d.op = c.op /\ d.phase = "ok" /\ d.config = Notifications!Returned(memory)
    BY <1>1, <2>1 DEF IsNotifierCall
  <2>4. IsWhole(Notifications!Empty)
    BY DEF IsWhole, Notifications!Empty, Notifications!Fields, Notifications!Channels
  <2>5. IsWhole(d.config)
    BY <2>3, <2>4, Zenon DEF SettingsTyped, Notifications!Returned
  <2>6. QED
    BY <1>2, <2>2, <2>3, <2>5 DEF SettingsTyped, IsWhole
<1>4. CASE Notifications!SetNotifierConfig(c)
  <2>1. PICK d : d = [c EXCEPT !.phase = "set"]
    OBVIOUS
  <2>2. /\ calls' = (calls \ {c}) \cup {d} /\ c.op = "save"
        /\ memory' = c.config /\ raced' \in BOOLEAN /\ UNCHANGED <<file, form, testing>>
    BY <1>4, <2>1 DEF Notifications!SetNotifierConfig, Notifications!Update,
                      Notifications!page
  <2>3. d.op = c.op /\ d.phase = "set" /\ d.config = c.config
    BY <1>1, <2>1 DEF IsNotifierCall
  <2>4. QED
    BY <1>2, <2>2, <2>3 DEF SettingsTyped, IsWhole
<1>5. CASE \/ Notifications!Marshal(c) \/ Notifications!WriteFile(c)
           \/ Notifications!TestNotifierWebhook(c)
  <2>1. PICK d : /\ calls' = (calls \ {c}) \cup {d}
                 /\ \/ d = [c EXCEPT !.phase = "ok"]
                    \/ d = [c EXCEPT !.phase = "marshalled", !.config = memory]
    BY <1>5, Zenon DEF Notifications!Marshal, Notifications!WriteFile,
                       Notifications!TestNotifierWebhook, Notifications!Update
  <2>2. /\ c.op \in {"save", "test"} /\ (file' = file \/ (c.op = "save" /\ file' = c.config))
        /\ UNCHANGED <<memory, raced, form, testing>>
    <3>1. CASE Notifications!Marshal(c) \/ Notifications!TestNotifierWebhook(c)
      BY <3>1 DEF Notifications!Marshal, Notifications!TestNotifierWebhook,
                  Notifications!server, Notifications!page
    <3>2. CASE Notifications!WriteFile(c)
      BY <3>2 DEF Notifications!WriteFile, Notifications!page
    <3>3. QED
      BY <1>5, <3>1, <3>2
  <2>3. d.op = c.op /\ d.phase \in {"ok", "marshalled"} /\ d.config \in {c.config, memory}
    BY <1>1, <2>1, <2>2 DEF IsNotifierCall
  <2>4. QED
    BY <1>2, <2>1, <2>2, <2>3 DEF SettingsTyped, IsWhole
<1>6. CASE Notifications!Fail(c)
  <2>1. PICK d : d = [c EXCEPT !.phase = "failed"]
    OBVIOUS
  <2>2. /\ calls' = (calls \ {c}) \cup {d} /\ UNCHANGED <<memory, file, raced, form, testing>>
    BY <1>6, <2>1 DEF Notifications!Fail, Notifications!Update, Notifications!server,
                      Notifications!page
  <2>3. d.op = c.op /\ d.phase = "failed" /\ d.config = c.config
    BY <1>1, <2>1 DEF IsNotifierCall
  <2>4. QED
    BY <1>2, <2>2, <2>3 DEF SettingsTyped, IsWhole
<1>7. CASE Notifications!Deliver(c)
  <2>1. calls' = calls \ {c} /\ UNCHANGED <<memory, file, raced>>
    BY <1>7 DEF Notifications!Deliver, Notifications!server
  <2>2. \/ UNCHANGED Notifications!page \/ Notifications!LoadAnswered(c)
        \/ Notifications!SaveAnswered(c) \/ Notifications!TestAnswered(c)
    BY <1>7, Zenon DEF Notifications!Deliver
  <2>3. testing' \in {testing, None}
    BY <2>2 DEF Notifications!page, Notifications!LoadAnswered, Notifications!SaveAnswered,
                Notifications!TestAnswered
  <2>4. form' = form \/ (c.op = "load" /\ c.phase = "ok" /\ form' = c.config)
    <3>1. CASE Notifications!LoadAnswered(c)
      <4>1. c.op = "load" /\ form' = IF c.phase = "ok" THEN c.config ELSE form
        BY <3>1, Zenon DEF Notifications!LoadAnswered
      <4>2. QED
        BY <4>1
    <3>2. CASE UNCHANGED Notifications!page
      BY <3>2 DEF Notifications!page
    <3>3. CASE Notifications!SaveAnswered(c) \/ Notifications!TestAnswered(c)
      BY <3>3, Zenon DEF Notifications!SaveAnswered, Notifications!TestAnswered
    <3>4. QED
      BY <2>2, <3>1, <3>2, <3>3
  <2>5. QED
    BY <2>1, <2>3, <2>4 DEF SettingsTyped, IsWhole
<1>8. QED
  BY <1>3, <1>4, <1>5, <1>6, <1>7

LEMMA SettingsTypedKept ==
    PageInv /\ SettingsTyped /\ [Notifications!Next]_(Notifications!vars) => SettingsTyped'
<1> SUFFICES ASSUME PageInv, SettingsTyped, [Notifications!Next]_(Notifications!vars)
             PROVE  SettingsTyped'
  OBVIOUS
<1>1. CASE UNCHANGED Notifications!vars
  BY <1>1 DEF Notifications!vars, Notifications!server, Notifications!page, Notifications!bounds,
              SettingsTyped, IsWhole
<1>2. QED
  BY <1>1, SettingsUserTyped, SettingsServeTyped DEF Notifications!Next, Notifications!Serve

LEMMA SettingsPageTyped == PageInv /\ SettingsTyped => Notifications!TypeOK
<1> SUFFICES ASSUME PageInv, SettingsTyped PROVE Notifications!TypeOK
  OBVIOUS
<1>1. \A s \in {memory, file, form} \ {None} : DOMAIN s = Notifications!Fields
  BY DEF SettingsTyped, IsWhole
<1>2. QED
  BY <1>1, Zenon DEF PageInv, SettingsTyped, Notifications!TypeOK

-----------------------------------------------------------------------------
(* The page of routes. *)

AreChannels(s) == Routes!IsStore(s, ChannelIds, Routes!Channel)
AreRoutes(s) == Routes!IsStore(s, RouteIds, Routes!Route(ChannelIds))

(* An item of the tab, and the ids there are for it.                       *)
IsItem(tab, item) ==
    /\ tab = "channels" => item \in Routes!Channel
    /\ tab = "routes" => item \in Routes!Route(ChannelIds)

IdsOf(tab) == IF tab = "channels" THEN ChannelIds ELSE RouteIds

IsTypedDialog(d) ==
    /\ IsDialog(d)
    /\ d.tab \in Routes!Tabs /\ d.id \in IdsOf(d.tab) \cup {None}
    /\ IsItem(d.tab, d.item)

IsTypedCall(c) ==
    /\ c.phase \in {"sent", "ok", "refused"}
    /\ c.tab \in Routes!Tabs /\ c.id \in IdsOf(c.tab) \cup {None}
    /\ c.op # "delete" => IsItem(c.tab, c.item)

IsTypedLoad(l) ==
    /\ l.n # 0
    /\ l.channels # None => AreChannels(l.channels)
    /\ l.routes # None => AreRoutes(l.routes)

RoutesTyped ==
    /\ AreChannels(channels) /\ AreRoutes(routes)
    /\ AreChannels(shown.channels) /\ AreRoutes(shown.routes)
    /\ generated \subseteq Routes!ItemIds
    /\ \A l \in loads : IsTypedLoad(l)
    /\ dialog # None => IsTypedDialog(dialog)
    /\ \A c \in calls : IsTypedCall(c)

LEMMA NewItems ==
    /\ Routes!NewChannel \in Routes!Channel
    /\ Routes!NewRoute \in Routes!Route(ChannelIds)
<1>1. Routes!NewChannel \in Routes!Channel
  BY DEF Routes!NewChannel, Routes!Channel, Routes!Texts, Routes!ChannelTypes
<1>2. Routes!NewRoute \in Routes!Route(ChannelIds)
  BY DEF Routes!NewRoute, Routes!Route, Routes!Texts
<1>3. QED
  BY <1>1, <1>2

LEMMA ChannelsStayChannels ==
    ASSUME NEW item \in Routes!Channel
    PROVE  /\ [item EXCEPT !.name = "new", !.webhooks[item.type] = "new"] \in Routes!Channel
           /\ \A e \in Routes!ChannelEdits(item) :
                  [item EXCEPT ![e.field] = e.value] \in Routes!Channel
<1>1. [item EXCEPT !.name = "new", !.webhooks[item.type] = "new"] \in Routes!Channel
  BY DEF Routes!Channel, Routes!Texts
<1>2. ASSUME NEW e \in Routes!ChannelEdits(item)
      PROVE  [item EXCEPT ![e.field] = e.value] \in Routes!Channel
  <2>1. PICK field, value : field = e.field /\ value = e.value
    OBVIOUS
  <2>2. ASSUME NEW name, NEW values, e \in Routes!Change(name, values)
        PROVE  field = name /\ value \in values
    BY <2>1, <2>2 DEF Routes!Change
  <2>3. \/ field = "name" /\ value \in {"new"}
        \/ field = "description" /\ value \in {"", "new"}
        \/ field = "type" /\ value \in Routes!ChannelTypes \ {item.type}
        \/ field = "webhooks" /\ value \in {[item.webhooks EXCEPT ![item.type] = "new"]}
    BY <2>2, Zenon DEF Routes!ChannelEdits
  <2>4. [item EXCEPT ![field] = value] \in Routes!Channel
    <3>1. CASE field = "name" /\ value \in {"new"}
      BY <3>1 DEF Routes!Channel, Routes!Texts
    <3>2. CASE field = "description" /\ value \in {"", "new"}
      BY <3>2 DEF Routes!Channel, Routes!Texts
    <3>3. CASE field = "type" /\ value \in Routes!ChannelTypes \ {item.type}
      BY <3>3 DEF Routes!Channel
    <3>4. CASE /\ field = "webhooks"
               /\ value \in {[item.webhooks EXCEPT ![item.type] = "new"]}
      BY <3>4 DEF Routes!Channel, Routes!Texts
    <3>5. QED
      BY <2>3, <3>1, <3>2, <3>3, <3>4
  <2>5. QED
    BY <2>1, <2>4
<1>3. QED
  BY <1>1, <1>2

LEMMA RoutesStayRoutes ==
    ASSUME NEW item \in Routes!Route(ChannelIds), NEW boxes \in SUBSET ChannelIds
    PROVE  /\ [item EXCEPT !.name = "new"] \in Routes!Route(ChannelIds)
           /\ \A e \in Routes!RouteEdits(item, boxes) :
                  [item EXCEPT ![e.field] = e.value] \in Routes!Route(ChannelIds)
<1>1. [item EXCEPT !.name = "new"] \in Routes!Route(ChannelIds)
  BY DEF Routes!Route, Routes!Texts
<1>2. ASSUME NEW e \in Routes!RouteEdits(item, boxes)
      PROVE  [item EXCEPT ![e.field] = e.value] \in Routes!Route(ChannelIds)
  <2>1. PICK field, value : field = e.field /\ value = e.value
    OBVIOUS
  <2>2. ASSUME NEW name, NEW values, e \in Routes!Change(name, values)
        PROVE  field = name /\ value \in values
    BY <2>1, <2>2 DEF Routes!Change
  <2>3. \/ field = "name" /\ value \in {"new"}
        \/ field = "priority" /\ value \in {"new"}
        \/ field = "alertNames" /\ value \in {"", "new"}
        \/ field = "continue" /\ value \in {~item.continue}
        \/ /\ field = "severities"
           /\ value \in {Routes!Flipped(item.severities, s) : s \in Routes!Severities}
        \/ field = "channels" /\ value \in {Routes!Flipped(item.channels, id) : id \in boxes}
    BY <2>2, Zenon DEF Routes!RouteEdits, Routes!SeverityEdits, Routes!ChannelBoxes
  <2>4. ASSUME NEW S, NEW all, S \subseteq all, NEW x \in all
        PROVE  Routes!Flipped(S, x) \subseteq all
    BY <2>4 DEF Routes!Flipped
  <2>5. [item EXCEPT ![field] = value] \in Routes!Route(ChannelIds)
    <3>1. CASE field = "name" /\ value \in {"new"}
      BY <3>1 DEF Routes!Route, Routes!Texts
    <3>2. CASE field = "priority" /\ value \in {"new"}
      BY <3>2 DEF Routes!Route
    <3>3. CASE field = "alertNames" /\ value \in {"", "new"}
      BY <3>3 DEF Routes!Route, Routes!Texts
    <3>4. CASE field = "continue" /\ value \in {~item.continue}
      <4>1. value \in BOOLEAN
        BY <3>4
      <4>2. QED
        BY <3>4, <4>1 DEF Routes!Route
    <3>5. CASE /\ field = "severities"
               /\ value \in {Routes!Flipped(item.severities, s) : s \in Routes!Severities}
      <4>1. value \subseteq Routes!Severities
        BY <2>4, <3>5 DEF Routes!Route
      <4>2. QED
        BY <3>5, <4>1 DEF Routes!Route
    <3>6. CASE field = "channels" /\ value \in {Routes!Flipped(item.channels, id) : id \in boxes}
      <4>1. value \subseteq ChannelIds
        BY <2>4, <3>6 DEF Routes!Route
      <4>2. QED
        BY <3>6, <4>1 DEF Routes!Route
    <3>7. QED
      BY <2>3, <3>1, <3>2, <3>3, <3>4, <3>5, <3>6
  <2>6. QED
    BY <2>1, <2>5
<1>3. QED
  BY <1>1, <1>2

LEMMA TypedDialogStays ==
    ASSUME RoutesTyped, dialog # None, NEW d \in Routes!Typed
    PROVE  IsTypedDialog(d)
<1>1. IsTypedDialog(dialog)
  BY DEF RoutesTyped
<1>2. PICK b : b = [dialog EXCEPT !.item = Routes!Filled(dialog)]
  OBVIOUS
<1>3. PICK old : old = dialog.item
  OBVIOUS
<1>4. /\ IsDialog(b) /\ b.tab = dialog.tab /\ b.id = dialog.id
      /\ b.item = Routes!Filled(dialog)
  BY <1>1, <1>2 DEF IsTypedDialog, IsDialog
<1>5. PICK boxes \in SUBSET ChannelIds : boxes = DOMAIN shown.channels
  BY DEF RoutesTyped, AreChannels, Routes!IsStore
<1>6. IsItem(dialog.tab, old)
  BY <1>1, <1>3 DEF IsTypedDialog
<1>7. IsItem(b.tab, b.item)
  <2>1. \/ b.item = old
        \/ /\ dialog.tab = "channels"
           /\ b.item = [old EXCEPT !.name = "new", !.webhooks[old.type] = "new"]
        \/ dialog.tab # "channels" /\ b.item = [old EXCEPT !.name = "new"]
    BY <1>3, <1>4, Zenon DEF Routes!Filled
  <2>2. CASE b.item = old
    BY <1>4, <1>6, <2>2
  <2>3. CASE /\ dialog.tab = "channels"
             /\ b.item = [old EXCEPT !.name = "new", !.webhooks[old.type] = "new"]
    BY <1>4, <1>6, <2>3, ChannelsStayChannels DEF IsItem
  <2>4. CASE dialog.tab # "channels" /\ b.item = [old EXCEPT !.name = "new"]
    BY <1>4, <1>5, <1>6, <2>4, RoutesStayRoutes DEF IsItem
  <2>5. QED
    BY <2>1, <2>2, <2>3, <2>4
<1>8. IsTypedDialog(b)
  BY <1>1, <1>4, <1>7 DEF IsTypedDialog
<1>9. \/ d = b
      \/ \E e \in IF b.tab = "channels" THEN Routes!ChannelEditDialog(b)
                  ELSE Routes!RouteEditDialog(b) :
             d = [b EXCEPT !.item[e.field] = e.value, !.typed = @ \cup {e.field}]
  BY <1>2 DEF Routes!Typed
<1>10. ASSUME NEW e \in IF b.tab = "channels" THEN Routes!ChannelEditDialog(b)
                        ELSE Routes!RouteEditDialog(b),
              d = [b EXCEPT !.item[e.field] = e.value, !.typed = @ \cup {e.field}]
       PROVE  IsTypedDialog(d)
  <2>1. PICK item : item = b.item
    OBVIOUS
  <2>2. /\ IsDialog(d) /\ d.tab = b.tab /\ d.id = b.id
        /\ d.item = [item EXCEPT ![e.field] = e.value]
    BY <1>4, <1>10, <2>1 DEF IsDialog
  <2>3. IsItem(b.tab, d.item)
    <3>1. CASE b.tab = "channels"
      <4>1. item \in Routes!Channel /\ e \in Routes!ChannelEdits(item)
        BY <1>7, <1>10, <2>1, <3>1 DEF IsItem, Routes!ChannelEditDialog
      <4>2. d.item \in Routes!Channel
        BY <2>2, <4>1, ChannelsStayChannels
      <4>3. QED
        BY <3>1, <4>2 DEF IsItem
    <3>2. CASE b.tab # "channels"
      <4>1. b.tab = "routes"
        BY <1>8, <3>2 DEF IsTypedDialog, Routes!Tabs
      <4>2. /\ item \in Routes!Route(ChannelIds)
            /\ e \in Routes!RouteEdits(item, boxes)
        BY <1>5, <1>7, <1>10, <2>1, <3>2, <4>1 DEF IsItem, Routes!RouteEditDialog
      <4>3. \A x \in Routes!RouteEdits(item, boxes) :
                [item EXCEPT ![x.field] = x.value] \in Routes!Route(ChannelIds)
        BY <4>2, RoutesStayRoutes, Zenon
      <4>4. d.item \in Routes!Route(ChannelIds)
        BY <2>2, <4>2, <4>3
      <4>5. QED
        BY <4>1, <4>4 DEF IsItem
    <3>3. QED
      BY <3>1, <3>2
  <2>4. QED
    BY <1>8, <2>2, <2>3 DEF IsTypedDialog
<1>11. QED
  BY <1>8, <1>9, <1>10

LEMMA RoutesTypedBegin == Routes!Init => RoutesTyped
<1> SUFFICES ASSUME Routes!Init PROVE RoutesTyped
  OBVIOUS
<1>1. /\ channels = InitChannels /\ routes = InitRoutes /\ generated = {}
      /\ dialog = None /\ calls = {}
  BY DEF Routes!Init
<1>2. \A l \in loads : l.n = 1 /\ l.channels = None /\ l.routes = None
  BY DEF Routes!Init
<1>3. shown.channels = <<>> /\ shown.routes = <<>>
  BY DEF Routes!Init
<1>4. AreChannels(shown.channels) /\ AreRoutes(shown.routes)
  BY <1>3 DEF AreChannels, AreRoutes, Routes!IsStore
<1>5. AreChannels(channels) /\ AreRoutes(routes)
  BY <1>1, RoutesAssumed DEF AreChannels, AreRoutes
<1>6. QED
  BY <1>1, <1>2, <1>4, <1>5 DEF RoutesTyped, IsTypedLoad

LEMMA StoresStayStores ==
    ASSUME NEW all, NEW items, NEW s, Routes!IsStore(s, all, items)
    PROVE  /\ \A id \in all, item \in items : Routes!IsStore(Routes!With(s, id, item), all, items)
           /\ \A id : Routes!IsStore(Routes!Restrict(s, DOMAIN s \ {id}), all, items)
<1>1. ASSUME NEW id \in all, NEW item \in items
      PROVE  Routes!IsStore(Routes!With(s, id, item), all, items)
  <2>1. PICK t : t = [i \in DOMAIN s \cup {id} |-> IF i = id THEN item ELSE s[i]]
    OBVIOUS
  <2>2. Routes!IsStore(t, all, items)
    BY <2>1 DEF Routes!IsStore
  <2>3. QED
    BY <2>1, <2>2 DEF Routes!With
<1>2. ASSUME NEW id PROVE Routes!IsStore(Routes!Restrict(s, DOMAIN s \ {id}), all, items)
  <2>1. PICK t : t = [i \in DOMAIN s \ {id} |-> s[i]]
    OBVIOUS
  <2>2. Routes!IsStore(t, all, items)
    BY <2>1 DEF Routes!IsStore
  <2>3. QED
    BY <2>1, <2>2 DEF Routes!Restrict
<1>3. QED
  BY <1>1, <1>2

LEMMA RoutesUserTyped ==
    ASSUME RoutesTyped, Routes!User
    PROVE  RoutesTyped'
<1>1. ASSUME UNCHANGED <<channels, routes, generated, shown, loads>>,
             dialog' # None => IsTypedDialog(dialog'),
             \A c \in calls' : c \in calls \/ IsTypedCall(c)
      PROVE  RoutesTyped'
  <2>1. \A l \in loads' : IsTypedLoad(l)
    BY <1>1 DEF RoutesTyped
  <2>2. QED
    BY <1>1, <2>1
       DEF RoutesTyped, AreChannels, AreRoutes, Routes!IsStore, IsTypedLoad, IsTypedDialog,
           IsDialog, IsTypedCall, IsItem, IdsOf
<1>2. ASSUME Routes!Look, dialog' # None => IsTypedDialog(dialog') PROVE RoutesTyped'
  BY <1>1, <1>2 DEF Routes!Look, Routes!view, Routes!server
<1>3. ASSUME NEW c, IsTypedCall(c), Routes!Click(c),
             dialog' # None => IsTypedDialog(dialog')
      PROVE  RoutesTyped'
  BY <1>1, <1>3 DEF Routes!Click, Routes!view, Routes!server
<1>4. ASSUME NEW tab \in Routes!Tabs, NEW id \in IdsOf(tab) \cup {None},
             NEW item, IsItem(tab, item)
      PROVE  IsTypedDialog(Routes!Dialog(tab, id, item))
  BY <1>4 DEF IsTypedDialog, IsDialog, Routes!Dialog
<1>5. ASSUME NEW tab \in Routes!Tabs, NEW id, Routes!EditItem(tab, id) PROVE RoutesTyped'
  <2>1. /\ Routes!Look /\ id \in DOMAIN shown[tab]
        /\ dialog' = Routes!Dialog(tab, id, shown[tab][id])
    BY <1>5, Zenon DEF Routes!EditItem, Routes!OpenDialog
  <2>2. id \in IdsOf(tab) /\ IsItem(tab, shown[tab][id])
    BY <2>1 DEF RoutesTyped, AreChannels, AreRoutes, Routes!IsStore, IdsOf, IsItem,
                Routes!Tabs
  <2>3. QED
    BY <1>2, <1>4, <2>1, <2>2
<1>6. CASE Routes!AddChannel \/ Routes!AddRoute
  <2>1. /\ Routes!Look
        /\ \/ dialog' = Routes!Dialog("channels", None, Routes!NewChannel)
           \/ dialog' = Routes!Dialog("routes", None, Routes!NewRoute)
    BY <1>6, Zenon DEF Routes!AddChannel, Routes!AddRoute, Routes!OpenDialog
  <2>2. IsItem("channels", Routes!NewChannel) /\ IsItem("routes", Routes!NewRoute)
    BY NewItems DEF IsItem
  <2>3. "channels" \in Routes!Tabs /\ "routes" \in Routes!Tabs
    BY DEF Routes!Tabs
  <2>4. IsTypedDialog(dialog')
    BY <1>4, <2>1, <2>2, <2>3
  <2>5. QED
    BY <1>2, <2>1, <2>4
<1>7. CASE Routes!Cancel
  BY <1>2, <1>7 DEF Routes!Cancel
<1>8. ASSUME NEW tab, Routes!HandleSave(tab) PROVE RoutesTyped'
  <2>1. dialog # None
    BY <1>8, Zenon DEF Routes!HandleSave
  <2>2. PICK d \in Routes!Typed : dialog' = d /\ Routes!Click(Routes!SaveCall(d))
    BY <1>8, Zenon DEF Routes!HandleSave
  <2>3. IsTypedDialog(d)
    BY <2>1, <2>2, TypedDialogStays
  <2>4. PICK c : c = Routes!SaveCall(d)
    OBVIOUS
  <2>5. c.tab = d.tab /\ c.id = d.id /\ c.item = d.item /\ c.phase = "sent"
    BY <2>4 DEF Routes!SaveCall, Routes!Call
  <2>6. IsTypedCall(c)
    BY <2>3, <2>5 DEF IsTypedDialog, IsTypedCall
  <2>7. QED
    BY <1>3, <2>2, <2>3, <2>4, <2>6
<1>9. ASSUME NEW tab \in Routes!Tabs, NEW id \in IdsOf(tab), Routes!HandleDelete(tab, id)
      PROVE  RoutesTyped'
  <2>1. dialog' = None /\ Routes!Click(Routes!Call("delete", tab, id))
    BY <1>9, Zenon DEF Routes!HandleDelete
  <2>2. IsTypedCall(Routes!Call("delete", tab, id))
    BY DEF IsTypedCall, Routes!Call
  <2>3. QED
    BY <1>3, <2>1, <2>2
<1>10. CASE Routes!HandleDeleteChannel \/ Routes!HandleDeleteRoute
  <2>1. IdsOf("channels") = ChannelIds /\ IdsOf("routes") = RouteIds
    BY DEF IdsOf
  <2>2. "channels" \in Routes!Tabs /\ "routes" \in Routes!Tabs
    BY DEF Routes!Tabs
  <2>3. CASE Routes!HandleDeleteChannel
    BY <1>9, <2>1, <2>2, <2>3 DEF Routes!HandleDeleteChannel
  <2>4. CASE Routes!HandleDeleteRoute
    BY <1>9, <2>1, <2>2, <2>4 DEF Routes!HandleDeleteRoute
  <2>5. QED
    BY <1>10, <2>3, <2>4
<1>11. QED
  BY <1>5, <1>6, <1>7, <1>8, <1>10, Zenon
     DEF Routes!User, Routes!HandleSaveChannel, Routes!HandleSaveRoute

(* What a request makes of the server, in types.                           *)
LEMMA RoutesHandleTyped ==
    ASSUME RoutesTyped, NEW c \in calls, IsRoutesCall(c), NEW answer \in Routes!Answers,
           \/ Routes!CheckRoute(c)
           \/ Routes!HandleChannel(c, answer)
           \/ Routes!HandleRoute(c, answer),
           UNCHANGED <<dialog, shown, loads>>
    PROVE  RoutesTyped'
<1>1. /\ UNCHANGED <<dialog, shown, loads>>
      /\ IsTypedCall(c) /\ AreChannels(channels) /\ AreRoutes(routes)
      /\ generated \subseteq Routes!ItemIds
  BY DEF RoutesTyped
<1>2. ASSUME NEW d, calls' = (calls \ {c}) \cup {d},
             IsSameRequest(c, d), d.phase \in {"sent", "ok", "refused"},
             AreChannels(channels'), AreRoutes(routes'), generated' \subseteq Routes!ItemIds
      PROVE  RoutesTyped'
  <2>1. IsTypedCall(d)
    BY <1>1, <1>2 DEF IsTypedCall, IsSameRequest
  <2>2. \A x \in calls' : IsTypedCall(x)
    BY <1>2, <2>1 DEF RoutesTyped
  <2>3. \A l \in loads' : IsTypedLoad(l)
    BY <1>1 DEF RoutesTyped
  <2>4. QED
    BY <1>1, <1>2, <2>2, <2>3
       DEF RoutesTyped, AreChannels, AreRoutes, Routes!IsStore, IsTypedLoad, IsTypedDialog,
           IsDialog, IsTypedCall, IsItem, IdsOf
<1>3. ASSUME NEW all, NEW store, c.id \in all \cup {None},
             NEW id \in Routes!Chosen(c, all, store)
      PROVE  id \in all
  BY <1>3 DEF Routes!Chosen
<1>4. ASSUME NEW id \in Routes!ItemIds,
             generated' = IF c.id = None THEN generated \cup {id} ELSE generated
      PROVE  generated' \subseteq Routes!ItemIds
  BY <1>1, <1>4
<1>5. /\ \A id : /\ AreChannels(Routes!Restrict(channels, DOMAIN channels \ {id}))
                /\ AreRoutes(Routes!Restrict(routes, DOMAIN routes \ {id}))
      /\ DOMAIN channels \subseteq ChannelIds /\ DOMAIN routes \subseteq RouteIds
  BY <1>1, StoresStayStores DEF AreChannels, AreRoutes, Routes!IsStore
<1> DEFINE saved == [c EXCEPT !.phase = answer]
           refused == [c EXCEPT !.phase = "refused"]
<1>0. /\ IsSameRequest(c, saved) /\ saved.phase \in {"sent", "ok", "refused"}
      /\ IsSameRequest(c, refused) /\ refused.phase \in {"sent", "ok", "refused"}
  BY DEF IsSameRequest, IsRoutesCall, Routes!Answers
<1>6. CASE Routes!HandleChannel(c, answer)
  <2>1. c.tab = "channels" /\ routes' = routes
    BY <1>6, Zenon DEF Routes!HandleChannel
  <2>2. /\ c.id \in ChannelIds \cup {None}
        /\ c.op # "delete" => c.item \in Routes!Channel
    BY <1>1, <2>1 DEF IsTypedCall, IdsOf, IsItem
  <2>3. AreRoutes(routes')
    BY <1>1, <2>1
  <2>4. CASE c.op = "create" /\ Routes!CreateChannel(c, answer)
    <3>1. PICK id \in Routes!Chosen(c, ChannelIds, channels) :
              /\ generated' = IF c.id = None THEN generated \cup {id} ELSE generated
              /\ IF id \in DOMAIN channels THEN Routes!Refused(c) /\ UNCHANGED channels
                 ELSE Routes!Saved(c, answer) /\ channels' = Routes!With(channels, id, c.item)
      BY <2>4, Zenon DEF Routes!CreateChannel
    <3>2. id \in ChannelIds /\ id \in Routes!ItemIds
      BY <1>3, <2>2, <3>1 DEF Routes!ItemIds
    <3>3. generated' \subseteq Routes!ItemIds
      BY <1>4, <3>1, <3>2
    <3>4. AreChannels(Routes!With(channels, id, c.item))
      BY <1>1, <2>2, <2>4, <3>2, StoresStayStores DEF AreChannels
    <3>5. CASE id \in DOMAIN channels
      <4>1. channels' = channels /\ calls' = (calls \ {c}) \cup {refused}
        BY <3>1, <3>5, Zenon DEF Routes!Refused, Routes!Update
      <4>2. QED
        BY <1>0, <1>1, <1>2, <2>3, <3>3, <4>1
    <3>6. CASE id \notin DOMAIN channels
      <4>1. /\ channels' = Routes!With(channels, id, c.item)
            /\ calls' = (calls \ {c}) \cup {saved}
        BY <3>1, <3>6, Zenon DEF Routes!Saved, Routes!Update
      <4>2. QED
        BY <1>0, <1>2, <2>3, <3>3, <3>4, <4>1
    <3>7. QED
      BY <3>5, <3>6
  <2>5. CASE c.op = "update" /\ Routes!UpdateChannel(c, answer)
    <3>1. \/ /\ channels' = channels
             /\ calls' = (calls \ {c}) \cup {refused}
          \/ /\ c.id \in DOMAIN channels /\ channels' = Routes!With(channels, c.id, c.item)
             /\ calls' = (calls \ {c}) \cup {saved}
      BY <2>5, Zenon DEF Routes!UpdateChannel, Routes!Refused, Routes!Saved, Routes!Update
    <3>2. generated' \subseteq Routes!ItemIds
      BY <1>1, <2>5 DEF Routes!UpdateChannel
    <3>3. AreChannels(channels')
      <4>1. CASE channels' = channels
        BY <1>1, <4>1
      <4>2. CASE c.id \in DOMAIN channels /\ channels' = Routes!With(channels, c.id, c.item)
        <5>1. c.id \in ChannelIds
          BY <1>5, <4>2
        <5>2. AreChannels(Routes!With(channels, c.id, c.item))
          BY <1>1, <2>2, <2>5, <5>1, StoresStayStores DEF AreChannels
        <5>3. QED
          BY <4>2, <5>2
      <4>3. QED
        BY <3>1, <4>1, <4>2
    <3>4. QED
      BY <1>0, <1>2, <2>3, <3>1, <3>2, <3>3
  <2>6. CASE c.op = "delete" /\ Routes!DeleteChannel(c, answer)
    <3>1. \/ /\ channels' = channels
             /\ calls' = (calls \ {c}) \cup {refused}
          \/ /\ channels' = Routes!Restrict(channels, DOMAIN channels \ {c.id})
             /\ calls' = (calls \ {c}) \cup {saved}
      BY <2>6, Zenon DEF Routes!DeleteChannel, Routes!Refused, Routes!Saved, Routes!Update
    <3>2. generated' \subseteq Routes!ItemIds
      BY <1>1, <2>6 DEF Routes!DeleteChannel
    <3>3. AreChannels(channels')
      BY <1>1, <1>5, <3>1
    <3>4. QED
      BY <1>0, <1>2, <2>3, <3>1, <3>2, <3>3
  <2>7. QED
    BY <1>6, <2>4, <2>5, <2>6, Zenon DEF Routes!HandleChannel
<1>7. CASE Routes!CheckRoute(c)
  <2>1. c.phase = "sent" /\ UNCHANGED <<channels, routes, generated>>
    BY <1>7 DEF Routes!CheckRoute, Routes!server
  <2>2. PICK d : /\ calls' = (calls \ {c}) \cup {d}
                 /\ d = refused \/ \E id : d = [c EXCEPT !.checked = @ \cup {id}]
    BY <1>7, Zenon DEF Routes!CheckRoute, Routes!Refused, Routes!Update
  <2>3. IsSameRequest(c, d) /\ d.phase \in {"sent", "ok", "refused"}
    BY <1>0, <2>1, <2>2 DEF IsSameRequest, IsRoutesCall
  <2>4. QED
    BY <1>1, <1>2, <2>1, <2>2, <2>3
<1>8. CASE Routes!HandleRoute(c, answer)
  <2>1. c.tab = "routes" /\ channels' = channels
    BY <1>8, Zenon DEF Routes!HandleRoute
  <2>2. /\ c.id \in RouteIds \cup {None}
        /\ c.op # "delete" => c.item \in Routes!Route(ChannelIds)
    BY <1>1, <2>1 DEF IsTypedCall, IdsOf, IsItem
  <2>3. AreChannels(channels')
    BY <1>1, <2>1
  <2>4. CASE c.op = "create" /\ Routes!CreateRoute(c, answer)
    <3>1. PICK id \in Routes!Chosen(c, RouteIds, routes) :
              /\ generated' = IF c.id = None THEN generated \cup {id} ELSE generated
              /\ IF id \in DOMAIN routes THEN Routes!Refused(c) /\ UNCHANGED routes
                 ELSE Routes!Saved(c, answer) /\ routes' = Routes!With(routes, id, c.item)
      BY <2>4, Zenon DEF Routes!CreateRoute
    <3>2. id \in RouteIds /\ id \in Routes!ItemIds
      BY <1>3, <2>2, <3>1 DEF Routes!ItemIds
    <3>3. generated' \subseteq Routes!ItemIds
      BY <1>4, <3>1, <3>2
    <3>4. AreRoutes(Routes!With(routes, id, c.item))
      BY <1>1, <2>2, <2>4, <3>2, StoresStayStores DEF AreRoutes
    <3>5. CASE id \in DOMAIN routes
      <4>1. routes' = routes /\ calls' = (calls \ {c}) \cup {refused}
        BY <3>1, <3>5, Zenon DEF Routes!Refused, Routes!Update
      <4>2. QED
        BY <1>0, <1>1, <1>2, <2>3, <3>3, <4>1
    <3>6. CASE id \notin DOMAIN routes
      <4>1. /\ routes' = Routes!With(routes, id, c.item)
            /\ calls' = (calls \ {c}) \cup {saved}
        BY <3>1, <3>6, Zenon DEF Routes!Saved, Routes!Update
      <4>2. QED
        BY <1>0, <1>2, <2>3, <3>3, <3>4, <4>1
    <3>7. QED
      BY <3>5, <3>6
  <2>5. CASE c.op = "update" /\ Routes!UpdateRoute(c, answer)
    <3>1. \/ /\ routes' = routes
             /\ calls' = (calls \ {c}) \cup {refused}
          \/ /\ c.id \in DOMAIN routes /\ routes' = Routes!With(routes, c.id, c.item)
             /\ calls' = (calls \ {c}) \cup {saved}
      BY <2>5, Zenon DEF Routes!UpdateRoute, Routes!Refused, Routes!Saved, Routes!Update
    <3>2. generated' \subseteq Routes!ItemIds
      BY <1>1, <2>5 DEF Routes!UpdateRoute
    <3>3. AreRoutes(routes')
      <4>1. CASE routes' = routes
        BY <1>1, <4>1
      <4>2. CASE c.id \in DOMAIN routes /\ routes' = Routes!With(routes, c.id, c.item)
        <5>1. c.id \in RouteIds
          BY <1>5, <4>2
        <5>2. AreRoutes(Routes!With(routes, c.id, c.item))
          BY <1>1, <2>2, <2>5, <5>1, StoresStayStores DEF AreRoutes
        <5>3. QED
          BY <4>2, <5>2
      <4>3. QED
        BY <3>1, <4>1, <4>2
    <3>4. QED
      BY <1>0, <1>2, <2>3, <3>1, <3>2, <3>3
  <2>6. CASE c.op = "delete" /\ Routes!DeleteRoute(c, answer)
    <3>1. \/ /\ routes' = routes
             /\ calls' = (calls \ {c}) \cup {refused}
          \/ /\ routes' = Routes!Restrict(routes, DOMAIN routes \ {c.id})
             /\ calls' = (calls \ {c}) \cup {saved}
      BY <2>6, Zenon DEF Routes!DeleteRoute, Routes!Refused, Routes!Saved, Routes!Update
    <3>2. generated' \subseteq Routes!ItemIds
      BY <1>1, <2>6 DEF Routes!DeleteRoute
    <3>3. AreRoutes(routes')
      BY <1>1, <1>5, <3>1
    <3>4. QED
      BY <1>0, <1>2, <2>3, <3>1, <3>2, <3>3
  <2>7. QED
    BY <1>8, <2>4, <2>5, <2>6, Zenon DEF Routes!HandleRoute
<1>9. QED
  BY <1>6, <1>7, <1>8

LEMMA RoutesTypedKept ==
    RoutesType /\ RoutesTyped /\ [Routes!Next]_(Routes!vars) => RoutesTyped'
<1> SUFFICES ASSUME RoutesType, RoutesTyped, [Routes!Next]_(Routes!vars) PROVE RoutesTyped'
  OBVIOUS
<1>1. ASSUME AreChannels(channels'), AreRoutes(routes'), generated' = generated,
             AreChannels(shown'.channels), AreRoutes(shown'.routes),
             \A l \in loads' : IsTypedLoad(l),
             dialog' = dialog \/ dialog' = None,
             calls' \subseteq calls
      PROVE  RoutesTyped'
  BY <1>1 DEF RoutesTyped, AreChannels, AreRoutes, Routes!IsStore, IsTypedLoad,
              IsTypedDialog, IsDialog, IsTypedCall, IsItem, IdsOf
<1>2. /\ AreChannels(channels) /\ AreRoutes(routes)
      /\ AreChannels(shown.channels) /\ AreRoutes(shown.routes)
      /\ \A l \in loads : IsTypedLoad(l) /\ IsLoad(l)
  BY DEF RoutesTyped, RoutesType
<1>3. ASSUME NEW l \in loads, Routes!AnswerLoad(l) PROVE RoutesTyped'
  <2>1. UNCHANGED <<shown, calls, channels, routes, generated, dialog>>
    BY <1>3 DEF Routes!AnswerLoad, Routes!server
  <2>2. PICK m : /\ loads' = (loads \ {l}) \cup {m}
                 /\ \/ m = [l EXCEPT !.channels = channels]
                    \/ m = [l EXCEPT !.routes = routes]
    BY <1>3, Zenon DEF Routes!AnswerLoad
  <2>3. /\ m.n = l.n
        /\ \/ m.channels = channels /\ m.routes = l.routes
           \/ m.channels = l.channels /\ m.routes = routes
    BY <1>2, <2>2 DEF IsLoad
  <2>4. IsTypedLoad(m)
    BY <1>2, <2>3 DEF IsTypedLoad
  <2>5. \A x \in loads' : IsTypedLoad(x)
    BY <1>2, <2>2, <2>4
  <2>6. QED
    BY <1>1, <1>2, <2>1, <2>5
<1>4. ASSUME NEW l \in loads, Routes!ArriveLoad(l) PROVE RoutesTyped'
  <2>1. /\ UNCHANGED <<calls, channels, routes, generated, dialog>>
        /\ l.channels # None /\ l.routes # None /\ loads' = loads \ {l}
        /\ shown' = [channels |-> l.channels, routes |-> l.routes, load |-> l.n]
    BY <1>4 DEF Routes!ArriveLoad, Routes!server
  <2>2. AreChannels(shown'.channels) /\ AreRoutes(shown'.routes)
    BY <1>2, <2>1 DEF IsTypedLoad
  <2>3. QED
    BY <1>1, <1>2, <2>1, <2>2
<1>5. ASSUME NEW l \in loads, Routes!FailLoad(l) PROVE RoutesTyped'
  <2>1. /\ UNCHANGED <<shown, calls, channels, routes, generated, dialog>>
        /\ loads' = loads \ {l}
    BY <1>5 DEF Routes!FailLoad, Routes!server
  <2>2. QED
    BY <1>1, <1>2, <2>1
<1>6. CASE Routes!OtherDelete
  <2>1. PICK id : channels' = Routes!Restrict(channels, DOMAIN channels \ {id})
    BY <1>6 DEF Routes!OtherDelete
  <2>2. UNCHANGED <<shown, loads, calls, routes, generated, dialog>>
    BY <1>6 DEF Routes!OtherDelete, Routes!view
  <2>3. AreChannels(channels')
    BY <1>2, <2>1, StoresStayStores DEF AreChannels
  <2>4. QED
    BY <1>1, <1>2, <2>2, <2>3
<1>7. ASSUME NEW c \in calls, Routes!Handle(c) PROVE RoutesTyped'
  <2>1. /\ IsRoutesCall(c) /\ "ok" \in Routes!Answers
        /\ UNCHANGED <<dialog, shown, loads>>
    BY <1>7 DEF RoutesType, Routes!Answers, Routes!Handle, Routes!view
  <2>2. \/ Routes!CheckRoute(c)
        \/ Routes!HandleChannel(c, "ok")
        \/ Routes!HandleRoute(c, "ok")
    BY <1>7, Zenon DEF Routes!Handle
  <2>3. QED
    BY <2>1, <2>2, RoutesHandleTyped, Zenon
<1>8. ASSUME NEW c \in calls, Routes!Deliver(c) PROVE RoutesTyped'
  <2>1. /\ calls' = calls \ {c} /\ UNCHANGED <<shown, channels, routes, generated>>
        /\ dialog' = dialog \/ dialog' = None
    BY <1>8 DEF Routes!Deliver, Routes!server
  <2>2. loads' = loads \/ loads' = loads \cup {Routes!NewLoad}
    BY <1>8, Zenon DEF Routes!Deliver, Routes!LoadData
  <2>3. IsTypedLoad(Routes!NewLoad)
    BY DEF IsTypedLoad, Routes!NewLoad, RoutesType
  <2>4. QED
    BY <1>1, <1>2, <2>1, <2>2, <2>3
<1>9. CASE UNCHANGED Routes!vars
  <2>1. UNCHANGED <<channels, routes, generated, shown, loads, dialog, calls>>
    BY <1>9 DEF Routes!vars
  <2>2. QED
    BY <1>1, <1>2, <2>1
<1>10. ASSUME NEW c \in calls, Routes!HandleUnsaved(c) PROVE RoutesTyped'
  <2>1. /\ IsRoutesCall(c) /\ "refused" \in Routes!Answers
        /\ UNCHANGED <<dialog, shown, loads>>
    BY <1>10 DEF RoutesType, Routes!Answers, Routes!HandleUnsaved, Routes!view
  <2>2. Routes!HandleChannel(c, "refused") \/ Routes!HandleRoute(c, "refused")
    BY <1>10, Zenon DEF Routes!HandleUnsaved
  <2>3. QED
    BY <2>1, <2>2, RoutesHandleTyped, Zenon
<1>11. QED
  BY <1>3, <1>4, <1>5, <1>6, <1>7, <1>8, <1>9, <1>10, RoutesUserTyped, Zenon
     DEF Routes!Next, Routes!Load, Routes!Serve

LEMMA RoutesPageTyped == RoutesType /\ RoutesTyped => Routes!TypeOK
<1> SUFFICES ASSUME RoutesType, RoutesTyped PROVE Routes!TypeOK
  OBVIOUS
<1>1. \A l \in loads : l.n \in 1 .. loaded
  BY DEF RoutesType, RoutesTyped, IsLoad, IsTypedLoad
<1>2. dialog # None => dialog.tab \in Routes!Tabs /\ dialog.id \in Routes!ItemIds \cup {None}
  BY DEF RoutesTyped, IsTypedDialog, IdsOf, Routes!ItemIds
<1>3. \A c \in calls : c.phase \in {"sent"} \cup Routes!Answers
  BY DEF RoutesTyped, IsTypedCall, Routes!Answers
<1>4. QED
  BY <1>1, <1>2, <1>3, Zenon DEF RoutesTyped, AreChannels, AreRoutes, Routes!TypeOK

-----------------------------------------------------------------------------
(* The pages of the alert rules. *)

(* What an entry holds, and that it holds nothing it was not given.        *)
Held(q) == {q.data, q.answer} \ {None}

LEMMA NothingElseIsHeld ==
    ASSUME NEW q, IsEntry(q), NEW v, NEW used
    PROVE  /\ Held(Cache!EmptyQuery) = {} /\ Held(Cache!Mounted(Cache!EmptyQuery)) = {}
           /\ Held(Cache!Mounted(q)) \subseteq Held(q)
           /\ Held(Cache!Invalidated(q, used)) \subseteq Held(q)
           /\ Held(Cache!Mounted(Cache!Invalidated(q, used))) \subseteq Held(q)
           /\ Held(Cache!Answered(q, v)) \subseteq Held(q) \cup {v}
           /\ Held(Cache!Arrived(q)) \subseteq Held(q)
<1>1. Held(Cache!EmptyQuery) = {}
  BY DEF Held, Cache!EmptyQuery
<1>2. ASSUME NEW r, IsEntry(r)
      PROVE  /\ Held(Cache!Asked(r)) \subseteq Held(r) /\ IsEntry(Cache!Asked(r))
  BY <1>2 DEF Held, IsEntry, Cache!Asked
<1>3. IsEntry(Cache!EmptyQuery)
  BY EmptyIsFresh
<1>4. ASSUME NEW r, IsEntry(r)
      PROVE  Held(Cache!Mounted(r)) \subseteq Held(r) /\ IsEntry(Cache!Mounted(r))
  <2>1. Cache!Mounted(r) = r \/ Cache!Mounted(r) = Cache!Asked(r)
    BY Zenon DEF Cache!Mounted
  <2>2. QED
    BY <1>2, <1>4, <2>1
<1>5. /\ Held(Cache!Invalidated(q, used)) \subseteq Held(q)
      /\ IsEntry(Cache!Invalidated(q, used))
  <2>1. \/ Cache!Invalidated(q, used) = q
        \/ Cache!Invalidated(q, used) = Cache!Asked(q)
        \/ Cache!Invalidated(q, used) = Cache!Mounted(q)
    BY Zenon DEF Cache!Invalidated
  <2>2. QED
    BY <1>2, <1>4, <2>1
<1>6. Held(Cache!Answered(q, v)) \subseteq Held(q) \cup {v}
  BY DEF Held, IsEntry, Cache!Answered
<1>7. Held(Cache!Arrived(q)) \subseteq Held(q)
  BY DEF Held, Cache!Arrived
<1>8. Held(Cache!Mounted(Cache!EmptyQuery)) = {}
  BY <1>1, <1>3, <1>4
<1>9. Held(Cache!Mounted(Cache!Invalidated(q, used))) \subseteq Held(q)
  BY <1>4, <1>5
<1>10. QED
  BY <1>1, <1>4, <1>5, <1>6, <1>7, <1>8, <1>9

Drafts == [name: {"", "old", "new"}, enabled: BOOLEAN, text: {"", "old", "new"},
           mode: {"collection", "scheduled"}, interval: Alerts!Windows,
           condition: Alerts!Condition, labels: SUBSET Alerts!LabelKeys]

LEMMA GivenIsTyped == ASSUME NEW w \in Alerts!Windows PROVE Alerts!Given(w) \in Alerts!Windows
  BY DEF Alerts!Given, Alerts!Windows

LEMMA NewRuleIsTyped == Alerts!NewRule \in Drafts
<1>1. Alerts!NewCondition("threshold") \in Alerts!Condition
  BY NewConditionType DEF Alerts!Types
<1>2. Alerts!Given("blank") \in Alerts!Windows
  BY GivenIsTyped DEF Alerts!Windows
<1>3. {} \subseteq Alerts!LabelKeys
  OBVIOUS
<1>4. QED
  BY <1>1, <1>2, <1>3 DEF Alerts!NewRule, Drafts

LEMMA DraftsStayDrafts ==
    ASSUME NEW r \in Drafts, NEW e \in Alerts!Edits(r)
    PROVE  /\ e.field \in Alerts!Fields
           /\ [r EXCEPT ![e.field] = e.value] \in Drafts
<1>1. IsDraft(r)
  BY DEF Drafts, IsDraft, Alerts!Fields
<1>2. /\ e.field \in Alerts!Fields
      /\ IsDraft([r EXCEPT ![e.field] = e.value])
  BY <1>1, EditKeepsDraft
<1>3. PICK field, value : field = e.field /\ value = e.value
  OBVIOUS
<1>4. ASSUME NEW name, NEW values, e \in Alerts!Change(name, values)
      PROVE  field = name /\ value \in values
  BY <1>3, <1>4 DEF Alerts!Change
<1>5. \/ field = "name" /\ value \in {"new"}
      \/ field = "text" /\ value \in {"new"}
      \/ field = "mode" /\ value \in {"collection", "scheduled"}
      \/ field = "interval" /\ value \in Alerts!IntervalEdits(r)
      \/ field = "condition"
      \/ field = "labels" /\ value \in Alerts!LabelEdits(r.labels)
  BY <1>4, Zenon DEF Alerts!Edits
<1>6. [r EXCEPT ![field] = value] \in Drafts
  <2>1. CASE field = "name" /\ value \in {"new"}
    BY <2>1 DEF Drafts
  <2>2. CASE field = "text" /\ value \in {"new"}
    BY <2>2 DEF Drafts
  <2>3. CASE field = "mode" /\ value \in {"collection", "scheduled"}
    BY <2>3 DEF Drafts
  <2>4. CASE field = "condition"
    <3>1. value \in Alerts!Condition
      BY <1>1, <1>2, <1>3, <2>4 DEF IsDraft, Alerts!Fields
    <3>2. QED
      BY <2>4, <3>1 DEF Drafts
  <2>5. CASE field = "labels" /\ value \in Alerts!LabelEdits(r.labels)
    <3>1. r.labels \subseteq Alerts!LabelKeys
      BY DEF Drafts
    <3>2. ASSUME NEW labels \in SUBSET Alerts!LabelKeys
          PROVE  Alerts!Read(labels) \subseteq Alerts!LabelKeys
      BY DEF Alerts!Read, Alerts!LabelKeys
    <3>3. r.labels \cup {"plain"} \subseteq Alerts!LabelKeys
      BY <3>1 DEF Alerts!LabelKeys
    <3>4. value \subseteq Alerts!LabelKeys
      BY <2>5, <3>1, <3>2, <3>3 DEF Alerts!LabelEdits
    <3>5. QED
      BY <2>5, <3>4 DEF Drafts
  <2>6. CASE field = "interval" /\ value \in Alerts!IntervalEdits(r)
    <3>1. value \in Alerts!Windows
      BY <2>6 DEF Alerts!IntervalEdits
    <3>2. QED
      BY <2>6, <3>1 DEF Drafts
  <2>7. QED
    BY <1>5, <2>1, <2>2, <2>3, <2>4, <2>5, <2>6
<1>7. QED
  BY <1>2, <1>3, <1>6

(* What the server makes of a draft, and the form of a rule.               *)
LEMMA StoredIsTyped ==
    ASSUME NEW r \in Drafts, NEW state \in Alerts!States
    PROVE  Alerts!Stored(r, state) \in Alerts!Rule
<1>1. PICK c : c = Alerts!Parsed(r.condition)
  OBVIOUS
<1>2. c \in Alerts!Condition
  BY <1>1 DEF Drafts, Alerts!Parsed, Alerts!Condition
<1>3. PICK t : t = [name |-> r.name, enabled |-> r.enabled, text |-> r.text, mode |-> r.mode,
                    interval |-> r.interval, ms |-> r.interval, condition |-> c,
                    labels |-> r.labels, state |-> state, seen |-> FALSE]
  OBVIOUS
<1>4. t \in Alerts!Rule
  BY <1>2, <1>3 DEF Drafts, Alerts!Rule
<1>5. Alerts!Stored(r, state) = t
  <2> DEFINE all == Alerts!Fields \cup {"ms", "state", "seen"}
  <2>1. PICK s : s = Alerts!Stored(r, state)
    OBVIOUS
  <2>2. s = [f \in all |-> s[f]]
    BY <2>1 DEF Alerts!Stored
  <2>3. t = [f \in all |-> t[f]]
    BY <1>3 DEF Alerts!Fields
  <2>4. ASSUME NEW f \in all PROVE s[f] = t[f]
    <3>1. s[f] = CASE f = "ms" -> r.interval
                   [] f = "state" -> state
                   [] f = "seen" -> FALSE
                   [] f = "condition" -> c
                   [] OTHER -> r[f]
      BY <1>1, <2>1, Zenon DEF Alerts!Stored
    <3>2. CASE f \in {"ms", "state", "seen", "condition"}
      <4>1. CASE f = "ms"
        BY <1>3, <3>1, <4>1
      <4>2. CASE f = "state"
        BY <1>3, <3>1, <4>2
      <4>3. CASE f = "seen"
        <5>1. s["seen"] = FALSE
          BY <2>1, Zenon DEF Alerts!Stored
        <5>2. t["seen"] = FALSE
          BY <1>3, Zenon
        <5>3. QED
          BY <4>3, <5>1, <5>2
      <4>4. CASE f = "condition"
        BY <1>3, <3>1, <4>4
      <4>5. QED
        BY <3>2, <4>1, <4>2, <4>3, <4>4
    <3>3. CASE f \notin {"ms", "state", "seen", "condition"}
      <4>1. s[f] = r[f]
        BY <3>1, <3>3
      <4>2. f \in {"name", "enabled", "text", "mode", "interval", "labels"}
        BY <3>3 DEF Alerts!Fields
      <4>3. QED
        BY <1>3, <4>1, <4>2
    <3>4. QED
      BY <3>2, <3>3
  <2> HIDE DEF all
  <2>5. QED
    BY <2>1, <2>2, <2>3, <2>4
<1>6. QED
  BY <1>4, <1>5

LEMMA FormIsTyped ==
    ASSUME NEW r \in Alerts!Rule
    PROVE  Alerts!Copied(r) \in Drafts
<1>1. PICK w : w = Alerts!Given(r.interval)
  OBVIOUS
<1>2. PICK t : t = [name |-> r.name, enabled |-> r.enabled, text |-> r.text, mode |-> r.mode,
                    interval |-> w, condition |-> r.condition, labels |-> r.labels]
  OBVIOUS
<1>3. w \in Alerts!Windows
  BY <1>1, GivenIsTyped DEF Alerts!Rule
<1>4. t \in Drafts
  BY <1>2, <1>3 DEF Drafts, Alerts!Rule
<1>5. Alerts!Copied(r) = t
  BY <1>1, <1>2 DEF Alerts!Copied, Alerts!Fields
<1>6. QED
  BY <1>4, <1>5

HoldsStores(q) == \A s \in Held(q) : Alerts!IsStore(s)

AlertsTyped ==
    /\ Alerts!IsStore(server) /\ HoldsStores(list)
    /\ \A id \in Ids : rules[id] \in Cache!Query(Alerts!Rule)
    /\ page \in Alerts!Pages
    /\ dialog \in Ids \cup {None}
    /\ form # None => form.rule \in Drafts /\ form.typed \subseteq Alerts!Fields
    /\ \A c \in calls :
           /\ c.phase \in {"sent", "ok", "refused"}
           /\ c.op \in {"create", "update"} => c.rule \in Drafts

LEMMA AlertsTypedBegin == Alerts!Init => AlertsTyped
<1> SUFFICES ASSUME Alerts!Init PROVE AlertsTyped
  OBVIOUS
<1>1. /\ list = IF page = "list" THEN Cache!Mounted(Cache!EmptyQuery) ELSE Cache!EmptyQuery
      /\ rules = [id \in Ids |-> IF page = id THEN Cache!Mounted(Cache!EmptyQuery)
                                 ELSE Cache!EmptyQuery]
      /\ calls = {} /\ form = None /\ dialog = None
      /\ page \in {"list"} \cup DOMAIN server
  BY OneCache DEF Alerts!Init
<1>2. PICK s \in Sessions : server = s.rules
  BY Zenon DEF Alerts!Init
<1>3. Alerts!IsStore(server)
  BY <1>2, AlertsAssumed
<1>4. page \in Alerts!Pages
  BY <1>1, <1>3 DEF Alerts!IsStore, Alerts!Pages
<1>5. Held(list) = {}
  <2>1. IsEntry(Cache!EmptyQuery)
    BY EmptyIsFresh
  <2>2. QED
    BY <1>1, <2>1, NothingElseIsHeld
<1>6. \A id \in Ids : rules[id] \in {Cache!EmptyQuery, Cache!Mounted(Cache!EmptyQuery)}
  BY <1>1
<1>7. {Cache!EmptyQuery, Cache!Mounted(Cache!EmptyQuery)} \subseteq Cache!Query(Alerts!Rule)
  <2>1. Cache!EmptyQuery \in Cache!Query(Alerts!Rule)
    BY DEF Cache!EmptyQuery, Cache!Query
  <2>2. QED
    BY <2>1, EntriesStayEntries
<1>8. \A id \in Ids : rules[id] \in Cache!Query(Alerts!Rule)
  BY <1>6, <1>7
<1>9. QED
  BY <1>1, <1>3, <1>4, <1>5, <1>8 DEF AlertsTyped, HoldsStores

(* A page that is gone to is one there is, and fetches what it shows.      *)
LEMMA MountIsTyped ==
    ASSUME AlertsCache, AlertsTyped, NEW p \in Alerts!Pages, Alerts!Leave(p)
    PROVE  /\ page' \in Alerts!Pages /\ dialog' = None
           /\ HoldsStores(list')
           /\ \A id \in Ids : rules'[id] \in Cache!Query(Alerts!Rule)
<1>1. /\ page' = p /\ dialog' = None
      /\ list' = IF p = "list" THEN Cache!Mounted(list) ELSE list
      /\ rules' = [id \in Ids |-> IF p = id THEN Cache!Mounted(rules[id]) ELSE rules[id]]
  BY OneCache DEF Alerts!Leave, Alerts!Mount
<1>2. Held(list') \subseteq Held(list)
  BY <1>1, NothingElseIsHeld DEF AlertsCache
<1>3. ASSUME NEW id \in Ids PROVE rules'[id] \in Cache!Query(Alerts!Rule)
  <2>1. rules[id] \in Cache!Query(Alerts!Rule)
    BY DEF AlertsTyped
  <2>2. Cache!Mounted(rules[id]) \in Cache!Query(Alerts!Rule)
    BY <2>1, EntriesStayEntries
  <2>3. QED
    BY <1>1, <2>1, <2>2
<1>4. QED
  BY <1>1, <1>2, <1>3 DEF AlertsTyped, HoldsStores

LEMMA AlertsUserTyped ==
    ASSUME AlertsType, AlertsTyped, Alerts!User
    PROVE  AlertsTyped'
<1>1. AlertsCache
  BY DEF AlertsType
<1>2. ASSUME server' = server,
             \/ UNCHANGED <<list, rules, page>> /\ dialog' \in Ids \cup {None}
             \/ \E p \in Alerts!Pages : Alerts!Leave(p),
             form' # None => form'.rule \in Drafts /\ form'.typed \subseteq Alerts!Fields,
             \A c \in calls' :
                 \/ c \in calls
                 \/ /\ c.phase = "sent"
                    /\ c.op \in {"create", "update"} => c.rule \in Drafts
      PROVE  AlertsTyped'
  <2>1. /\ page' \in Alerts!Pages /\ dialog' \in Ids \cup {None}
        /\ HoldsStores(list')
        /\ \A id \in Ids : rules'[id] \in Cache!Query(Alerts!Rule)
    <3>1. CASE UNCHANGED <<list, rules, page>> /\ dialog' \in Ids \cup {None}
      BY <3>1 DEF AlertsTyped
    <3>2. CASE \E p \in Alerts!Pages : Alerts!Leave(p)
      BY <1>1, <3>2, MountIsTyped
    <3>3. QED
      BY <1>2, <3>1, <3>2
  <2>2. HoldsStores(list)'
    BY <2>1 DEF HoldsStores, Held, Alerts!IsStore
  <2>3. Alerts!IsStore(server)'
    BY <1>2 DEF AlertsTyped, Alerts!IsStore
  <2>4. QED
    BY <1>2, <2>1, <2>2, <2>3 DEF AlertsTyped
<1>3. form # None => form.rule \in Drafts /\ form.typed \subseteq Alerts!Fields
  BY DEF AlertsTyped
<1>4. dialog \in Ids \cup {None}
  BY DEF AlertsTyped
<1>5. ASSUME NEW c, Alerts!Click(c)
      PROVE  calls' = calls \cup {c} /\ UNCHANGED <<server, list, rules>>
  BY <1>5 DEF Alerts!Click, Alerts!cache
<1>6. ASSUME NEW op, NEW id
      PROVE  Alerts!Call(op, id).phase = "sent" /\ Alerts!Call(op, id).op = op
  BY DEF Alerts!Call
<1>7. ASSUME Alerts!Look PROVE UNCHANGED <<server, calls>>
  BY <1>7 DEF Alerts!Look
<1>8. ASSUME NEW p \in Alerts!Pages, Alerts!Open(p) PROVE AlertsTyped'
  <2>1. Alerts!Look /\ Alerts!Leave(p)
    BY <1>8, Zenon DEF Alerts!Open
  <2>2. form' = Alerts!NewForm \/ form' = None
    BY <1>8, Zenon DEF Alerts!Open
  <2>3. Alerts!NewForm.rule \in Drafts /\ Alerts!NewForm.typed = {}
    BY NewRuleIsTyped DEF Alerts!NewForm
  <2>4. QED
    BY <1>2, <1>7, <2>1, <2>2, <2>3
<1>9. ASSUME NEW id \in Ids, Alerts!Toggle(id) PROVE AlertsTyped'
  <2>1. UNCHANGED <<page, form, dialog>>
    BY <1>9 DEF Alerts!Toggle, Alerts!pageVars
  <2>2. PICK op \in {"disable", "enable"} : Alerts!Click(Alerts!Call(op, id))
    BY <1>9, Zenon DEF Alerts!Toggle
  <2>3. QED
    BY <1>2, <1>3, <1>4, <1>5, <1>6, <2>1, <2>2
<1>10. ASSUME NEW id \in Ids, Alerts!AskDelete(id) PROVE AlertsTyped'
  <2>1. Alerts!Look /\ UNCHANGED <<page, form, list, rules>> /\ dialog' = id
    BY <1>10 DEF Alerts!AskDelete, Alerts!cache
  <2>2. QED
    BY <1>2, <1>3, <1>7, <2>1
<1>11. ASSUME NEW id \in Ids, Alerts!StartEdit(id) PROVE AlertsTyped'
  <2>1. /\ Alerts!Look /\ UNCHANGED <<page, dialog, list, rules>>
        /\ rules[id].data # None
        /\ form' = [rule |-> Alerts!Copied(rules[id].data), typed |-> {}]
    BY <1>11 DEF Alerts!StartEdit, Alerts!Shown, Alerts!cache
  <2>2. rules[id].data \in Alerts!Rule
    BY <2>1 DEF AlertsTyped, Cache!Query
  <2>3. form'.rule \in Drafts /\ form'.typed = {}
    BY <2>1, <2>2, FormIsTyped
  <2>4. QED
    BY <1>2, <1>4, <1>7, <2>1, <2>3
<1>12. ASSUME NEW confirmed, Alerts!AnswerDialog(confirmed) PROVE AlertsTyped'
  <2>1. page' = page /\ form' = form /\ dialog' = None
    BY <1>12, Zenon DEF Alerts!AnswerDialog
  <2>2. \/ Alerts!Click(Alerts!Call("delete", dialog))
        \/ Alerts!Look /\ UNCHANGED Alerts!cache
    BY <1>12, Zenon DEF Alerts!AnswerDialog
  <2>3. CASE Alerts!Click(Alerts!Call("delete", dialog))
    BY <1>2, <1>3, <1>5, <1>6, <2>1, <2>3
  <2>4. CASE Alerts!Look /\ UNCHANGED Alerts!cache
    BY <1>2, <1>3, <1>7, <2>1, <2>4 DEF Alerts!cache
  <2>5. QED
    BY <2>2, <2>3, <2>4
<1>13. CASE Alerts!CancelForm
  <2>1. Alerts!Look /\ form' = None
    BY <1>13, Zenon DEF Alerts!CancelForm
  <2>2. \/ Alerts!Leave("list")
        \/ UNCHANGED <<page, dialog, list, rules>>
    BY <1>13 DEF Alerts!CancelForm, Alerts!cache
  <2>3. "list" \in Alerts!Pages
    BY DEF Alerts!Pages
  <2>4. QED
    BY <1>2, <1>4, <1>7, <2>1, <2>2, <2>3
<1>14. CASE Alerts!SaveForm
  <2>1. form # None /\ UNCHANGED <<page, dialog>>
    BY <1>14 DEF Alerts!SaveForm
  <2>2. PICK f \in Alerts!Typed :
            /\ form' = f
            /\ Alerts!Click([Alerts!Call(IF page = "new" THEN "create" ELSE "update", page)
                                EXCEPT !.rule = f.rule, !.typed = f.typed])
    BY <1>14, Zenon DEF Alerts!SaveForm
  <2>3. f.rule \in Drafts /\ f.typed \subseteq Alerts!Fields
    <3>1. CASE f = form
      BY <1>3, <2>1, <3>1
    <3>2. ASSUME NEW e \in Alerts!Edits(form.rule),
                 f = [rule |-> [form.rule EXCEPT ![e.field] = e.value],
                      typed |-> form.typed \cup {e.field}]
          PROVE  f.rule \in Drafts /\ f.typed \subseteq Alerts!Fields
      BY <1>3, <2>1, <3>2, DraftsStayDrafts
    <3>3. QED
      BY <3>1, <3>2 DEF Alerts!Typed
  <2>4. PICK c : c = [Alerts!Call(IF page = "new" THEN "create" ELSE "update", page)
                         EXCEPT !.rule = f.rule, !.typed = f.typed]
    OBVIOUS
  <2>5. c.phase = "sent" /\ c.rule = f.rule
    BY <2>4 DEF Alerts!Call
  <2>6. calls' = calls \cup {c} /\ UNCHANGED <<server, list, rules>>
    BY <1>5, <2>2, <2>4
  <2>7. QED
    BY <1>2, <1>4, <2>1, <2>2, <2>3, <2>5, <2>6
<1>15. QED
  BY <1>8, <1>9, <1>10, <1>11, <1>12, <1>13, <1>14, Zenon DEF Alerts!User

LEMMA ResultsAreTyped ==
    ASSUME AlertsTyped, NEW c \in calls, Alerts!Accepts(c), NEW s \in Alerts!Results(c)
    PROVE  Alerts!IsStore(s)
<1>1. Alerts!IsStore(server)
  BY DEF AlertsTyped
<1>2. c.op # "create" => c.id \in DOMAIN server
  BY DEF Alerts!Accepts
<1>3. c.op \in {"create", "update"} => c.rule \in Drafts
  BY DEF AlertsTyped
<1>4. CASE c.op = "create"
  <2>1. PICK rule : rule = Alerts!Stored(c.rule, "pending")
    OBVIOUS
  <2>2. PICK id \in Ids \ DOMAIN server :
            s = [i \in DOMAIN server \cup {id} |-> IF i = id THEN rule ELSE server[i]]
    BY <1>4, <2>1 DEF Alerts!Results
  <2>3. rule \in Alerts!Rule
    BY <1>3, <1>4, <2>1, StoredIsTyped DEF Alerts!States
  <2>4. QED
    BY <1>1, <2>2, <2>3 DEF Alerts!IsStore
<1>5. CASE c.op = "update"
  <2>1. PICK rule : rule = Alerts!Stored(c.rule, "")
    OBVIOUS
  <2>2. s = [server EXCEPT ![c.id] = rule]
    BY <1>5, <2>1 DEF Alerts!Results
  <2>3. rule \in Alerts!Rule
    BY <1>3, <1>5, <2>1, StoredIsTyped DEF Alerts!States
  <2>4. QED
    BY <1>1, <2>2, <2>3 DEF Alerts!IsStore
<1>6. CASE c.op = "delete"
  <2>1. s = [id \in DOMAIN server \ {c.id} |-> server[id]]
    BY <1>6 DEF Alerts!Results, Alerts!Restrict
  <2>2. QED
    BY <1>1, <2>1 DEF Alerts!IsStore
<1>7. CASE c.op \notin {"create", "update", "delete"}
  <2>1. PICK on \in BOOLEAN : on = (c.op = "enable")
    BY Zenon
  <2>2. s = [server EXCEPT ![c.id].enabled = on]
    BY <1>7, <2>1 DEF Alerts!Results
  <2>3. server[c.id] \in Alerts!Rule
    BY <1>1, <1>2, <1>7 DEF Alerts!IsStore
  <2>4. [server[c.id] EXCEPT !.enabled = on] \in Alerts!Rule
    BY <2>3 DEF Alerts!Rule
  <2>5. QED
    BY <1>1, <2>2, <2>4 DEF Alerts!IsStore
<1>8. QED
  BY <1>4, <1>5, <1>6, <1>7

LEMMA AlertsTypedKept ==
    AlertsType /\ AlertsTyped /\ [Alerts!Next]_(Alerts!vars) => AlertsTyped'
<1> SUFFICES ASSUME AlertsType, AlertsTyped, [Alerts!Next]_(Alerts!vars)
             PROVE  AlertsTyped'
  OBVIOUS
<1>1. /\ AlertsCache /\ IsEntry(list) /\ DOMAIN rules = Ids
      /\ \A c \in calls : IsAlertCall(c)
  BY DEF AlertsType, AlertsCache
<1>2. /\ Alerts!IsStore(server) /\ HoldsStores(list)
      /\ \A id \in Ids : rules[id] \in Cache!Query(Alerts!Rule)
      /\ page \in Alerts!Pages /\ dialog \in Ids \cup {None}
      /\ form # None => form.rule \in Drafts /\ form.typed \subseteq Alerts!Fields
  BY DEF AlertsTyped
<1>3. ASSUME Alerts!IsStore(server'), HoldsStores(list'),
             \A id \in Ids : rules'[id] \in Cache!Query(Alerts!Rule),
             page' \in {page, "list"}, dialog' \in {dialog, None},
             form' # None => form'.rule \in Drafts /\ form'.typed \subseteq Alerts!Fields,
             \A c \in calls' :
                 \/ c \in calls
                 \/ /\ c.phase \in {"ok", "refused"}
                    /\ c.op \in {"create", "update"} => c.rule \in Drafts
      PROVE  AlertsTyped'
  <2>1. HoldsStores(list)' /\ Alerts!IsStore(server)'
    BY <1>3 DEF HoldsStores, Held, Alerts!IsStore
  <2>2. page' \in Alerts!Pages
    BY <1>2, <1>3 DEF Alerts!Pages
  <2>3. QED
    BY <1>3, <2>1, <2>2 DEF AlertsTyped
<1>4. ASSUME NEW c \in calls, Alerts!Handle(c) PROVE AlertsTyped'
  <2>1. PICK p \in {"ok", "refused"} : calls' = (calls \ {c}) \cup {[c EXCEPT !.phase = p]}
    BY <1>4 DEF Alerts!Handle, Alerts!Update
  <2>2. PICK d : d = [c EXCEPT !.phase = p]
    OBVIOUS
  <2>3. d.phase = p /\ d.op = c.op /\ d.rule = c.rule
    BY <1>1, <2>2 DEF IsAlertCall
  <2>4. UNCHANGED <<list, rules, page, dialog, form>>
    BY <1>4 DEF Alerts!Handle, Alerts!cache, Alerts!pageVars
  <2>5. Alerts!IsStore(server')
    <3>1. CASE Alerts!Accepts(c)
      <4>1. server' \in Alerts!Results(c)
        BY <1>4, <3>1, Zenon DEF Alerts!Handle
      <4>2. QED
        BY <3>1, <4>1, ResultsAreTyped
    <3>2. CASE ~Alerts!Accepts(c)
      <4>1. server' = server
        BY <1>4, <3>2, Zenon DEF Alerts!Handle
      <4>2. QED
        BY <1>2, <4>1
    <3>3. QED
      BY <3>1, <3>2
  <2>6. d.op \in {"create", "update"} => d.rule \in Drafts
    BY <2>3 DEF AlertsTyped
  <2>7. QED
    BY <1>2, <1>3, <2>1, <2>2, <2>3, <2>4, <2>5, <2>6
<1>5. ASSUME NEW c \in calls, Alerts!Deliver(c) PROVE AlertsTyped'
  <2> DEFINE after == Alerts!InvalidatedAlerts
  <2>1. calls' = calls \ {c} /\ server' = server
    BY <1>5 DEF Alerts!Deliver
  <2>2. form' = form \/ form' = None
    BY <1>5, Zenon
       DEF Alerts!Deliver, Alerts!DeliverListCall, Alerts!DeliverSave, Alerts!pageVars
  <2>3. page' \in {page, "list"} /\ dialog' \in {dialog, None}
    BY <1>5 DEF Alerts!Deliver, Alerts!DeliverListCall, Alerts!DeliverSave, Alerts!pageVars
  <2>4. \/ UNCHANGED <<list, rules>>
        \/ /\ rules' = after.rules
           /\ list' = after.list \/ list' = Cache!Mounted(after.list)
    <3>1. CASE Alerts!DeliverListCall(c)
      BY <3>1, Zenon DEF Alerts!DeliverListCall, Alerts!InvalidateAlerts
    <3>2. CASE Alerts!DeliverSave(c)
      <4>1. CASE list' = Alerts!Mounted(after.list)
        <5>1. list' = Cache!Mounted(after.list)
          BY <4>1, OneCache
        <5>2. rules' = after.rules \/ UNCHANGED <<list, rules>>
          BY <3>2, Zenon DEF Alerts!DeliverSave
        <5>3. QED
          BY <5>1, <5>2
      <4>2. QED
        BY <3>2, <4>1, Zenon DEF Alerts!DeliverSave
    <3>3. QED
      BY <1>5, <3>1, <3>2, Zenon DEF Alerts!Deliver
  <2>5. /\ after.list = Cache!Invalidated(list, page = "list")
        /\ after.rules = [id \in Ids |-> Cache!Invalidated(rules[id], page = id)]
    BY OneCache DEF Alerts!InvalidatedAlerts
  <2> HIDE DEF after
  <2>6. HoldsStores(list')
    <3>1. PICK used : used = (page = "list")
      OBVIOUS
    <3>2. /\ Held(Cache!Invalidated(list, used)) \subseteq Held(list)
          /\ Held(Cache!Mounted(Cache!Invalidated(list, used))) \subseteq Held(list)
      BY <1>1, NothingElseIsHeld
    <3>3. after.list = Cache!Invalidated(list, used)
      BY <2>5, <3>1
    <3>4. Held(list') \subseteq Held(list)
      BY <2>4, <3>2, <3>3
    <3>5. QED
      BY <1>2, <3>4 DEF HoldsStores
  <2>7. ASSUME NEW id \in Ids PROVE rules'[id] \in Cache!Query(Alerts!Rule)
    <3>1. Cache!Invalidated(rules[id], page = id) \in Cache!Query(Alerts!Rule)
      BY <1>2, EntriesStayEntries
    <3>2. QED
      BY <1>2, <2>4, <2>5, <3>1
  <2>8. QED
    BY <1>2, <1>3, <2>1, <2>2, <2>3, <2>6, <2>7
<1>6. CASE Alerts!AnswerList \/ Alerts!ArriveList
  <2>1. /\ list' = Cache!Answered(list, server) \/ list' = Cache!Arrived(list)
        /\ UNCHANGED <<server, rules, calls, page, dialog, form>>
    BY <1>6, OneCache DEF Alerts!AnswerList, Alerts!ArriveList, Alerts!pageVars
  <2>2. Held(list') \subseteq Held(list) \cup {server}
    BY <1>1, <2>1, NothingElseIsHeld
  <2>3. HoldsStores(list')
    BY <1>2, <2>2 DEF HoldsStores
  <2>4. QED
    BY <1>2, <1>3, <2>1, <2>3
<1>7. ASSUME NEW id \in Ids, Alerts!AnswerRule(id) \/ Alerts!ArriveRule(id) PROVE AlertsTyped'
  <2>1. PICK q : /\ rules' = [rules EXCEPT ![id] = q]
                 /\ \/ id \in DOMAIN server /\ q = Cache!Answered(rules[id], server[id])
                    \/ q = Cache!Failed(rules[id])
                    \/ q = Cache!Arrived(rules[id])
    BY <1>7, OneCache DEF Alerts!AnswerRule, Alerts!ArriveRule
  <2>2. UNCHANGED <<server, list, calls, page, dialog, form>>
    BY <1>7 DEF Alerts!AnswerRule, Alerts!ArriveRule, Alerts!pageVars
  <2>3. rules[id] \in Cache!Query(Alerts!Rule)
    BY <1>2
  <2>4. id \in DOMAIN server => server[id] \in Alerts!Rule
    BY <1>2 DEF Alerts!IsStore
  <2>5. q \in Cache!Query(Alerts!Rule)
    BY <2>1, <2>3, <2>4, EntriesStayEntries
  <2>6. \A i \in Ids : rules'[i] \in Cache!Query(Alerts!Rule)
    BY <1>1, <1>2, <2>1, <2>5
  <2>7. QED
    BY <1>2, <1>3, <2>2, <2>6
<1>8. CASE Alerts!ArriveConfig
  <2>1. /\ UNCHANGED <<server, list, rules, page, dialog, calls>>
        /\ form' = Alerts!NewForm \/ form' = form
    BY <1>8, Zenon DEF Alerts!ArriveConfig
  <2>2. Alerts!NewForm.rule \in Drafts /\ Alerts!NewForm.typed = {}
    BY NewRuleIsTyped DEF Alerts!NewForm
  <2>3. QED
    BY <1>2, <1>3, <2>1, <2>2
<1>9. CASE Alerts!Fire
  <2>1. PICK id \in DOMAIN server :
            server' = [server EXCEPT ![id].state = "firing", ![id].seen = TRUE]
    BY <1>9 DEF Alerts!Fire
  <2>2. UNCHANGED <<calls, list, rules, page, dialog, form>>
    BY <1>9 DEF Alerts!Fire, Alerts!cache, Alerts!pageVars
  <2>3. [server[id] EXCEPT !.state = "firing", !.seen = TRUE] \in Alerts!Rule
    BY <1>2 DEF Alerts!IsStore, Alerts!Rule, Alerts!States
  <2>4. Alerts!IsStore(server')
    BY <1>2, <2>1, <2>3 DEF Alerts!IsStore
  <2>5. QED
    BY <1>2, <1>3, <2>2, <2>4
<1>10. CASE UNCHANGED Alerts!vars
  <2>1. UNCHANGED <<server, list, rules, page, dialog, calls, form>>
    BY <1>10 DEF Alerts!vars
  <2>2. QED
    BY <1>2, <1>3, <2>1
<1>11. ASSUME NEW c \in calls, Alerts!HandleUnsaved(c) PROVE AlertsTyped'
  <2>1. PICK d : d = [c EXCEPT !.phase = "refused"]
    OBVIOUS
  <2>2. calls' = (calls \ {c}) \cup {d}
    BY <1>11, <2>1 DEF Alerts!HandleUnsaved, Alerts!Update
  <2>3. d.phase = "refused" /\ d.op = c.op /\ d.rule = c.rule
    BY <1>1, <2>1 DEF IsAlertCall
  <2>4. UNCHANGED <<list, rules, page, dialog, form>>
    BY <1>11 DEF Alerts!HandleUnsaved, Alerts!cache, Alerts!pageVars
  <2>5. Alerts!Accepts(c) /\ server' \in Alerts!Results(c)
    BY <1>11, Zenon DEF Alerts!HandleUnsaved
  <2>6. Alerts!IsStore(server')
    BY <2>5, ResultsAreTyped
  <2>7. d.op \in {"create", "update"} => d.rule \in Drafts
    BY <2>3 DEF AlertsTyped
  <2>8. QED
    BY <1>2, <1>3, <2>2, <2>3, <2>4, <2>6, <2>7
<1>12. QED
  BY <1>4, <1>5, <1>6, <1>7, <1>8, <1>9, <1>10, <1>11, AlertsUserTyped, Zenon
     DEF Alerts!Next, Alerts!FetchList, Alerts!FetchRule, Alerts!Serve

LEMMA AlertsPagesTyped == AlertsTyped => Alerts!TypeOK
<1> SUFFICES ASSUME AlertsTyped PROVE Alerts!TypeOK
  OBVIOUS
<1>1. \A s \in {list.data, list.answer} \ {None} : Alerts!IsStore(s)
  BY DEF AlertsTyped, HoldsStores, Held
<1>2. \A id \in Ids : rules[id] \in Alerts!Query(Alerts!Rule)
  BY DEF AlertsTyped, Cache!Query, Alerts!Query
<1>3. QED
  BY <1>1, <1>2, Zenon DEF AlertsTyped, Alerts!TypeOK

-----------------------------------------------------------------------------
(* Each page by itself, from what is known of it to its types.             *)
LEMMA ConfigTypeOK == Spec => [](open = "config" => Config!TypeOK)
<1> DEFINE Inv == open = "config" => ConfigUse /\ ConfigTyped
<1>1. Init => Inv
  BY ConfigSession, ConfigUseBegins, ConfigTypedBegins
<1>2. Inv /\ [Next]_vars => Inv'
  BY OpenStays, ConfigSession, ConfigUseKept, ConfigTypedKept
<1>3. Inv => (open = "config" => Config!TypeOK)
  BY ConfigPagesTyped
<1>4. QED
  BY <1>1, <1>2, <1>3, PTL DEF Spec

LEMMA SourcesTypeOK == Spec => [](open = "sources" => Sources!TypeOK)
<1> DEFINE Inv == open = "sources" => SourcesInv /\ SourcesTyped
<1>1. Init => Inv
  BY SourcesSession, SourcesBegin, SourcesTypedBegins
<1>2. Inv /\ [Next]_vars => Inv'
  BY OpenStays, SourcesSession, SourcesKept, SourcesTypedKept
<1>3. Inv => (open = "sources" => Sources!TypeOK)
  BY SourcesPageTyped
<1>4. QED
  BY <1>1, <1>2, <1>3, PTL DEF Spec

LEMMA SourceFormTypeOK ==
    Spec => [](open = "source form" => settings \in SourceForm!Settings(kind))
<1> DEFINE Inv == open = "source form" => SettingsAreTyped
<1>1. Init => Inv
  BY SourceFormSession, SourceFormTyped
<1>2. Inv /\ [Next]_vars => Inv'
  BY OpenStays, SourceFormSession, SourceFormTyped
<1>3. Inv => (open = "source form" => settings \in SourceForm!Settings(kind))
  BY DEF SettingsAreTyped
<1>4. QED
  BY <1>1, <1>2, <1>3, PTL DEF Spec

LEMMA MetricTypeOK == Spec => [](open = "metric form" => Metric!TypeOK)
<1> DEFINE Inv == open = "metric form" => MetricTyped
<1>1. Init => Inv
  BY MetricSession, MetricFormTyped
<1>2. Inv /\ [Next]_vars => Inv'
  BY OpenStays, MetricSession, MetricFormTyped
<1>3. Inv => (open = "metric form" => Metric!TypeOK)
  BY MetricFormTyped
<1>4. QED
  BY <1>1, <1>2, <1>3, PTL DEF Spec

LEMMA AlertsTypeOK == Spec => [](open = "alerts" => Alerts!TypeOK)
<1> DEFINE Inv == open = "alerts" => AlertsInv /\ AlertsTyped
<1>1. Init => Inv
  BY AlertsSession, AlertsBegin, AlertsTypedBegin
<1>2. AlertsInv => AlertsType
  BY DEF AlertsInv
<1>3. Inv /\ [Next]_vars => Inv'
  BY <1>2, OpenStays, AlertsSession, AlertsKept, AlertsTypedKept
<1>4. Inv => (open = "alerts" => Alerts!TypeOK)
  BY AlertsPagesTyped
<1>5. QED
  BY <1>1, <1>3, <1>4, PTL DEF Spec

LEMMA RoutesTypeOK == Spec => [](open = "routes" => Routes!TypeOK)
<1> DEFINE Inv == open = "routes" => RoutesInv /\ RoutesTyped
<1>1. Init => Inv
  BY RoutesSession, RoutesBegin, RoutesTypedBegin
<1>2. RoutesInv => RoutesType
  BY DEF RoutesInv
<1>3. Inv /\ [Next]_vars => Inv'
  BY <1>2, OpenStays, RoutesSession, RoutesKept, RoutesTypedKept
<1>4. Inv => (open = "routes" => Routes!TypeOK)
  BY <1>2, RoutesPageTyped
<1>5. QED
  BY <1>1, <1>3, <1>4, PTL DEF Spec

LEMMA NotificationsTypeOK == Spec => [](open = "notifications" => Notifications!TypeOK)
<1> DEFINE Inv == open = "notifications" => PageInv /\ SettingsTyped
<1>1. Init => Inv
  BY NotificationsSession, PageBegins, SettingsTypedBegin
<1>2. Inv /\ [Next]_vars => Inv'
  BY OpenStays, NotificationsSession, PageKept, SettingsTypedKept
<1>3. Inv => (open = "notifications" => Notifications!TypeOK)
  BY SettingsPageTyped
<1>4. QED
  BY <1>1, <1>2, <1>3, PTL DEF Spec

LEMMA ChatTypeOK == Spec => [](open = "chat" => Chat!TypeOK)
<1> DEFINE Inv == open = "chat" => ChatInv /\ MessagesInv
<1>1. Inv => (open = "chat" => Chat!TypeOK)
  BY ChatTyped
<1>2. QED
  BY <1>1, ChatKeepsItsMessages, PTL

(* On every page, at all times, what the console keeps is of its kind: the *)
(* lists of the server and their copies in the console, the forms and what *)
(* their fields say, the calls on their way with what they send.           *)
THEOREM PagesAreTyped == Spec => []TypeOK
<1>1. Spec => [](open \in Pages)
  <2>1. Init => open \in Pages
    BY DEF Init, Pages, Forms
  <2>2. open \in Pages /\ [Next]_vars => (open \in Pages)'
    BY OpenStays DEF Pages, Forms
  <2>3. QED
    BY <2>1, <2>2, PTL DEF Spec
<1> DEFINE AllTyped ==
      /\ open \in Pages
      /\ open = "config" => Config!TypeOK
      /\ open = "sources" => Sources!TypeOK
      /\ open = "source form" => settings \in SourceForm!Settings(kind)
      /\ open = "metric form" => Metric!TypeOK
      /\ open = "alerts" => Alerts!TypeOK
      /\ open = "routes" => Routes!TypeOK
      /\ open = "notifications" => Notifications!TypeOK
      /\ open = "chat" => Chat!TypeOK
<1>2. AllTyped => TypeOK
  BY DEF TypeOK, Pages, Forms
<1>3. Spec => []AllTyped
  BY <1>1, ConfigTypeOK, SourcesTypeOK, SourceFormTypeOK, MetricTypeOK, AlertsTypeOK,
     RoutesTypeOK, NotificationsTypeOK, ChatTypeOK, PTL
<1>4. QED
  BY <1>2, <1>3, PTL

===============================================================================
