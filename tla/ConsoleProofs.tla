---------------------------- MODULE ConsoleProofs ----------------------------
(***************************************************************************)
(* Proofs about the pages of the console that keep to themselves: the two  *)
(* forms that try something out, the notification page and the chat.       *)
(* Every page's invariant is proved for the page's own steps; what is said *)
(* of the console follows, as a session is with one page.                  *)
(* What a read of the assistant's answer makes of the messages is proved   *)
(* by induction over the events of the answer.                             *)
(***************************************************************************)
EXTENDS Console, Naturals, FiniteSets, FiniteSetTheorems, WellFoundedInduction, TLAPS

-----------------------------------------------------------------------------
(* A session begins as its page begins, and its steps are the page's.      *)

LEMMA OpenStays == [Next]_vars => open' = open
  BY Zenon DEF Next, On, vars

LEMMA ConfigSession ==
    /\ Init /\ open = "config" => Config!Init
    /\ [Next]_vars /\ open = "config" => [Config!Next]_(Config!vars)
<1>1. Init /\ open = "config" => Config!Init
  BY Zenon DEF Init
<1>2. [Next]_vars /\ open = "config" => [Config!Next]_(Config!vars)
  BY Zenon DEF Next, On, vars, Config!vars
<1>3. QED
  BY <1>1, <1>2

LEMMA SourcesSession ==
    /\ Init /\ open = "sources" => Sources!Init
    /\ [Next]_vars /\ open = "sources" => [Sources!Next]_(Sources!vars)
<1>1. Init /\ open = "sources" => Sources!Init
  BY Zenon DEF Init
<1>2. [Next]_vars /\ open = "sources" => [Sources!Next]_(Sources!vars)
  BY Zenon DEF Next, On, vars, Sources!vars, ofSources
<1>3. QED
  BY <1>1, <1>2

LEMMA SourceFormSession ==
    /\ Init /\ open = "source form" => SourceForm!Init
    /\ [Next]_vars /\ open = "source form" => [SourceForm!Next]_(SourceForm!vars)
<1>1. Init /\ open = "source form" => SourceForm!Init
  BY Zenon DEF Init
<1>2. [Next]_vars /\ open = "source form" => [SourceForm!Next]_(SourceForm!vars)
  BY Zenon DEF Next, On, vars, SourceForm!vars, ofForms, ofSourceForm
<1>3. QED
  BY <1>1, <1>2

LEMMA MetricSession ==
    /\ Init /\ open = "metric form" => Metric!Init
    /\ [Next]_vars /\ open = "metric form" => [Metric!Next]_(Metric!vars)
<1>1. Init /\ open = "metric form" => Metric!Init
  BY Zenon DEF Init
<1>2. [Next]_vars /\ open = "metric form" => [Metric!Next]_(Metric!vars)
  BY Zenon DEF Next, On, vars, Metric!vars, ofForms, ofMetricForm
<1>3. QED
  BY <1>1, <1>2

LEMMA AlertsSession ==
    /\ Init /\ open = "alerts" => Alerts!Init
    /\ [Next]_vars /\ open = "alerts" => [Alerts!Next]_(Alerts!vars)
<1>1. Init /\ open = "alerts" => Alerts!Init
  BY Zenon DEF Init
<1>2. [Next]_vars /\ open = "alerts" => [Alerts!Next]_(Alerts!vars)
  BY Zenon DEF Next, On, vars, Alerts!vars, ofAlerts
<1>3. QED
  BY <1>1, <1>2

LEMMA RoutesSession ==
    /\ Init /\ open = "routes" => Routes!Init
    /\ [Next]_vars /\ open = "routes" => [Routes!Next]_(Routes!vars)
<1>1. Init /\ open = "routes" => Routes!Init
  BY Zenon DEF Init
<1>2. [Next]_vars /\ open = "routes" => [Routes!Next]_(Routes!vars)
  BY Zenon DEF Next, On, vars, Routes!vars, ofRoutes
<1>3. QED
  BY <1>1, <1>2

LEMMA NotificationsSession ==
    /\ Init /\ open = "notifications" => Notifications!Init
    /\ [Next]_vars /\ open = "notifications" => [Notifications!Next]_(Notifications!vars)
<1>1. Init /\ open = "notifications" => Notifications!Init
  BY Zenon DEF Init
<1>2. [Next]_vars /\ open = "notifications" => [Notifications!Next]_(Notifications!vars)
  BY Zenon
     DEF Next, On, vars, Notifications!vars, Notifications!server, Notifications!page,
         Notifications!bounds, ofNotifications
<1>3. QED
  BY <1>1, <1>2

LEMMA ChatSession ==
    /\ Init /\ open = "chat" => Chat!Init
    /\ [Next]_vars /\ open = "chat" => [Chat!Next]_(Chat!vars)
<1>1. Init /\ open = "chat" => Chat!Init
  BY Zenon DEF Init
<1>2. [Next]_vars /\ open = "chat" => [Chat!Next]_(Chat!vars)
  BY Zenon DEF Next, On, vars, Chat!vars, ofChat
<1>3. QED
  BY <1>1, <1>2

-----------------------------------------------------------------------------
(* The form of a data source. *)

(* While the form is open, the one test that may run is the last one, and  *)
(* the flag knows of it; afterwards nothing is shown any more.             *)
SourceFormInv ==
    /\ started \in Nat
    /\ tests \subseteq {started}
    /\ SourceForm!Open /\ ~testing => tests = {}
    /\ SourceForm!VerdictIsTheLatest

LEMMA SourceFormBegins == SourceForm!Init => SourceFormInv
  BY DEF SourceForm!Init, SourceFormInv, SourceForm!VerdictIsTheLatest, SourceForm!Open

LEMMA SourceFormKept ==
    SourceFormInv /\ [SourceForm!Next]_(SourceForm!vars) => SourceFormInv'
<1> SUFFICES ASSUME SourceFormInv, [SourceForm!Next]_(SourceForm!vars)
             PROVE  SourceFormInv'
  OBVIOUS
<1> USE DEF SourceFormInv, SourceForm!VerdictIsTheLatest, SourceForm!Open
<1>1. CASE SourceForm!Type
  BY <1>1 DEF SourceForm!Type
<1>2. CASE SourceForm!StartTest
  BY <1>2 DEF SourceForm!StartTest, SourceForm!CanTest
<1>3. CASE SourceForm!Answer
  BY <1>3 DEF SourceForm!Answer, SourceForm!TestAnswered, SourceForm!TestFailed,
              SourceForm!Take
<1>4. CASE SourceForm!Close
  BY <1>4 DEF SourceForm!Close
<1>5. CASE UNCHANGED SourceForm!vars
  BY <1>5 DEF SourceForm!vars
<1>6. QED
  BY <1>1, <1>2, <1>3, <1>4, <1>5 DEF SourceForm!Next

-----------------------------------------------------------------------------
(* The form of a metric. *)

(* While the form is open at most one preview runs, the last one, and the  *)
(* flag is up just as long; a form that is gone starts no other.           *)
MetricInv ==
    /\ started \in Nat
    /\ testing \in BOOLEAN
    /\ Metric!Open => \A t, u \in tests : t = u /\ t.n = started
    /\ Metric!Open => IF testing THEN tests # {} ELSE tests = {}
    /\ ~testing => verdict \in {None, started}

LEMMA MetricBegins == Metric!Init => MetricInv
<1>1. Metric!Init => testing \in BOOLEAN /\ ~testing
  BY Zenon DEF Metric!Init
<1>2. Metric!Init => started = 0 /\ tests = {} /\ verdict = None
  BY DEF Metric!Init
<1>3. QED
  BY <1>1, <1>2 DEF MetricInv

LEMMA MetricKept == MetricInv /\ [Metric!Next]_(Metric!vars) => MetricInv'
<1> SUFFICES ASSUME MetricInv, [Metric!Next]_(Metric!vars)
             PROVE  MetricInv'
  OBVIOUS
<1> USE DEF MetricInv, Metric!Open, Metric!InForm
<1>0. ASSUME NEW how, Metric!Start(how), fate' = fate, Metric!Open, ~testing
      PROVE  MetricInv'
  <2>1. testing' \in BOOLEAN /\ testing'
    BY <1>0, Zenon DEF Metric!Start
  <2>2. tests = {} /\ started' = started + 1
    BY <1>0 DEF Metric!Start
  <2>3. tests' = {[n |-> started', kind |-> how]}
    BY <1>0, <2>2 DEF Metric!Start
  <2>4. QED
    BY <2>1, <2>2, <2>3
<1>1. CASE UNCHANGED <<testing, tests, started, verdict, fate>>
  BY <1>1
<1>2. CASE Metric!PreviewQuery
  <2>1. Metric!Start("query")
    BY <1>2 DEF Metric!PreviewQuery
  <2>2. fate' = fate /\ ~testing /\ Metric!Open
    BY <1>2 DEF Metric!PreviewQuery
  <2>3. QED
    BY <2>2, <2>1, <1>0
<1>3. CASE Metric!PreviewRestAPI
  <2>1. fate' = fate /\ ~testing /\ Metric!Open
    BY <1>3 DEF Metric!PreviewRestAPI
  <2>2. CASE Metric!Start("restapi")
    BY <2>1, <2>2, <1>0
  <2>3. CASE started' = started + 1 /\ verdict' = started' /\ UNCHANGED <<testing, tests>>
    BY <2>1, <2>3
  <2>4. QED
    BY <1>3, <2>2, <2>3 DEF Metric!PreviewRestAPI
<1>4. ASSUME NEW t \in tests, Metric!Previewed(t)
      PROVE  MetricInv'
  BY <1>4 DEF Metric!Previewed
<1>5. CASE Metric!Cancel
  BY <1>5 DEF Metric!Cancel, Metric!answers
<1>6. ASSUME NEW ok \in BOOLEAN, Metric!SaveAnswered(ok)
      PROVE  MetricInv'
  BY <1>6 DEF Metric!SaveAnswered, Metric!answers
<1>7. CASE Metric!Type \/ Metric!Submit \/ \E confirmed \in BOOLEAN : Metric!AnswerDialog(confirmed)
  BY <1>1, <1>7 DEF Metric!Type, Metric!Submit, Metric!AnswerDialog, Metric!answers
<1>8. CASE UNCHANGED Metric!vars
  BY <1>1, <1>8 DEF Metric!vars
<1>9. QED
  BY <1>2, <1>3, <1>4, <1>5, <1>6, <1>7, <1>8
     DEF Metric!Next, Metric!User, Metric!Serve

-----------------------------------------------------------------------------
FormsInv ==
    /\ open = "source form" => SourceFormInv
    /\ open = "metric form" => MetricInv

(* The verdict beside the buttons that try a connection or a query out is  *)
(* never a late one of an earlier try, whatever the user types, starts,    *)
(* saves or cancels while tests run.                                       *)
THEOREM VerdictsAreTheLatest == Spec => []VerdictIsTheLatest
<1>1. Init => FormsInv
  BY SourceFormSession, MetricSession, SourceFormBegins, MetricBegins DEF FormsInv
<1>2. FormsInv /\ [Next]_vars => FormsInv'
  BY OpenStays, SourceFormSession, MetricSession, SourceFormKept, MetricKept DEF FormsInv
<1>3. FormsInv => VerdictIsTheLatest
  BY DEF FormsInv, SourceFormInv, MetricInv, VerdictIsTheLatest, Metric!VerdictIsTheLatest
<1>4. QED
  BY <1>1, <1>2, <1>3, PTL DEF Spec

-----------------------------------------------------------------------------
(* The notification page. *)

IsNotifierCall(c) ==
    /\ DOMAIN c = {"n", "op", "visit", "channel", "config", "typed", "phase"}
    /\ c.visit \in Nat

(* Nobody calls from a visit that is still to come, and a flag is up for   *)
(* exactly one call of this visit.                                         *)
FlagIsUpFor(flag, op) ==
    IF flag THEN \E c : Notifications!Calls(op) = {c} ELSE Notifications!Calls(op) = {}

PageInv ==
    /\ visit \in Nat
    /\ saving \in BOOLEAN /\ loading \in BOOLEAN
    /\ \A c \in calls : IsNotifierCall(c) /\ c.visit <= visit
    /\ FlagIsUpFor(saving, "save")
    /\ FlagIsUpFor(loading, "load")
    /\ testing # None => \E c \in Notifications!Calls("test") : c.channel = testing

LEMMA PageBegins == Notifications!Init => PageInv
<1> SUFFICES ASSUME Notifications!Init PROVE PageInv
  OBVIOUS
<1> DEFINE first == [n |-> 0, op |-> "load", visit |-> 1, channel |-> None,
                     config |-> None, typed |-> {}, phase |-> "sent"]
<1>1. saving \in BOOLEAN /\ loading \in BOOLEAN /\ ~saving /\ loading
  BY Zenon DEF Notifications!Init
<1>2. calls = {first} /\ visit = 1 /\ testing = None
  BY DEF Notifications!Init
<1>3. IsNotifierCall(first)
  BY DEF IsNotifierCall
<1>4. Notifications!Calls("load") = {first} /\ Notifications!Calls("save") = {}
  BY <1>2 DEF Notifications!Calls
<1>5. FlagIsUpFor(saving, "save") /\ FlagIsUpFor(loading, "load")
  BY <1>1, <1>4, Zenon DEF FlagIsUpFor
<1>6. \A c \in calls : IsNotifierCall(c) /\ c.visit <= visit
  BY <1>2, <1>3
<1>7. visit \in Nat
  BY <1>2
<1>8. QED
  BY <1>1, <1>2, <1>5, <1>6, <1>7, Zenon DEF PageInv

(* A call that goes on to its next phase stays what it is for the page.    *)
LEMMA PhaseKeepsPage ==
    ASSUME PageInv, NEW c \in calls, NEW d, IsNotifierCall(d),
           d.op = c.op, d.visit = c.visit, d.channel = c.channel,
           Notifications!Update(c, d),
           UNCHANGED <<visit, saving, loading, testing>>
    PROVE  PageInv'
<1>1. ASSUME NEW op
      PROVE  Notifications!Calls(op)' =
                 IF c \in Notifications!Calls(op)
                 THEN (Notifications!Calls(op) \ {c}) \cup {d}
                 ELSE Notifications!Calls(op)
  BY DEF Notifications!Calls, Notifications!Update
<1>2. \A e \in calls' : IsNotifierCall(e) /\ e.visit <= visit'
  BY DEF PageInv, Notifications!Update
<1>3. ASSUME NEW flag, NEW op, FlagIsUpFor(flag, op)
      PROVE  IF flag THEN \E e : Notifications!Calls(op)' = {e}
             ELSE Notifications!Calls(op)' = {}
  <2>1. CASE flag
    <3>1. PICK e : Notifications!Calls(op) = {e}
      BY <1>3, <2>1 DEF FlagIsUpFor
    <3>2. Notifications!Calls(op)' \in {{d}, {e}}
      BY <3>1, <1>1
    <3>3. QED
      BY <3>2, <2>1
  <2>2. CASE ~flag
    BY <1>3, <2>2, <1>1 DEF FlagIsUpFor
  <2>3. QED
    BY <2>1, <2>2
<1>4. testing' # None => \E e \in Notifications!Calls("test")' : e.channel = testing'
  BY <1>1 DEF PageInv
<1>5. FlagIsUpFor(saving, "save")'
  BY <1>3 DEF FlagIsUpFor, PageInv
<1>6. FlagIsUpFor(loading, "load")'
  BY <1>3 DEF FlagIsUpFor, PageInv
<1>7. QED
  BY <1>2, <1>4, <1>5, <1>6 DEF PageInv

LEMMA PageKept ==
    PageInv /\ [Notifications!Next]_(Notifications!vars) => PageInv'
<1> SUFFICES ASSUME PageInv, [Notifications!Next]_(Notifications!vars)
             PROVE  PageInv'
  OBVIOUS
<1>1. CASE Notifications!LoadConfig
  <2> DEFINE new == [Notifications!Call("load") EXCEPT !.visit = visit']
  <2>1. /\ calls' = calls \cup {new} /\ visit' = visit + 1
        /\ testing' = None
    BY <1>1 DEF Notifications!LoadConfig
  <2>2. saving' \in BOOLEAN /\ loading' \in BOOLEAN /\ ~saving' /\ loading'
    BY <1>1, Zenon DEF Notifications!LoadConfig
  <2>3. IsNotifierCall(new) /\ new.op = "load" /\ new.visit = visit + 1
    BY <2>1 DEF IsNotifierCall, Notifications!Call, PageInv
  <2> HIDE DEF new
  <2>4. visit' \in Nat /\ \A c \in calls' : IsNotifierCall(c) /\ c.visit <= visit'
    BY <2>1, <2>3 DEF PageInv, IsNotifierCall
  <2>5. Notifications!Calls("load")' = {new} /\ Notifications!Calls("save")' = {}
    BY <2>1, <2>3 DEF Notifications!Calls, PageInv, IsNotifierCall
  <2>6. FlagIsUpFor(saving, "save")' /\ FlagIsUpFor(loading, "load")'
    BY <2>2, <2>5, Zenon DEF FlagIsUpFor
  <2>7. QED
    BY <2>1, <2>2, <2>4, <2>6, Zenon DEF PageInv
<1>2. CASE Notifications!SaveConfig
  <2>1. PICK t \in Notifications!Typed :
            Notifications!Click([Notifications!Call("save") EXCEPT !.config = t.config,
                                                                   !.typed = t.typed])
    BY <1>2 DEF Notifications!SaveConfig
  <2> DEFINE new == [[Notifications!Call("save") EXCEPT !.config = t.config, !.typed = t.typed]
                        EXCEPT !.n = clicks']
  <2>2. calls' = calls \cup {new} /\ visit' = visit
    BY <2>1 DEF Notifications!Click
  <2>3. saving' \in BOOLEAN /\ saving' /\ ~saving /\ UNCHANGED <<loading, testing>>
    BY <1>2, Zenon DEF Notifications!SaveConfig, Notifications!CanSave
  <2>4. IsNotifierCall(new) /\ new.op = "save" /\ new.visit = visit
    BY DEF IsNotifierCall, Notifications!Call, PageInv
  <2> HIDE DEF new
  <2>5. \A c \in calls' : IsNotifierCall(c) /\ c.visit <= visit'
    BY <2>2, <2>4 DEF PageInv
  <2>6. Notifications!Calls("save") = {}
    BY <2>3, Zenon DEF PageInv, FlagIsUpFor
  <2>7. /\ Notifications!Calls("save")' = {new}
        /\ Notifications!Calls("load")' = Notifications!Calls("load")
        /\ Notifications!Calls("test")' = Notifications!Calls("test")
    BY <2>2, <2>4, <2>6 DEF Notifications!Calls
  <2>8. FlagIsUpFor(saving, "save")' /\ FlagIsUpFor(loading, "load")'
    BY <2>3, <2>7, Zenon DEF FlagIsUpFor, PageInv
  <2>9. QED
    BY <2>2, <2>3, <2>5, <2>7, <2>8, Zenon DEF PageInv
<1>3. ASSUME NEW channel \in Notifications!Channels, Notifications!TestWebhook(channel)
      PROVE  PageInv'
  <2> DEFINE new == [[Notifications!Call("test") EXCEPT !.channel = channel]
                        EXCEPT !.n = clicks']
  <2>1. calls' = calls \cup {new} /\ visit' = visit
    BY <1>3 DEF Notifications!TestWebhook, Notifications!Click
  <2>2. testing' = channel /\ UNCHANGED <<loading, saving>>
    BY <1>3 DEF Notifications!TestWebhook
  <2>3. IsNotifierCall(new) /\ new.op = "test" /\ new.visit = visit /\ new.channel = channel
    BY DEF IsNotifierCall, Notifications!Call, PageInv
  <2> HIDE DEF new
  <2>4. \A c \in calls' : IsNotifierCall(c) /\ c.visit <= visit'
    BY <2>1, <2>3 DEF PageInv
  <2>5. /\ new \in Notifications!Calls("test")'
        /\ Notifications!Calls("load")' = Notifications!Calls("load")
        /\ Notifications!Calls("save")' = Notifications!Calls("save")
    BY <2>1, <2>3 DEF Notifications!Calls
  <2>6. FlagIsUpFor(saving, "save")' /\ FlagIsUpFor(loading, "load")'
    BY <2>2, <2>5, Zenon DEF FlagIsUpFor, PageInv
  <2>7. QED
    BY <2>1, <2>2, <2>3, <2>4, <2>5, <2>6, Zenon DEF PageInv
<1>4. ASSUME NEW c \in calls,
             \/ Notifications!HandleGetNotifierConfig(c) \/ Notifications!SetNotifierConfig(c)
             \/ Notifications!Marshal(c) \/ Notifications!WriteFile(c)
             \/ Notifications!TestNotifierWebhook(c) \/ Notifications!Fail(c)
      PROVE  PageInv'
  <2>1. IsNotifierCall(c)
    BY DEF PageInv
  <2>2. \E d : /\ IsNotifierCall(d) /\ d.op = c.op /\ d.visit = c.visit
               /\ d.channel = c.channel /\ Notifications!Update(c, d)
    <3> DEFINE after(phase) == [c EXCEPT !.phase = phase]
               read == [c EXCEPT !.phase = "ok", !.config = Notifications!Returned(memory)]
               image == [c EXCEPT !.phase = "marshalled", !.config = memory]
    <3>1. \A phase : /\ IsNotifierCall(after(phase)) /\ after(phase).op = c.op
                     /\ after(phase).visit = c.visit /\ after(phase).channel = c.channel
      BY <2>1 DEF IsNotifierCall
    <3>2. /\ IsNotifierCall(read) /\ read.op = c.op /\ read.visit = c.visit
          /\ read.channel = c.channel
          /\ IsNotifierCall(image) /\ image.op = c.op /\ image.visit = c.visit
          /\ image.channel = c.channel
      BY <2>1 DEF IsNotifierCall
    <3>3. \/ Notifications!Update(c, read) \/ Notifications!Update(c, image)
          \/ \E phase : Notifications!Update(c, after(phase))
      BY <1>4, Zenon
         DEF Notifications!HandleGetNotifierConfig, Notifications!SetNotifierConfig,
             Notifications!Marshal, Notifications!WriteFile,
             Notifications!TestNotifierWebhook, Notifications!Fail
    <3> HIDE DEF after, read, image
    <3>4. QED
      BY <3>1, <3>2, <3>3, Zenon
  <2>3. UNCHANGED <<visit, saving, loading, testing>>
    BY <1>4
       DEF Notifications!HandleGetNotifierConfig, Notifications!SetNotifierConfig,
           Notifications!Marshal, Notifications!WriteFile,
           Notifications!TestNotifierWebhook, Notifications!Fail, Notifications!page
  <2>4. QED
    BY <2>2, <2>3, PhaseKeepsPage
<1>5. ASSUME NEW c \in calls, Notifications!Deliver(c)
      PROVE  PageInv'
  <2>1. calls' = calls \ {c} /\ visit' = visit
    BY <1>5 DEF Notifications!Deliver
  <2>2. \A d \in calls' : IsNotifierCall(d) /\ d.visit <= visit'
    BY <2>1 DEF PageInv
  <2>3. \A op : Notifications!Calls(op)' = Notifications!Calls(op) \ {c}
    BY <2>1 DEF Notifications!Calls
  <2>4. \A op : c.op # op => Notifications!Calls(op)' = Notifications!Calls(op)
    BY <2>3 DEF Notifications!Calls
  <2>5. CASE c.visit # visit
    <3>1. \A op : Notifications!Calls(op)' = Notifications!Calls(op)
      BY <2>3, <2>5 DEF Notifications!Calls
    <3>2. UNCHANGED <<saving, loading, testing>>
      BY <1>5, <2>5 DEF Notifications!Deliver, Notifications!page
    <3>3. FlagIsUpFor(saving, "save")' /\ FlagIsUpFor(loading, "load")'
      BY <3>1, <3>2, Zenon DEF FlagIsUpFor, PageInv
    <3>4. QED
      BY <2>1, <2>2, <3>1, <3>2, <3>3, Zenon DEF PageInv
  <2>6. CASE c.visit = visit
    <3>1. c \in Notifications!Calls(c.op)
      BY <2>6 DEF Notifications!Calls
    <3>2. ASSUME NEW flag, FlagIsUpFor(flag, c.op)
          PROVE  Notifications!Calls(c.op)' = {}
      BY <2>3, <3>1, <3>2 DEF FlagIsUpFor
    <3>3. CASE Notifications!LoadAnswered(c)
      <4>1. c.op = "load" /\ UNCHANGED <<saving, testing>>
        BY <3>3 DEF Notifications!LoadAnswered
      <4>2. loading' \in BOOLEAN /\ ~loading'
        BY <3>3, Zenon DEF Notifications!LoadAnswered
      <4>3. /\ Notifications!Calls("load")' = {}
            /\ Notifications!Calls("save")' = Notifications!Calls("save")
            /\ Notifications!Calls("test")' = Notifications!Calls("test")
        BY <4>1, <3>2, <2>4 DEF PageInv
      <4>4. FlagIsUpFor(saving, "save")' /\ FlagIsUpFor(loading, "load")'
        BY <4>1, <4>2, <4>3, Zenon DEF FlagIsUpFor, PageInv
      <4>5. QED
        BY <2>1, <2>2, <4>1, <4>2, <4>3, <4>4, Zenon DEF PageInv
    <3>4. CASE Notifications!SaveAnswered(c)
      <4>1. c.op = "save" /\ UNCHANGED <<loading, testing>>
        BY <3>4 DEF Notifications!SaveAnswered
      <4>2. saving' \in BOOLEAN /\ ~saving'
        BY <3>4, Zenon DEF Notifications!SaveAnswered
      <4>3. /\ Notifications!Calls("save")' = {}
            /\ Notifications!Calls("load")' = Notifications!Calls("load")
            /\ Notifications!Calls("test")' = Notifications!Calls("test")
        BY <4>1, <3>2, <2>4 DEF PageInv
      <4>4. FlagIsUpFor(saving, "save")' /\ FlagIsUpFor(loading, "load")'
        BY <4>1, <4>2, <4>3, Zenon DEF FlagIsUpFor, PageInv
      <4>5. QED
        BY <2>1, <2>2, <4>1, <4>2, <4>3, <4>4, Zenon DEF PageInv
    <3>5. CASE Notifications!TestAnswered(c)
      <4>1. c.op = "test" /\ testing' = None /\ UNCHANGED <<loading, saving>>
        BY <3>5 DEF Notifications!TestAnswered
      <4>2. /\ Notifications!Calls("save")' = Notifications!Calls("save")
            /\ Notifications!Calls("load")' = Notifications!Calls("load")
        BY <4>1, <2>4
      <4>3. FlagIsUpFor(saving, "save")' /\ FlagIsUpFor(loading, "load")'
        BY <4>1, <4>2, Zenon DEF FlagIsUpFor, PageInv
      <4>4. QED
        BY <2>1, <2>2, <4>1, <4>3, Zenon DEF PageInv
    <3>6. QED
      BY <1>5, <2>6, <3>3, <3>4, <3>5 DEF Notifications!Deliver
  <2>7. QED
    BY <2>5, <2>6
<1>6. CASE UNCHANGED Notifications!vars
  BY <1>6 DEF Notifications!vars, Notifications!page, PageInv, FlagIsUpFor,
              Notifications!Calls
<1>7. QED
  BY <1>1, <1>2, <1>3, <1>4, <1>5, <1>6
     DEF Notifications!Next, Notifications!User, Notifications!Serve

(* When no call failed and no image was overtaken, a file that is behind   *)
(* has a save on its way to it, and every image on its way is current.     *)
SaveIsToCome == \E c \in calls : c.op = "save" /\ c.phase \in {"set", "marshalled"}

ImagesAreCurrent == \A c \in calls : c.phase = "marshalled" => c.config = memory

FileInv ==
    /\ troubles \in Nat
    /\ troubles = 0 /\ ~raced => (file = memory \/ SaveIsToCome) /\ ImagesAreCurrent

LEMMA FileBegins == Notifications!Init => FileInv
  BY DEF Notifications!Init, FileInv, ImagesAreCurrent

LEMMA FileKept ==
    PageInv /\ FileInv /\ [Notifications!Next]_(Notifications!vars) => FileInv'
<1> SUFFICES ASSUME PageInv, FileInv, [Notifications!Next]_(Notifications!vars)
             PROVE  FileInv'
  OBVIOUS
<1>1. ASSUME UNCHANGED <<memory, file, raced, troubles>>, NEW c,
             c \notin calls \/ c.op # "save" \/ c.phase \notin {"set", "marshalled"},
             calls \ {c} \subseteq calls',
             \A d \in calls' \ calls : d.phase # "marshalled"
      PROVE  FileInv'
  BY <1>1 DEF FileInv, SaveIsToCome, ImagesAreCurrent
<1>2. CASE Notifications!User
  <2>1. calls \subseteq calls' /\ UNCHANGED <<memory, file, raced, troubles>>
    BY <1>2
       DEF Notifications!User, Notifications!LoadConfig, Notifications!SaveConfig,
           Notifications!TestWebhook, Notifications!Click, Notifications!server,
           Notifications!bounds
  <2>2. \A d \in calls' \ calls : d.phase = "sent"
    BY <1>2
       DEF Notifications!User, Notifications!LoadConfig, Notifications!SaveConfig,
           Notifications!TestWebhook, Notifications!Click, Notifications!Call
  <2>3. QED
    BY <2>1, <2>2 DEF FileInv, SaveIsToCome, ImagesAreCurrent
<1>3. ASSUME NEW c \in calls,
             Notifications!HandleGetNotifierConfig(c) \/ Notifications!TestNotifierWebhook(c)
                 \/ Notifications!Deliver(c)
      PROVE  FileInv'
  <2>1. /\ calls \ {c} \subseteq calls' /\ UNCHANGED <<memory, file, raced, troubles>>
        /\ c.op # "save" \/ c.phase \notin {"set", "marshalled"}
    BY <1>3
       DEF Notifications!HandleGetNotifierConfig, Notifications!TestNotifierWebhook,
           Notifications!Deliver, Notifications!Update, Notifications!server,
           Notifications!bounds
  <2>2. \A d \in calls' \ calls : d.phase # "marshalled"
    BY <1>3
       DEF Notifications!HandleGetNotifierConfig, Notifications!TestNotifierWebhook,
           Notifications!Deliver, Notifications!Update, PageInv, IsNotifierCall
  <2>3. QED
    BY <1>1, <2>1, <2>2
<1>4. ASSUME NEW c \in calls, Notifications!SetNotifierConfig(c)
      PROVE  FileInv'
  <2>1. IsNotifierCall(c) /\ c.op = "save" /\ UNCHANGED troubles
    BY <1>4 DEF PageInv, Notifications!SetNotifierConfig, Notifications!bounds
  <2> DEFINE new == [c EXCEPT !.phase = "set"]
  <2>2. calls' = (calls \ {c}) \cup {new}
    BY <1>4 DEF Notifications!SetNotifierConfig, Notifications!Update
  <2>3. new.op = "save" /\ new.phase = "set"
    BY <2>1 DEF IsNotifierCall
  <2> HIDE DEF new
  <2>4. SaveIsToCome'
    BY <2>2, <2>3 DEF SaveIsToCome
  <2>5. ~raced' => \A d \in calls : d.phase # "marshalled"
    BY <1>4, Zenon DEF Notifications!SetNotifierConfig
  <2>6. ~raced' => ImagesAreCurrent'
    BY <2>2, <2>3, <2>5 DEF ImagesAreCurrent
  <2>7. QED
    BY <2>1, <2>4, <2>6 DEF FileInv
<1>5. ASSUME NEW c \in calls, Notifications!Marshal(c)
      PROVE  FileInv'
  <2>1. /\ IsNotifierCall(c) /\ c.op = "save"
        /\ UNCHANGED <<memory, file, raced, troubles>>
    BY <1>5 DEF PageInv, Notifications!Marshal, Notifications!bounds, Notifications!server
  <2> DEFINE new == [c EXCEPT !.phase = "marshalled", !.config = memory]
  <2>2. calls' = (calls \ {c}) \cup {new}
    BY <1>5 DEF Notifications!Marshal, Notifications!Update
  <2>3. new.op = "save" /\ new.phase = "marshalled" /\ new.config = memory
    BY <2>1 DEF IsNotifierCall
  <2> HIDE DEF new
  <2>4. SaveIsToCome'
    BY <2>2, <2>3 DEF SaveIsToCome
  <2>5. troubles = 0 /\ ~raced => ImagesAreCurrent'
    BY <2>1, <2>2, <2>3 DEF FileInv, ImagesAreCurrent
  <2>6. QED
    BY <2>1, <2>4, <2>5 DEF FileInv
<1>6. ASSUME NEW c \in calls, Notifications!WriteFile(c)
      PROVE  FileInv'
  <2>1. /\ IsNotifierCall(c) /\ c.phase = "marshalled" /\ file' = c.config
        /\ UNCHANGED <<memory, raced, troubles>>
    BY <1>6 DEF PageInv, Notifications!WriteFile, Notifications!bounds
  <2>2. calls' = (calls \ {c}) \cup {[c EXCEPT !.phase = "ok"]}
    BY <1>6 DEF Notifications!WriteFile, Notifications!Update
  <2>3. [c EXCEPT !.phase = "ok"].phase = "ok"
    BY <2>1 DEF IsNotifierCall
  <2>4. troubles = 0 /\ ~raced => file' = memory' /\ ImagesAreCurrent'
    BY <2>1, <2>2, <2>3 DEF FileInv, ImagesAreCurrent
  <2>5. QED
    BY <2>1, <2>4 DEF FileInv
<1>7. ASSUME NEW c \in calls, Notifications!Fail(c)
      PROVE  FileInv'
  BY <1>7 DEF Notifications!Fail, FileInv
<1>8. CASE UNCHANGED Notifications!vars
  BY <1>8
     DEF Notifications!vars, Notifications!server, Notifications!bounds, FileInv,
         SaveIsToCome, ImagesAreCurrent
<1>9. QED
  BY <1>2, <1>3, <1>4, <1>5, <1>6, <1>7, <1>8 DEF Notifications!Next, Notifications!Serve

NotificationsInv == open = "notifications" => PageInv /\ FileInv

LEMMA NotificationsKept == Spec => []NotificationsInv
<1>1. Init => NotificationsInv
  BY NotificationsSession, PageBegins, FileBegins DEF NotificationsInv
<1>2. NotificationsInv /\ [Next]_vars => NotificationsInv'
  BY OpenStays, NotificationsSession, PageKept, FileKept DEF NotificationsInv
<1>3. QED
  BY <1>1, <1>2, PTL DEF Spec

(* However saves, tests, loads and visits overlap and fail: the page says  *)
(* that it is saving or loading just as long as one call of this visit     *)
(* does, and a button that spins has its test running.                     *)
THEOREM PageTellsItsCalls == Spec => []PageShowsItsCalls
<1>1. ASSUME NEW flag, NEW op, FlagIsUpFor(flag, op)
      PROVE  /\ Notifications!Cardinality(Notifications!Calls(op)) = IF flag THEN 1 ELSE 0
             /\ flag => Notifications!Calls(op) # {}
             /\ ~flag => Notifications!Calls(op) = {}
  <2>0. ASSUME NEW S
        PROVE  Notifications!Cardinality(S) = Cardinality(S)
    BY DEF Notifications!Cardinality, Cardinality
  <2>1. CASE flag
    <3>1. \E c : Notifications!Calls(op) = {c}
      BY <1>1, <2>1, Zenon DEF FlagIsUpFor
    <3>2. QED
      BY <2>0, <2>1, <3>1, FS_Singleton
  <2>2. CASE ~flag
    <3>1. Notifications!Calls(op) = {}
      BY <1>1, <2>2, Zenon DEF FlagIsUpFor
    <3>2. QED
      BY <2>0, <2>2, <3>1, FS_EmptySet
  <2>3. QED
    BY <2>1, <2>2
<1>2. PageInv => Notifications!PageShowsItsCalls
  <2> SUFFICES ASSUME PageInv PROVE Notifications!PageShowsItsCalls
    OBVIOUS
  <2>1. Notifications!Cardinality(Notifications!Calls("save")) = IF saving THEN 1 ELSE 0
    BY <1>1 DEF PageInv
  <2>2. loading <=> Notifications!Calls("load") # {}
    BY <1>1, Zenon DEF PageInv
  <2>3. testing # None => \E c \in Notifications!Calls("test") : c.channel = testing
    BY DEF PageInv
  <2>4. QED
    BY <2>1, <2>2, <2>3, Zenon DEF Notifications!PageShowsItsCalls
<1>3. NotificationsInv => PageShowsItsCalls
  BY <1>2 DEF NotificationsInv, PageShowsItsCalls
<1>4. QED
  BY <1>3, NotificationsKept, PTL

(* When all saves are answered and none failed, the file holds what the    *)
(* server goes by, in whatever order the steps of several visits' saves    *)
(* come, unless one changed the settings between another's marshalling and *)
(* writing: the image is of what the server has by then and not of what a  *)
(* call brought, so an older save that marshals late does no harm.         *)
THEOREM SavedSettingsAreInTheFile == Spec => []FileIsCurrent
<1>1. NotificationsInv => FileIsCurrent
  BY DEF NotificationsInv, FileInv, SaveIsToCome, FileIsCurrent, Notifications!FileIsCurrent
<1>2. QED
  BY <1>1, NotificationsKept, PTL

-----------------------------------------------------------------------------
(* The chat. *)

IsRequest(r) ==
    /\ DOMAIN r = {"n", "visit", "thread", "phase", "script", "lines", "handled",
                   "aborted", "page"}
    /\ r.visit \in Nat

(* The page is loading as long as its one request runs, which has the      *)
(* controller; a request outlives its visit, and none is ahead of it.      *)
ChatInv ==
    /\ visit \in Nat
    /\ loading \in BOOLEAN
    /\ \A r \in requests : IsRequest(r) /\ r.visit <= visit
    /\ \A r, q \in Chat!Mine : r = q
    /\ IF loading THEN Chat!Mine # {} ELSE Chat!Mine = {}
    /\ \A r \in Chat!Mine : r.n = controller /\ ~r.aborted

LEMMA ChatBegins == Chat!Init => ChatInv
<1> SUFFICES ASSUME Chat!Init PROVE ChatInv
  OBVIOUS
<1>1. loading \in BOOLEAN /\ ~loading
  BY Zenon DEF Chat!Init
<1>2. requests = {} /\ visit = 1
  BY DEF Chat!Init
<1>3. QED
  BY <1>1, <1>2 DEF ChatInv, Chat!Mine

(* A request that goes on reading stays what it is for the page.           *)
LEMMA ReadingKeepsChat ==
    ASSUME ChatInv, NEW r \in requests, NEW q, IsRequest(q),
           q.n = r.n, q.visit = r.visit, q.aborted = r.aborted,
           Chat!Become(r, q),
           UNCHANGED <<visit, loading, controller>>
    PROVE  ChatInv'
<1>1. Chat!Mine' = IF r \in Chat!Mine THEN (Chat!Mine \ {r}) \cup {q} ELSE Chat!Mine
  BY DEF Chat!Mine, Chat!Become
<1>2. \A p \in requests' : IsRequest(p) /\ p.visit <= visit'
  BY DEF ChatInv, Chat!Become
<1>3. \A p, s \in Chat!Mine' : p = s
  BY <1>1 DEF ChatInv
<1>4. IF loading' THEN Chat!Mine' # {} ELSE Chat!Mine' = {}
  BY <1>1 DEF ChatInv
<1>5. \A p \in Chat!Mine' : p.n = controller' /\ ~p.aborted
  BY <1>1 DEF ChatInv
<1>6. QED
  BY <1>2, <1>3, <1>4, <1>5 DEF ChatInv

(* A request that ends leaves the page idle if it was this visit's, for it *)
(* was the only one.                                                       *)
LEMMA FinishKeepsChat ==
    ASSUME ChatInv, NEW r \in requests, NEW failed, Chat!Finish(r, failed),
           UNCHANGED visit
    PROVE  ChatInv'
<1>1. \A p \in requests' : IsRequest(p) /\ p.visit <= visit'
  BY DEF ChatInv, Chat!Finish
<1>2. Chat!Mine' = Chat!Mine \ {r}
  BY DEF Chat!Mine, Chat!Finish
<1>3. CASE r.visit = visit
  <2>1. loading' \in BOOLEAN /\ ~loading'
    BY <1>3, Zenon DEF Chat!Finish
  <2>2. r \in Chat!Mine
    BY <1>3 DEF Chat!Mine
  <2>3. Chat!Mine' = {}
    BY <1>2, <2>2 DEF ChatInv
  <2>4. QED
    BY <1>1, <2>1, <2>3 DEF ChatInv
<1>4. CASE r.visit # visit
  <2>1. UNCHANGED <<loading, controller>>
    BY <1>4 DEF Chat!Finish
  <2>2. Chat!Mine' = Chat!Mine
    BY <1>2, <1>4 DEF Chat!Mine
  <2>3. QED
    BY <1>1, <2>1, <2>2 DEF ChatInv
<1>5. QED
  BY <1>3, <1>4

LEMMA ChatKept == ChatInv /\ [Chat!Next]_(Chat!vars) => ChatInv'
<1> SUFFICES ASSUME ChatInv, [Chat!Next]_(Chat!vars)
             PROVE  ChatInv'
  OBVIOUS
<1>1. ASSUME UNCHANGED <<visit, loading, controller, requests>>
      PROVE  ChatInv'
  BY <1>1 DEF ChatInv, Chat!Mine
<1>2. CASE Chat!HandleSend
  <2> DEFINE new == Chat!Request(clicks')
  <2>1. ~loading /\ visit' = visit
    BY <1>2 DEF Chat!HandleSend, Chat!CanSend
  <2>2. loading' \in BOOLEAN /\ loading'
    BY <1>2, Zenon DEF Chat!HandleSend
  <2>3. requests' = Chat!Aborted(requests) \cup {new} /\ controller' = clicks'
    BY <1>2 DEF Chat!HandleSend
  <2>4. IsRequest(new) /\ new.visit = visit /\ new.n = clicks'
    BY DEF Chat!Request, IsRequest, ChatInv
  <2>5. ~new.aborted
    BY Zenon DEF Chat!Request
  <2> HIDE DEF new
  <2>6. Chat!Mine = {}
    BY <2>1 DEF ChatInv
  <2>7. \A r \in Chat!Aborted(requests) :
            IsRequest(r) /\ r.visit <= visit /\ r.visit # visit
    BY <2>6 DEF Chat!Aborted, ChatInv, IsRequest, Chat!Mine
  <2>8. Chat!Mine' = {new}
    BY <2>1, <2>3, <2>4, <2>7 DEF Chat!Mine
  <2>9. \A r \in requests' : IsRequest(r) /\ r.visit <= visit'
    BY <2>1, <2>3, <2>4, <2>7 DEF ChatInv
  <2>10. QED
    BY <2>1, <2>2, <2>3, <2>4, <2>5, <2>8, <2>9 DEF ChatInv
<1>3. CASE Chat!HandleClearHistory \/ Chat!Expire \/ Chat!Render
  BY <1>1, <1>3 DEF Chat!HandleClearHistory, Chat!Expire, Chat!Render
<1>4. CASE Chat!Reopen
  <2>1. visit' = visit + 1
    BY <1>4 DEF Chat!Reopen
  <2>2. loading' \in BOOLEAN /\ ~loading'
    BY <1>4, Zenon DEF Chat!Reopen
  <2>3. requests' = {IF r \in Chat!Mine THEN [r EXCEPT !.page = messages] ELSE r :
                         r \in requests}
    BY <1>4 DEF Chat!Reopen
  <2>4. \A r \in requests' : IsRequest(r) /\ r.visit <= visit
    BY <2>3 DEF ChatInv, IsRequest
  <2>5. Chat!Mine' = {} /\ \A r \in requests' : r.visit <= visit'
    BY <2>1, <2>4 DEF Chat!Mine, ChatInv, IsRequest
  <2>6. QED
    BY <2>1, <2>2, <2>4, <2>5 DEF ChatInv
<1>5. ASSUME NEW r \in requests, Chat!Answer(r) \/ Chat!Read(r)
      PROVE  ChatInv'
  <2>1. IsRequest(r)
    BY DEF ChatInv
  <2>2. ASSUME NEW script, Chat!Become(r, [r EXCEPT !.phase = "open", !.script = script]),
               UNCHANGED <<visit, loading, controller>>
        PROVE  ChatInv'
    BY <2>1, <2>2, ReadingKeepsChat DEF IsRequest
  <2>3. ASSUME NEW lines, NEW handled,
               Chat!Become(r, [r EXCEPT !.lines = lines, !.handled = handled]),
               UNCHANGED <<visit, loading, controller>>
        PROVE  ChatInv'
    BY <2>1, <2>3, ReadingKeepsChat DEF IsRequest
  <2>4. UNCHANGED <<visit, loading, controller>>
    BY <1>5 DEF Chat!Answer, Chat!Read
  <2>5. CASE Chat!Answer(r)
    BY <2>2, <2>4, <2>5 DEF Chat!Answer
  <2>6. CASE Chat!Read(r)
    <3>1. \E upto :
              Chat!Become(r, [r EXCEPT !.lines = upto,
                                  !.handled = @ + Chat!Cardinality(Chat!WholeEvents(r, upto))])
      BY <2>6, Zenon DEF Chat!Read
    <3>2. QED
      BY <3>1, <2>3, <2>4
  <2>7. QED
    BY <1>5, <2>5, <2>6
<1>6. ASSUME NEW r \in requests, Chat!End(r) \/ Chat!Break(r)
      PROVE  ChatInv'
  BY <1>6, FinishKeepsChat DEF Chat!End, Chat!Break
<1>7. CASE UNCHANGED Chat!vars
  BY <1>1, <1>7 DEF Chat!vars
<1>8. QED
  BY <1>2, <1>3, <1>4, <1>5, <1>6, <1>7 DEF Chat!Next, Chat!User, Chat!Serve

(* However requests, visits, aborts and failures interleave, the chat is   *)
(* loading just as long as a request of its own runs; that one has the     *)
(* controller and was not aborted, so no button stays disabled and no      *)
(* answer comes into a page that can send already.                         *)
THEOREM ChatLoadsWhileItRuns == Spec => []LoadingIsRunning
<1> DEFINE Inv == open = "chat" => ChatInv
<1>1. Init => Inv
  BY ChatSession, ChatBegins
<1>2. Inv /\ [Next]_vars => Inv'
  BY OpenStays, ChatSession, ChatKept
<1>3. Inv => LoadingIsRunning
  <2>1. ASSUME ChatInv
        PROVE  loading <=> Chat!Mine # {}
    <3>1. CASE loading
      BY <2>1, <3>1, Zenon DEF ChatInv
    <3>2. CASE ~loading
      BY <2>1, <3>2, Zenon DEF ChatInv
    <3>3. QED
      BY <3>1, <3>2
  <2>2. ASSUME ChatInv
        PROVE  Chat!LoadingIsRunning
    BY <2>1, <2>2, Zenon DEF ChatInv, Chat!LoadingIsRunning
  <2>3. QED
    BY <2>2 DEF LoadingIsRunning
<1>4. QED
  BY <1>1, <1>2, <1>3, PTL DEF Spec

-----------------------------------------------------------------------------
(* The messages of the chat. *)

(* Numbers have the induction principle, which is cited here for a set of  *)
(* numbers: the provers know no other way to go on forever.                *)
LEMMA AllNumbers ==
    ASSUME NEW S, 0 \in S, \A n \in Nat : n \in S => n + 1 \in S
    PROVE  Nat \subseteq S
<1> DEFINE T == Nat \ S
<1>1. SUFFICES ASSUME T # {} PROVE FALSE
  OBVIOUS
<1>2. PICK n \in T : \A m \in T : <<m, n>> \notin OpToRel(<, Nat)
  BY <1>1, NatLessThanWellFounded, WFMin, Zenon
<1>3. n # 0 /\ n - 1 \in Nat
  OBVIOUS
<1>4. n - 1 \in T
  BY <1>3
<1>5. <<n - 1, n>> \in OpToRel(<, Nat)
  BY <1>3 DEF OpToRel
<1>6. QED
  BY <1>2, <1>4, <1>5

(* A message has parts of one answer, each once and in order.              *)
IsApart(m) ==
    /\ m.role # "assistant" => m.parts = <<>>
    /\ \A j \in DOMAIN m.parts : m.parts[j][1] = m.n
    /\ \A j \in 1 .. Chat!Len(m.parts) - 1 : m.parts[j][2] < m.parts[j + 1][2]

ChatMessage ==
    {m \in [role : Chat!Roles, n : Nat, parts : Chat!Seq(Nat \X Nat), streaming : BOOLEAN] :
         IsApart(m)}
Threads == {None} \cup 1 .. clicks
ChatHistory ==
    {h \in [thread : Threads, expired : BOOLEAN, messages : Chat!Seq(ChatMessage)] :
         Chat!Len(h.messages) <= MaxStored}
Endings == {"open", "done", "error"}
PageState ==
    [messages : Chat!Seq(ChatMessage), thread : Threads, stored : {None} \cup ChatHistory,
     ended : Endings]

(* What streams comes from request r, and from no event after this one.    *)
StreamsFrom(said, r, e) ==
    Chat!Streaming(said) =>
        LET m == Chat!Last(said)
        IN  m.n = r.n /\ \A j \in DOMAIN m.parts : m.parts[j][2] <= e

(* Storage has what the page shows: HistoryIsKept of a state of the page.  *)
LoadedFrom(h) ==
    IF Chat!Usable(h) THEN [thread |-> h.thread, messages |-> h.messages] ELSE Chat!NoHistory
Kept(s) ==
    s.ended = "done" /\ (s.stored # None => ~s.stored.expired) =>
        /\ LoadedFrom(s.stored).messages = Chat!History(s.thread, s.messages).messages
        /\ s.messages # <<>> => LoadedFrom(s.stored).thread = s.thread

(* The state of the page, with what is stored when all updates have run.   *)
Shown == [messages |-> messages, thread |-> thread, stored |-> Chat!Due, ended |-> ended]

(* Lists of messages: adding one, changing the last, keeping the end.      *)
LEMMA Appended ==
    ASSUME NEW M, NEW said \in Chat!Seq(M), NEW m \in M
    PROVE  /\ Chat!Append(said, m) \in Chat!Seq(M)
           /\ Chat!Append(said, m) # <<>>
           /\ Chat!Last(Chat!Append(said, m)) = m
BY DEF Chat!Last

LEMMA LastChanged ==
    ASSUME NEW M, NEW said \in Chat!Seq(M), said # <<>>, NEW m \in M
    PROVE  LET new == Chat!Append(Chat!Front(said), m)
           IN  new \in Chat!Seq(M) /\ new # <<>> /\ Chat!Last(new) = m
<1>1. Chat!Len(said) \in Nat \ {0}
  OBVIOUS
<1>2. Chat!Front(said) \in Chat!Seq(M)
  BY <1>1 DEF Chat!Front
<1>3. QED
  BY <1>2, Appended

LEMMA LastOf ==
    ASSUME NEW M, NEW said \in Chat!Seq(M), said # <<>>
    PROVE  Chat!Last(said) \in M
<1>1. Chat!Len(said) \in DOMAIN said
  OBVIOUS
<1>2. QED
  BY <1>1 DEF Chat!Last

LEMMA HistoryOf ==
    ASSUME NEW said \in Chat!Seq(ChatMessage), NEW id \in Threads, ConsoleAssumption
    PROVE  /\ Chat!History(id, said) \in ChatHistory
           /\ Chat!History(id, said).thread = id
           /\ ~Chat!History(id, said).expired
           /\ said # <<>> => Chat!History(id, said).messages # <<>>
           /\ said = <<>> => Chat!History(id, said).messages = <<>>
           /\ Chat!Len(said) <= MaxStored => Chat!History(id, said).messages = said
<1>1. MaxStored \in Nat \ {0}
  BY DEF ConsoleAssumption
<1>2. PICK first : first = IF Chat!Len(said) > MaxStored
                           THEN Chat!Len(said) - MaxStored + 1 ELSE 1
  OBVIOUS
<1>3. PICK n \in Nat : n = Chat!Len(said)
  OBVIOUS
<1>4. first \in 1 .. n + 1 /\ n - first + 1 <= MaxStored /\ (n # 0 => first <= n)
  BY <1>1, <1>2, <1>3
<1>5. PICK kept : kept = Chat!SubSeq(said, first, n)
  OBVIOUS
<1>6. kept \in Chat!Seq(ChatMessage) /\ Chat!Len(kept) = n - first + 1
  BY <1>3, <1>4, <1>5
<1>7. ASSUME n <= MaxStored PROVE kept = said
  <2>1. first = 1
    BY <1>1, <1>2, <1>3, <1>7
  <2>2. kept \in Chat!Seq(ChatMessage) /\ Chat!Len(kept) = n
    BY <1>3, <1>5, <2>1
  <2>3. \A i \in 1 .. n : kept[i] = said[i]
    BY <1>3, <1>5, <2>1
  <2>4. kept = [i \in 1 .. n |-> kept[i]] /\ said = [i \in 1 .. n |-> said[i]]
    BY <1>3, <2>2
  <2>5. QED
    BY <2>3, <2>4
<1>8. Chat!History(id, said) = [thread |-> id, expired |-> FALSE, messages |-> kept]
  BY <1>2, <1>3, <1>5 DEF Chat!History
<1>9. Chat!History(id, said) \in ChatHistory
  BY <1>4, <1>6, <1>8 DEF ChatHistory
<1>10. kept = <<>> <=> said = <<>>
  BY <1>3, <1>4, <1>6
<1>11. QED
  BY <1>3, <1>7, <1>8, <1>9, <1>10

(* A part of the answer makes a message of the assistant longer.           *)
LEMMA PartAdded ==
    ASSUME NEW m \in ChatMessage, m.role = "assistant", NEW e \in Nat \ {0},
           \A j \in DOMAIN m.parts : m.parts[j][2] <= e - 1,
           NEW new, new = [m EXCEPT !.parts = Chat!Append(@, <<m.n, e>>)]
    PROVE  /\ new \in ChatMessage
           /\ new.n = m.n
           /\ \A j \in DOMAIN new.parts : new.parts[j][2] <= e
<1>1. PICK parts : parts = m.parts
  OBVIOUS
<1>2. parts \in Chat!Seq(Nat \X Nat) /\ m.n \in Nat
  BY <1>1 DEF ChatMessage
<1>3. PICK part : part = <<m.n, e>>
  OBVIOUS
<1>4. part \in Nat \X Nat /\ part[1] = m.n /\ part[2] = e
  BY <1>2, <1>3
<1>5. PICK more : more = Chat!Append(parts, part)
  OBVIOUS
<1>6. PICK k \in Nat : k = Chat!Len(parts)
  BY <1>2
<1>7. /\ more \in Chat!Seq(Nat \X Nat)
      /\ Chat!Len(more) = k + 1
      /\ DOMAIN parts = 1 .. k
      /\ DOMAIN more = 1 .. k + 1
      /\ \A j \in 1 .. k : more[j] = parts[j]
      /\ more[k + 1] = part
  BY <1>2, <1>4, <1>5, <1>6
<1>8. new = [m EXCEPT !.parts = more]
  BY <1>1, <1>3, <1>5
<1>9. DOMAIN m = {"role", "n", "parts", "streaming"}
  BY DEF ChatMessage
<1>10. new.parts = more /\ new.n = m.n /\ new.role = m.role
  BY <1>8, <1>9
<1>11. new \in [role : Chat!Roles, n : Nat, parts : Chat!Seq(Nat \X Nat), streaming : BOOLEAN]
  BY <1>7, <1>8 DEF ChatMessage
<1>12. \A j \in 1 .. k : parts[j][1] = m.n /\ parts[j][2] <= e - 1 /\ parts[j][2] \in Nat
  <2>1. IsApart(m)
    BY DEF ChatMessage
  <2>2. \A j \in 1 .. k : parts[j] \in Nat \X Nat
    BY <1>2, <1>7
  <2>3. QED
    BY <1>1, <1>7, <2>1, <2>2 DEF IsApart
<1>13. \A j \in 1 .. k + 1 : more[j][1] = m.n /\ more[j][2] <= e
  BY <1>4, <1>7, <1>12
<1>14. \A j \in 1 .. k : more[j][2] < more[j + 1][2]
  <2>1. \A j \in 1 .. k - 1 : parts[j][2] < parts[j + 1][2]
    <3>1. IsApart(m)
      BY DEF ChatMessage
    <3>2. QED
      BY <1>1, <1>6, <3>1 DEF IsApart
  <2>2. TAKE j \in 1 .. k
  <2>3. CASE j = k
    BY <2>3, <1>4, <1>7, <1>12
  <2>4. CASE j # k
    <3>1. j \in 1 .. k - 1 /\ j + 1 \in 1 .. k
      BY <2>4
    <3>2. QED
      BY <3>1, <2>1, <1>7
  <2>5. QED
    BY <2>3, <2>4
<1>15. IsApart(new)
  <2>1. 1 .. Chat!Len(new.parts) - 1 = 1 .. k
    BY <1>7, <1>10
  <2>2. \A j \in DOMAIN new.parts : new.parts[j][1] = new.n
    BY <1>7, <1>10, <1>13
  <2>3. \A j \in 1 .. k : new.parts[j][2] < new.parts[j + 1][2]
    BY <1>10, <1>14
  <2>4. QED
    BY <1>10, <2>1, <2>2, <2>3, Zenon DEF IsApart
<1>16. QED
  BY <1>7, <1>10, <1>11, <1>13, <1>15 DEF ChatMessage

LEMMA NewMessages ==
    ASSUME NEW n \in Nat
    PROVE  /\ \A role \in Chat!Roles :
                  Chat!Message(role, n) \in ChatMessage /\ Chat!Message(role, n).role = role
           /\ Chat!NewAnswer(n) \in ChatMessage
<1>1. \A role \in Chat!Roles :
          Chat!Message(role, n) \in ChatMessage /\ Chat!Message(role, n).role = role
  BY DEF Chat!Message, ChatMessage, IsApart
<1>2. PICK m \in ChatMessage : m = Chat!Message("assistant", n)
  BY <1>1 DEF Chat!Roles
<1>3. Chat!NewAnswer(n) = [m EXCEPT !.streaming = TRUE]
  BY <1>2 DEF Chat!NewAnswer
<1>4. QED
  BY <1>1, <1>3 DEF ChatMessage, IsApart

(* Ending the last message.                                                *)
LEMMA FinishedList ==
    ASSUME NEW said \in Chat!Seq(ChatMessage)
    PROVE  /\ Chat!Finished(said) \in Chat!Seq(ChatMessage)
           /\ ~Chat!Streaming(Chat!Finished(said))
<1>1. CASE Chat!Streaming(said)
  <2>1. said # <<>>
    BY <1>1 DEF Chat!Streaming
  <2>2. PICK m \in ChatMessage : m = Chat!Last(said)
    BY <2>1, LastOf
  <2>3. PICK new : new = [m EXCEPT !.streaming = FALSE]
    OBVIOUS
  <2>4. /\ DOMAIN m = {"role", "n", "parts", "streaming"}
        /\ m \in [role : Chat!Roles, n : Nat, parts : Chat!Seq(Nat \X Nat), streaming : BOOLEAN]
    BY DEF ChatMessage
  <2>5. new.parts = m.parts /\ new.n = m.n /\ new.role = m.role
    BY <2>3, <2>4
  <2>6. ~new.streaming
    BY <2>3, <2>4, Zenon
  <2>7. new \in ChatMessage
    BY <2>3, <2>4, <2>5 DEF ChatMessage, IsApart
  <2>8. Chat!Finished(said) = Chat!Append(Chat!Front(said), new)
    BY <1>1, <2>2, <2>3 DEF Chat!Finished
  <2>9. Chat!Finished(said) \in Chat!Seq(ChatMessage) /\ Chat!Last(Chat!Finished(said)) = new
    BY <2>1, <2>7, <2>8, LastChanged
  <2>10. QED
    BY <2>6, <2>9, Zenon DEF Chat!Streaming
<1>2. CASE ~Chat!Streaming(said)
  BY <1>2, Zenon DEF Chat!Finished
<1>3. QED
  BY <1>1, <1>2

(* The page goes on in the same way: new messages, all else as it was.     *)
LEMMA PageWith ==
    ASSUME NEW s \in PageState, NEW said \in Chat!Seq(ChatMessage), NEW ending \in Endings,
           NEW t, t = [s EXCEPT !.messages = said, !.ended = ending]
    PROVE  t \in PageState /\ t.messages = said /\ t.ended = ending
BY DEF PageState

(* What an event makes of the page.  A chunk goes on with what streams,    *)
(* which is the request's own, or begins a message of its own.             *)
LEMMA ChunkHandled ==
    ASSUME NEW s \in PageState, NEW r, r.n \in Nat, NEW e \in Nat \ {0},
           StreamsFrom(s.messages, r, e - 1)
    PROVE  LET t == Chat!OnChunk(s, r, e)
           IN  /\ t \in PageState /\ StreamsFrom(t.messages, r, e)
               /\ t.ended = s.ended
<1>1. PICK said \in Chat!Seq(ChatMessage) : said = s.messages
  BY DEF PageState
<1>2. PICK t : t = Chat!OnChunk(s, r, e)
  OBVIOUS
<1> DEFINE Result(new) == t = [s EXCEPT !.messages = new]
<1>3. ASSUME NEW new \in Chat!Seq(ChatMessage), new # <<>>, Result(new),
             LET m == Chat!Last(new)
             IN  m.n = r.n /\ \A j \in DOMAIN m.parts : m.parts[j][2] <= e
      PROVE  t \in PageState /\ StreamsFrom(t.messages, r, e) /\ t.ended = s.ended
  <2>1. t \in PageState /\ t.messages = new /\ t.ended = s.ended
    BY <1>3 DEF PageState
  <2>2. QED
    BY <1>3, <2>1 DEF StreamsFrom
<1>4. CASE Chat!Streaming(said)
  <2>1. said # <<>>
    BY <1>4 DEF Chat!Streaming
  <2>2. PICK m \in ChatMessage : m = Chat!Last(said)
    BY <2>1, LastOf
  <2>3. m.role = "assistant"
    BY <1>4, <2>2, Zenon DEF Chat!Streaming
  <2>4. m.n = r.n /\ \A j \in DOMAIN m.parts : m.parts[j][2] <= e - 1
    BY <1>1, <1>4, <2>2 DEF StreamsFrom
  <2>5. PICK p : p = Chat!WithPart(m, <<r.n, e>>)
    OBVIOUS
  <2>6. /\ p \in ChatMessage /\ p.n = r.n
        /\ \A j \in DOMAIN p.parts : p.parts[j][2] <= e
    BY <2>3, <2>4, <2>5, PartAdded DEF Chat!WithPart
  <2>7. PICK new : new = Chat!Append(Chat!Front(said), p)
    OBVIOUS
  <2>8. new \in Chat!Seq(ChatMessage) /\ new # <<>> /\ Chat!Last(new) = p
    BY <2>1, <2>6, <2>7, LastChanged
  <2>9. Result(new)
    BY <1>1, <1>2, <1>4, <2>2, <2>5, <2>7, Zenon DEF Chat!OnChunk
  <2>10. QED
    BY <1>2, <1>3, <2>6, <2>8, <2>9
<1>5. CASE ~Chat!Streaming(said)
  <2>1. PICK p : p = Chat!WithPart(Chat!NewAnswer(r.n), <<r.n, e>>)
    OBVIOUS
  <2>2. /\ p \in ChatMessage /\ p.n = r.n
        /\ \A j \in DOMAIN p.parts : p.parts[j][2] <= e
    <3>1. PICK m \in ChatMessage : m = Chat!NewAnswer(r.n)
      BY NewMessages
    <3>2. m.role = "assistant" /\ m.n = r.n /\ m.parts = <<>>
      BY <3>1 DEF Chat!NewAnswer, Chat!Message
    <3>3. p = [m EXCEPT !.parts = Chat!Append(@, <<m.n, e>>)]
      BY <2>1, <3>1, <3>2 DEF Chat!WithPart
    <3>4. \A j \in DOMAIN m.parts : m.parts[j][2] <= e - 1
      BY <3>2
    <3>5. QED
      BY <3>1, <3>2, <3>3, <3>4, PartAdded
  <2>3. PICK new : new = Chat!Append(said, p)
    OBVIOUS
  <2>4. new \in Chat!Seq(ChatMessage) /\ new # <<>> /\ Chat!Last(new) = p
    BY <2>2, <2>3, Appended
  <2>5. Result(new)
    BY <1>1, <1>2, <1>5, <2>1, <2>3, Zenon DEF Chat!OnChunk
  <2>6. QED
    BY <1>2, <1>3, <2>2, <2>4, <2>5
<1>6. QED
  BY <1>4, <1>5

(* A message of another role ends what streamed.                           *)
LEMMA OtherAppended ==
    ASSUME NEW said \in Chat!Seq(ChatMessage), NEW n \in Nat,
           NEW role \in Chat!Roles \ {"assistant"},
           NEW new, new = Chat!Append(said, Chat!Message(role, n))
    PROVE  new \in Chat!Seq(ChatMessage) /\ ~Chat!Streaming(new)
<1>1. PICK m : m = Chat!Message(role, n)
  OBVIOUS
<1>2. m \in ChatMessage /\ m.role # "assistant"
  BY <1>1, NewMessages
<1>3. new \in Chat!Seq(ChatMessage) /\ Chat!Last(new) = m
  BY <1>1, <1>2, Appended
<1>4. QED
  BY <1>2, <1>3, Zenon DEF Chat!Streaming

LEMMA ToolCallHandled ==
    ASSUME NEW s \in PageState, NEW r, r.n \in Nat
    PROVE  LET t == Chat!OnToolCall(s, r)
           IN  t \in PageState /\ ~Chat!Streaming(t.messages) /\ t.ended = s.ended
<1>1. PICK said \in Chat!Seq(ChatMessage) : said = s.messages
  BY DEF PageState
<1>2. PICK new : new = Chat!Append(said, Chat!Message("tool", r.n))
  OBVIOUS
<1>3. new \in Chat!Seq(ChatMessage) /\ ~Chat!Streaming(new)
  BY <1>2, OtherAppended DEF Chat!Roles
<1>4. PICK t : t = [s EXCEPT !.messages = new]
  OBVIOUS
<1>5. t = Chat!OnToolCall(s, r)
  BY <1>1, <1>2, <1>4, Zenon DEF Chat!OnToolCall
<1>6. t \in PageState /\ t.messages = new /\ t.ended = s.ended
  BY <1>3, <1>4 DEF PageState
<1>7. QED
  BY <1>3, <1>5, <1>6, Zenon

LEMMA ErrorHandled ==
    ASSUME NEW s \in PageState, NEW r, r.n \in Nat
    PROVE  LET t == Chat!OnError(s, r)
           IN  t \in PageState /\ ~Chat!Streaming(t.messages) /\ t.ended = "error"
<1>1. PICK said \in Chat!Seq(ChatMessage) : said = s.messages
  BY DEF PageState
<1>2. PICK new : new = Chat!Append(said, Chat!Message("error", r.n))
  OBVIOUS
<1>3. new \in Chat!Seq(ChatMessage) /\ ~Chat!Streaming(new)
  BY <1>2, OtherAppended DEF Chat!Roles
<1>4. PICK t : t = [s EXCEPT !.messages = new, !.ended = "error"]
  OBVIOUS
<1>5. t = Chat!OnError(s, r)
  BY <1>1, <1>2, <1>4, Zenon DEF Chat!OnError
<1>6. t \in PageState /\ t.messages = new /\ t.ended = "error"
  BY <1>3, <1>4 DEF PageState, Endings
<1>7. QED
  BY <1>3, <1>5, <1>6, Zenon

LEMMA SmallerLists ==
    ASSUME NEW M, NEW N, N \subseteq M, NEW said \in Chat!Seq(N)
    PROVE  said \in Chat!Seq(M)
OBVIOUS

(* A stored history is not nothing.                                        *)
LEMMA HistoryIsSome ==
    ASSUME ConsoleAssumption, clicks \in Nat
    PROVE  None \notin ChatHistory
<1>1. Threads \subseteq {None} \cup Nat
  BY DEF Threads
<1>2. ChatHistory \subseteq Chat!Histories
  <2>1. ASSUME NEW said \in Chat!Seq(ChatMessage)
        PROVE  said \in Chat!Messages
    <3>1. PICK M : M = [role : Chat!Roles, n : Nat, parts : Chat!Seq(Nat \X Nat),
                        streaming : BOOLEAN]
      OBVIOUS
    <3>2. ChatMessage \subseteq M
      BY <3>1 DEF ChatMessage
    <3>3. said \in Chat!Seq(M)
      BY <3>2, SmallerLists
    <3>4. QED
      BY <3>1, <3>3 DEF Chat!Messages
  <2>2. QED
    BY <1>1, <2>1 DEF ChatHistory, Chat!Histories
<1>3. QED
  BY <1>2, Zenon DEF ConsoleAssumption

(* A complete answer is stored as the page shows it.                       *)
LEMMA CompleteHandled ==
    ASSUME NEW s \in PageState, NEW r, r.n \in 1 .. clicks, r.thread \in Threads,
           clicks \in Nat, ConsoleAssumption
    PROVE  LET t == Chat!OnComplete(s, r)
           IN  t \in PageState /\ ~Chat!Streaming(t.messages) /\ t.ended = "done" /\ Kept(t)
<1>1. PICK said \in Chat!Seq(ChatMessage) : said = s.messages
  BY DEF PageState
<1>2. PICK new : new = Chat!Finished(said)
  OBVIOUS
<1>3. new \in Chat!Seq(ChatMessage) /\ ~Chat!Streaming(new)
  BY <1>2, FinishedList
<1>4. PICK id : id = Chat!AnswerThread(r)
  OBVIOUS
<1>5. id \in Threads
  BY <1>4 DEF Chat!AnswerThread, Threads
<1>6. PICK h : h = Chat!History(id, new)
  OBVIOUS
<1>7. /\ h \in ChatHistory /\ h.thread = id /\ ~h.expired
      /\ new # <<>> => h.messages # <<>>
      /\ new = <<>> => h.messages = <<>>
  BY <1>3, <1>5, <1>6, HistoryOf, Zenon
<1>8. PICK t : t = [s EXCEPT !.messages = new, !.thread = id, !.ended = "done", !.stored = h]
  OBVIOUS
<1>9. t = Chat!OnComplete(s, r)
  BY <1>1, <1>2, <1>4, <1>6, <1>8, Zenon DEF Chat!OnComplete
<1>10. /\ t \in PageState /\ t.messages = new /\ t.ended = "done" /\ t.thread = id
       /\ t.stored = h
  BY <1>3, <1>5, <1>7, <1>8 DEF PageState, Endings
<1>11. h # None
  BY <1>7, HistoryIsSome
<1>12. Kept(t)
  <2>1. CASE new = <<>>
    <3>1. ~Chat!Usable(h)
      BY <1>7, <2>1, Zenon DEF Chat!Usable
    <3>2. LoadedFrom(h).messages = <<>>
      BY <3>1 DEF LoadedFrom, Chat!NoHistory
    <3>3. QED
      BY <1>6, <1>7, <1>10, <2>1, <3>2 DEF Kept
  <2>2. CASE new # <<>>
    <3>1. Chat!Usable(h)
      BY <1>7, <1>11, <2>2, Zenon DEF Chat!Usable
    <3>2. LoadedFrom(h) = [thread |-> h.thread, messages |-> h.messages]
      BY <3>1 DEF LoadedFrom
    <3>3. LoadedFrom(h).messages = h.messages /\ LoadedFrom(h).thread = h.thread
      BY <3>2
    <3>4. QED
      BY <1>6, <1>7, <1>10, <3>3 DEF Kept
  <2>3. QED
    BY <2>1, <2>2
<1>13. QED
  BY <1>3, <1>9, <1>10, <1>12, Zenon

LEMMA EventHandled ==
    ASSUME NEW s \in PageState, clicks \in Nat, ConsoleAssumption,
           NEW r, r.n \in 1 .. clicks, r.thread \in Threads,
           r.script \in Chat!Seq(Chat!Events), NEW e \in DOMAIN r.script,
           StreamsFrom(s.messages, r, e - 1),
           NEW t, t = Chat!Handled(s, r, e)
    PROVE  /\ t \in PageState
           /\ StreamsFrom(t.messages, r, e)
           /\ r.script[e] # "done" /\ t.ended = "done" => s.ended = "done"
           /\ r.script[e] = "done" => Kept(t)
<1>1. r.script[e] \in Chat!Events
  OBVIOUS
<1>2. e \in Nat \ {0} /\ r.n \in Nat
  OBVIOUS
<1>3. CASE r.script[e] = "chunk"
  <2>1. t = Chat!OnChunk(s, r, e)
    BY <1>3 DEF Chat!Handled
  <2>2. QED
    BY <1>2, <1>3, <2>1, ChunkHandled
<1>4. CASE r.script[e] = "tool_call"
  <2>1. t = Chat!OnToolCall(s, r)
    BY <1>4 DEF Chat!Handled
  <2>2. QED
    BY <1>2, <1>4, <2>1, ToolCallHandled DEF StreamsFrom
<1>5. CASE r.script[e] = "done"
  <2>1. t = Chat!OnComplete(s, r)
    BY <1>5 DEF Chat!Handled
  <2>2. QED
    BY <1>2, <1>5, <2>1, CompleteHandled DEF StreamsFrom
<1>6. CASE r.script[e] = "error"
  <2>1. t = Chat!OnError(s, r)
    BY <1>6 DEF Chat!Handled
  <2>2. QED
    BY <1>2, <1>6, <2>1, ErrorHandled DEF StreamsFrom
<1>7. QED
  BY <1>1, <1>3, <1>4, <1>5, <1>6 DEF Chat!Events

(* A read goes through its events one by one: what the page is after each. *)
IsReading(r, upto, n, f) ==
    f = [e \in 0 .. n |->
            IF e = 0
            THEN [messages |-> messages, thread |-> thread, stored |-> Chat!Due,
                  ended |-> ended]
            ELSE IF e \in Chat!WholeEvents(r, upto) THEN Chat!Handled(f[e - 1], r, e)
            ELSE f[e - 1]]

LEMMA ReadingExists ==
    ASSUME NEW r, NEW upto
    PROVE  \A n \in Nat : \E f : IsReading(r, upto, n, f)
<1> DEFINE S == {n \in Nat : \E f : IsReading(r, upto, n, f)}
<1> DEFINE Step(f, e) == IF e = 0 THEN Shown
                         ELSE IF e \in Chat!WholeEvents(r, upto) THEN Chat!Handled(f[e - 1], r, e)
                         ELSE f[e - 1]
<1>1. \A n, f : IsReading(r, upto, n, f) <=> f = [e \in 0 .. n |-> Step(f, e)]
  BY DEF IsReading, Shown
<1>2. 0 \in S
  <2>1. PICK f : f = [e \in 0 .. 0 |-> Shown]
    OBVIOUS
  <2>2. f = [e \in 0 .. 0 |-> Step(f, e)]
    BY <2>1
  <2>3. QED
    BY <1>1, <2>2
<1>3. ASSUME NEW n \in Nat, n \in S
      PROVE  n + 1 \in S
  <2>1. PICK f : f = [e \in 0 .. n |-> Step(f, e)]
    BY <1>1, <1>3
  <2>2. PICK g : g = [e \in 0 .. n + 1 |-> IF e = n + 1 THEN Step(f, e) ELSE f[e]]
    OBVIOUS
  <2>3. \A e \in 0 .. n : g[e] = f[e]
    BY <2>2
  <2>4. \A e \in 0 .. n + 1 : Step(g, e) = Step(f, e)
    BY <2>3
  <2>5. \A e \in 0 .. n + 1 : g[e] = Step(f, e)
    BY <2>1, <2>2
  <2>6. g = [e \in 0 .. n + 1 |-> Step(g, e)]
    BY <2>2, <2>4, <2>5
  <2>7. \E h : IsReading(r, upto, n + 1, h)
    BY <1>1, <2>6
  <2>8. QED
    BY <2>7
<1>4. Nat \subseteq S
  BY <1>2, <1>3, AllNumbers
<1>5. QED
  BY <1>4

LEMMA AfterReadIs ==
    ASSUME NEW r, NEW upto, NEW n \in Nat, n = Chat!Len(r.script)
    PROVE  \E f : IsReading(r, upto, n, f) /\ Chat!AfterRead(r, upto) = f[n]
<1>1. \E f : IsReading(r, upto, n, f)
  BY ReadingExists
<1>2. PICK f : f = CHOOSE g : IsReading(r, upto, n, g)
  OBVIOUS
<1>3. IsReading(r, upto, n, f)
  BY <1>1, <1>2
<1>4. Chat!AfterRead(r, upto) = f[n]
  BY <1>2, Zenon DEF Chat!AfterRead, IsReading
<1>5. QED
  BY <1>3, <1>4

(* What a read makes of the page of its request: the types are kept, the   *)
(* message that streams is still the request's, and a complete answer, if  *)
(* it is the last event there is, is stored as it is shown.                *)
OfReader(r) ==
    /\ r.n \in 1 .. clicks /\ r.thread \in Threads
    /\ r.script \in Chat!Seq(Chat!Events)
    /\ r.lines \in 0 .. Chat!Lines * Chat!Len(r.script)
StreamsUpTo(said, r, lines) ==
    Chat!Streaming(said) =>
        LET m == Chat!Last(said)
        IN  /\ m.n = r.n
            /\ \A j \in DOMAIN m.parts : Chat!Lines * m.parts[j][2] <= lines
DoneEnds(script) == \A e \in DOMAIN script : script[e] = "done" => e = Chat!Len(script)

LEMMA ReadKeeps ==
    ASSUME ConsoleAssumption, clicks \in Nat, Shown \in PageState,
           NEW r, OfReader(r), StreamsUpTo(messages, r, r.lines),
           NEW upto \in r.lines + 1 .. Chat!Lines * Chat!Len(r.script)
    PROVE  LET t == Chat!AfterRead(r, upto)
           IN  /\ t \in PageState
               /\ StreamsUpTo(t.messages, r, upto)
               /\ ended # "done" /\ DoneEnds(r.script) =>
                      Kept(t) /\ (t.ended = "done" => upto = Chat!Lines * Chat!Len(r.script))
<1>1. PICK n \in Nat : n = Chat!Len(r.script)
  BY DEF OfReader
<1>2. /\ DOMAIN r.script = 1 .. n /\ Chat!Lines = 3
      /\ r.lines \in Nat /\ upto \in Nat /\ r.lines < upto /\ upto <= 3 * n
  BY <1>1 DEF OfReader, Chat!Lines
<1>3. PICK f : IsReading(r, upto, n, f) /\ Chat!AfterRead(r, upto) = f[n]
  BY <1>1, AfterReadIs
<1>4. PICK W : W = Chat!WholeEvents(r, upto)
  OBVIOUS
<1>5. W = {e \in 1 .. n : 3 * (e - 1) >= r.lines /\ 3 * e <= upto}
  BY <1>2, <1>4 DEF Chat!WholeEvents
<1>6. /\ f[0] = Shown
      /\ \A e \in 1 .. n : e \in W => f[e] = Chat!Handled(f[e - 1], r, e)
      /\ \A e \in 1 .. n : e \notin W => f[e] = f[e - 1]
  BY <1>3, <1>4, <1>5 DEF IsReading, Shown
<1> DEFINE Streams(e) ==
        Chat!Streaming(f[e].messages) =>
            LET m == Chat!Last(f[e].messages)
            IN  /\ m.n = r.n
                /\ \A j \in DOMAIN m.parts :
                       /\ 3 * m.parts[j][2] <= upto
                       /\ \A k \in W : k > e => m.parts[j][2] <= k - 1
           Ends(e) ==
        ended # "done" /\ DoneEnds(r.script) =>
            /\ Kept(f[e])
            /\ f[e].ended = "done" => upto = 3 * n /\ \A k \in W : k <= e
           Good(e) == f[e] \in PageState /\ Streams(e) /\ Ends(e)
           S == {e \in Nat : e <= n => Good(e)}
<1>7. Good(0)
  <2>1. f[0] \in PageState /\ f[0].messages = messages /\ f[0].ended = ended
    BY <1>6 DEF Shown
  <2>2. Streams(0)
    <3>1. ASSUME Chat!Streaming(messages)
          PROVE  Streams(0)
      <4>1. messages # <<>> /\ messages \in Chat!Seq(ChatMessage)
        BY <3>1, <2>1 DEF Chat!Streaming, PageState
      <4>2. PICK m \in ChatMessage : m = Chat!Last(messages)
        BY <4>1, LastOf
      <4>3. m.n = r.n /\ \A j \in DOMAIN m.parts : 3 * m.parts[j][2] <= r.lines
        BY <3>1, <4>2, <1>2 DEF StreamsUpTo
      <4>4. \A j \in DOMAIN m.parts : m.parts[j][2] \in Nat
        BY DEF ChatMessage
      <4>5. \A p \in Nat : 3 * p <= r.lines =>
                3 * p <= upto /\ \A k \in W : k > 0 => p <= k - 1
        BY <1>2, <1>5
      <4>6. QED
        BY <2>1, <4>2, <4>3, <4>4, <4>5
    <3>2. QED
      BY <2>1, <3>1
  <2>3. Ends(0)
    BY <2>1 DEF Kept
  <2>4. QED
    BY <2>1, <2>2, <2>3
<1>8. ASSUME NEW e \in 1 .. n, Good(e - 1)
      PROVE  Good(e)
  <2>1. PICK s \in PageState : s = f[e - 1]
    BY <1>8
  <2>2. CASE e \notin W
    <3>1. f[e] = f[e - 1]
      BY <1>6, <2>2
    <3>2. \A k \in W : k \in Nat /\ (k > e <=> k > e - 1) /\ (k <= e - 1 => k <= e)
      BY <1>5, <2>2
    <3>3. QED
      BY <1>8, <3>1, <3>2
  <2>3. CASE e \in W
    <3>1. PICK t : t = Chat!Handled(s, r, e)
      OBVIOUS
    <3>2. f[e] = t
      BY <1>6, <2>1, <2>3, <3>1
    <3>3. StreamsFrom(s.messages, r, e - 1)
      BY <1>8, <2>1, <2>3 DEF StreamsFrom
    <3>4. e \in DOMAIN r.script
      BY <1>2
    <3>5. /\ t \in PageState
          /\ StreamsFrom(t.messages, r, e)
          /\ r.script[e] # "done" /\ t.ended = "done" => s.ended = "done"
          /\ r.script[e] = "done" => Kept(t)
      BY <3>1, <3>3, <3>4, EventHandled DEF OfReader
    <3>6. Streams(e)
      <4>1. ASSUME Chat!Streaming(t.messages)
            PROVE  Streams(e)
        <5>1. t.messages # <<>> /\ t.messages \in Chat!Seq(ChatMessage)
          BY <4>1, <3>5 DEF Chat!Streaming, PageState
        <5>2. PICK m \in ChatMessage : m = Chat!Last(t.messages)
          BY <5>1, LastOf
        <5>3. m.n = r.n /\ \A j \in DOMAIN m.parts : m.parts[j][2] <= e
          BY <3>5, <4>1, <5>2 DEF StreamsFrom
        <5>4. \A j \in DOMAIN m.parts : m.parts[j][2] \in Nat
          BY DEF ChatMessage
        <5>5. \A p \in Nat : p <= e =>
                  3 * p <= upto /\ \A k \in W : k > e => p <= k - 1
          BY <1>2, <1>5, <2>3
        <5>6. QED
          BY <3>2, <5>2, <5>3, <5>4, <5>5
      <4>2. QED
        BY <3>2, <4>1
    <3>7. ASSUME ended # "done", DoneEnds(r.script)
          PROVE  Kept(t) /\ (t.ended = "done" => upto = 3 * n /\ \A k \in W : k <= e)
      <4>1. s.ended # "done"
        <5>1. s.ended = "done" => \A k \in W : k <= e - 1
          BY <1>8, <2>1, <3>7
        <5>2. QED
          BY <2>3, <5>1
      <4>2. CASE r.script[e] = "done"
        <5>1. e = n
          BY <4>2, <3>4, <3>7, <1>1 DEF DoneEnds
        <5>2. upto = 3 * n /\ \A k \in W : k <= e
          BY <1>2, <1>5, <2>3, <5>1
        <5>3. QED
          BY <3>5, <4>2, <5>2
      <4>3. CASE r.script[e] # "done"
        <5>1. t.ended # "done"
          BY <3>5, <4>1, <4>3
        <5>2. QED
          BY <5>1 DEF Kept
      <4>4. QED
        BY <4>2, <4>3
    <3>8. QED
      BY <3>2, <3>5, <3>6, <3>7
  <2>4. QED
    BY <2>2, <2>3
<1>9. Nat \subseteq S
  <2>1. 0 \in S
    BY <1>7
  <2>2. ASSUME NEW e \in Nat, e \in S
        PROVE  e + 1 \in S
    <3>1. CASE e + 1 <= n
      <4>1. e + 1 \in 1 .. n /\ (e + 1) - 1 = e /\ e <= n
        BY <3>1
      <4>2. Good(e)
        BY <2>2, <4>1
      <4>3. Good(e + 1)
        BY <1>8, <4>1, <4>2
      <4>4. QED
        BY <4>3
    <3>2. QED
      BY <3>1
  <2>3. QED
    BY <2>1, <2>2, AllNumbers
<1>10. Good(n)
  <2> HIDE DEF Good
  <2>1. n \in Nat /\ n <= n
    BY <1>1
  <2>2. n \in S
    BY <1>9, <2>1, Zenon
  <2>3. QED
    BY <2>1, <2>2
<1>11. QED
  BY <1>1, <1>2, <1>3, <1>10 DEF StreamsUpTo

(* What the page shows and stores is of its types, requests are made with  *)
(* numbers and threads of this session, and what streams is the request's  *)
(* own, up to the lines that were read of it.                              *)
MessagesInv ==
    /\ clicks \in Nat
    /\ Shown \in PageState
    /\ {stored, storing} \subseteq {None} \cup ChatHistory
    /\ controller \in Threads
    /\ \A r \in requests :
           /\ OfReader(r) /\ r.page \in Chat!Seq(ChatMessage)
           /\ r.phase = "sent" => r.lines = 0
    /\ \A r \in Chat!Mine : StreamsUpTo(messages, r, r.lines)

(* While no request has outlived its visit and no storing update a clear,  *)
(* the storage will have what the page shows, and a complete answer has nothing left to be read.            *)
HistoryInv ==
    /\ ~strayed => Kept(Shown) /\ requests = Chat!Mine
    /\ \A r \in requests : DoneEnds(r.script)
    /\ ended = "done" =>
           \A r \in Chat!Mine :
               r.phase = "open" /\ r.lines = Chat!Lines * Chat!Len(r.script)

(* More clicks, more numbers.                                              *)
LEMMA NumbersGrow ==
    ASSUME clicks \in Nat, clicks' \in Nat, clicks <= clicks'
    PROVE  /\ Threads \subseteq Threads'
           /\ PageState \subseteq PageState'
           /\ ChatHistory \subseteq ChatHistory'
           /\ \A r : OfReader(r) => OfReader(r)'
<1>1. Threads \subseteq Threads' /\ 1 .. clicks \subseteq 1 .. clicks'
  BY DEF Threads
<1>2. ChatHistory \subseteq ChatHistory'
  BY <1>1 DEF ChatHistory
<1>3. PageState \subseteq PageState'
  BY <1>1, <1>2 DEF PageState
<1>4. QED
  BY <1>1, <1>2, <1>3 DEF OfReader

(* Where nothing is shown and nothing could be loaded, all is kept.        *)
LEMMA NothingKept ==
    ASSUME NEW s, s.messages = <<>>, ~Chat!Usable(s.stored), s.thread \in Threads
    PROVE  Kept(s)
<1>1. LoadedFrom(s.stored) = [thread |-> None, messages |-> <<>>]
  BY DEF LoadedFrom, Chat!NoHistory
<1>2. Chat!History(s.thread, <<>>).messages = <<>>
  <2>1. <<>> \in Chat!Seq(ChatMessage)
    OBVIOUS
  <2>2. QED
    BY <2>1, HistoryOf, ConsoleAssumption
<1>3. QED
  BY <1>1, <1>2 DEF Kept

LEMMA MessagesBegin == Chat!Init => MessagesInv /\ HistoryInv
<1> SUFFICES ASSUME Chat!Init PROVE MessagesInv /\ HistoryInv
  OBVIOUS
<1>1. /\ messages = <<>> /\ thread = None /\ controller = None /\ stored = None
      /\ storing = None /\ requests = {} /\ ended = "done" /\ clicks = 0
  BY DEF Chat!Init
<1>2. Chat!Mine = {}
  BY <1>1 DEF Chat!Mine
<1>3. Shown \in PageState
  BY <1>1 DEF Shown, PageState, Threads, Endings, Chat!Due
<1>4. Kept(Shown)
  <2>1. ~Chat!Usable(None)
    BY Zenon DEF Chat!Usable
  <2>2. QED
    BY <1>1, <2>1, NothingKept DEF Shown, Threads, Chat!Due
<1>5. QED
  BY <1>1, <1>2, <1>3, <1>4 DEF MessagesInv, HistoryInv, Threads

(* The user writes: the new message ends what streamed, and the request    *)
(* starts from nothing.                                                    *)
LEMMA SendKeepsMessages ==
    ASSUME ChatInv, MessagesInv, Chat!HandleSend
    PROVE  MessagesInv' /\ (HistoryInv => HistoryInv')
<1>1. PICK new : new = Chat!Request(clicks')
  OBVIOUS
<1>2. /\ clicks' = clicks + 1 /\ controller' = clicks' /\ ended' = "open"
      /\ messages' = Chat!Append(messages, Chat!Message("user", clicks'))
      /\ requests' = Chat!Aborted(requests) \cup {new}
      /\ UNCHANGED <<thread, stored, storing, visit, strayed>>
  BY <1>1 DEF Chat!HandleSend
<1>3. clicks \in Nat /\ clicks' \in Nat /\ clicks <= clicks' /\ clicks' \in Threads'
  BY <1>2 DEF MessagesInv, Threads
<1>4. Shown \in PageState'
  BY <1>3, NumbersGrow DEF MessagesInv
<1>5. messages \in Chat!Seq(ChatMessage)
  BY DEF MessagesInv, Shown, PageState
<1>6. messages' \in Chat!Seq(ChatMessage) /\ ~Chat!Streaming(messages')
  BY <1>2, <1>3, <1>5, OtherAppended DEF Chat!Roles
<1>7. Shown' \in PageState'
  BY <1>2, <1>4, <1>6 DEF Shown, PageState, Endings, Chat!Due
<1>8. /\ new.n = clicks' /\ new.thread = thread /\ new.visit = visit
      /\ new.script = <<>> /\ new.lines = 0 /\ new.page = <<>>
  BY <1>1 DEF Chat!Request
<1>9. OfReader(new)' /\ new.page \in Chat!Seq(ChatMessage)
  <2>1. thread \in Threads'
    BY <1>4 DEF Shown, PageState
  <2>2. clicks' \in 1 .. clicks'
    BY <1>2, <1>3
  <2>3. new.script \in Chat!Seq(Chat!Events) /\ Chat!Len(new.script) = 0
    BY <1>8
  <2>4. new.lines \in 0 .. 3 * Chat!Len(new.script)
    BY <1>8, <2>3
  <2>5. new.page \in Chat!Seq(ChatMessage)
    BY <1>8
  <2>6. QED
    BY <1>8, <2>1, <2>2, <2>3, <2>4, <2>5 DEF OfReader, Chat!Lines
<1>10. ASSUME NEW r \in Chat!Aborted(requests)
       PROVE  /\ OfReader(r)' /\ r.page \in Chat!Seq(ChatMessage)
              /\ r.phase = "sent" => r.lines = 0
              /\ \E q \in requests : r.visit = q.visit /\ r.script = q.script
  <2>1. PICK q \in requests : r = IF q.n = controller THEN [q EXCEPT !.aborted = TRUE] ELSE q
    BY DEF Chat!Aborted
  <2>2. /\ IsRequest(q) /\ OfReader(q) /\ q.page \in Chat!Seq(ChatMessage)
        /\ q.phase = "sent" => q.lines = 0
    BY DEF ChatInv, MessagesInv
  <2>3. /\ r.n = q.n /\ r.thread = q.thread /\ r.script = q.script /\ r.lines = q.lines
        /\ r.page = q.page /\ r.visit = q.visit /\ r.phase = q.phase
    BY <2>1, <2>2 DEF IsRequest
  <2>4. OfReader(r)
    BY <2>2, <2>3 DEF OfReader
  <2>5. QED
    BY <1>3, <2>2, <2>3, <2>4, NumbersGrow
<1>11. MessagesInv'
  <2>1. {stored', storing'} \subseteq {None} \cup ChatHistory'
    BY <1>2, <1>3, NumbersGrow DEF MessagesInv
  <2>2. QED
    BY <2>1, <1>2, <1>3, <1>6, <1>7, <1>8, <1>9, <1>10 DEF MessagesInv, StreamsUpTo
<1>12. ASSUME HistoryInv
       PROVE  HistoryInv'
  <2>1. ~loading
    BY DEF Chat!HandleSend, Chat!CanSend
  <2>2. Chat!Mine = {}
    BY <2>1 DEF ChatInv
  <2>3. ~strayed => Chat!Mine' = requests'
    <3>1. ASSUME ~strayed PROVE Chat!Mine' = requests'
      <4>1. requests = {}
        BY <3>1, <2>2, <1>12 DEF HistoryInv
      <4>2. requests' = {new}
        BY <1>2, <4>1 DEF Chat!Aborted
      <4>3. QED
        BY <1>2, <1>8, <4>2 DEF Chat!Mine
    <3>2. QED
      BY <3>1
  <2>4. Kept(Shown')
    BY <1>2 DEF Kept, Shown
  <2>5. \A r \in requests' : DoneEnds(r.script)
    <3>1. DoneEnds(new.script)
      BY <1>8 DEF DoneEnds
    <3>2. QED
      BY <1>2, <1>10, <1>12, <3>1 DEF HistoryInv
  <2>6. QED
    BY <1>2, <2>3, <2>4, <2>5 DEF HistoryInv
<1>13. QED
  BY <1>11, <1>12

(* The history is cleared: nothing is shown and nothing is stored, unless *)
(* an update that has still to run stores its answer after all.            *)
LEMMA ClearKeepsMessages ==
    ASSUME ChatInv, MessagesInv, Chat!HandleClearHistory
    PROVE  MessagesInv' /\ (HistoryInv => HistoryInv')
<1>1. /\ stored' = None /\ messages' = <<>> /\ thread' = None
      /\ UNCHANGED <<storing, controller, requests, visit, ended, clicks>>
  BY DEF Chat!HandleClearHistory
<1>2. ~strayed' => ~strayed /\ storing = None
  BY Zenon DEF Chat!HandleClearHistory
<1>3. Threads' = Threads /\ PageState' = PageState /\ ChatHistory' = ChatHistory
      /\ Chat!Mine' = Chat!Mine
  BY <1>1 DEF Threads, PageState, ChatHistory, Chat!Mine
<1>4. Shown' \in PageState /\ ~Chat!Streaming(messages')
  BY <1>1 DEF MessagesInv, Shown, PageState, Threads, Chat!Streaming, Chat!Due
<1>5. \A r : OfReader(r)' <=> OfReader(r)
  BY <1>1, <1>3 DEF OfReader
<1>6. MessagesInv'
  BY <1>1, <1>3, <1>4, <1>5 DEF MessagesInv, StreamsUpTo
<1>7. ASSUME storing = None PROVE Kept(Shown')
  <2>1. ~Chat!Usable(None)
    BY Zenon DEF Chat!Usable
  <2>2. QED
    BY <1>1, <1>7, <2>1, NothingKept DEF Shown, Threads, Chat!Due
<1>8. ASSUME HistoryInv PROVE HistoryInv'
  <2>1. ~strayed' => requests = Chat!Mine
    BY <1>2, <1>8 DEF HistoryInv
  <2>2. QED
    BY <1>1, <1>2, <1>3, <1>7, <1>8, <2>1 DEF HistoryInv
<1>9. QED
  BY <1>6, <1>8

(* The page is opened anew with what was stored, which is short enough to  *)
(* be stored as it is.                                                     *)
LEMMA ReopenKeepsMessages ==
    ASSUME ChatInv, MessagesInv, Chat!Reopen
    PROVE  MessagesInv' /\ (HistoryInv => HistoryInv')
<1>1. /\ visit' = visit + 1 /\ ended' = "done" /\ controller' = None /\ clicks' = clicks
      /\ messages' = Chat!Loaded.messages /\ thread' = Chat!Loaded.thread
      /\ stored' = IF stored # None /\ stored.expired THEN None ELSE stored
      /\ storing' = None
      /\ requests' = {IF r \in Chat!Mine THEN [r EXCEPT !.page = messages] ELSE r :
                          r \in requests}
  BY DEF Chat!Reopen
<1>2. stored \in {None} \cup ChatHistory /\ messages \in Chat!Seq(ChatMessage)
  BY DEF MessagesInv, Shown, PageState
<1>3. Threads' = Threads /\ PageState' = PageState /\ ChatHistory' = ChatHistory
  BY <1>1 DEF Threads, PageState, ChatHistory
<1>4. \A r : OfReader(r)' <=> OfReader(r)
  BY <1>1, <1>3 DEF OfReader
<1>5. ASSUME NEW r \in requests'
      PROVE  /\ OfReader(r) /\ r.page \in Chat!Seq(ChatMessage)
             /\ r.phase = "sent" => r.lines = 0
             /\ r.visit <= visit /\ r.visit \in Nat
             /\ \E q \in requests : r.script = q.script
  <2>1. PICK q \in requests : r = IF q \in Chat!Mine THEN [q EXCEPT !.page = messages] ELSE q
    BY <1>1
  <2>2. /\ IsRequest(q) /\ OfReader(q) /\ q.page \in Chat!Seq(ChatMessage)
        /\ q.phase = "sent" => q.lines = 0
        /\ q.visit <= visit
    BY DEF ChatInv, MessagesInv
  <2>3. /\ r.n = q.n /\ r.thread = q.thread /\ r.script = q.script /\ r.lines = q.lines
        /\ r.visit = q.visit /\ r.phase = q.phase /\ r.page \in {q.page, messages}
    BY <2>1, <2>2 DEF IsRequest
  <2>4. OfReader(r)
    BY <2>2, <2>3 DEF OfReader
  <2>5. QED
    BY <1>2, <2>2, <2>3, <2>4 DEF IsRequest
<1>6. Chat!Due' = stored'
  BY <1>1 DEF Chat!Due
<1>7. Chat!Mine' = {}
  <2>1. visit \in Nat
    BY DEF ChatInv
  <2>2. QED
    BY <1>1, <1>5, <2>1 DEF Chat!Mine
<1>8. /\ messages' \in Chat!Seq(ChatMessage) /\ thread' \in Threads
      /\ stored' \in {None} \cup ChatHistory
      /\ Kept(Shown')
  <2>1. CASE Chat!Usable(stored)
    <3>1. stored \in ChatHistory /\ stored # None /\ ~stored.expired
      BY <1>2, <2>1, Zenon DEF Chat!Usable
    <3>2. stored' = stored
      BY <1>1, <3>1
    <3>3. Chat!Loaded = [thread |-> stored.thread, messages |-> stored.messages]
      BY <2>1 DEF Chat!Loaded
    <3>4. /\ messages' = stored.messages /\ thread' = stored.thread
          /\ stored.messages \in Chat!Seq(ChatMessage) /\ stored.thread \in Threads
          /\ Chat!Len(stored.messages) <= MaxStored
      BY <1>1, <3>1, <3>3 DEF ChatHistory
    <3>5. Chat!History(stored.thread, stored.messages).messages = stored.messages
      BY <3>4, HistoryOf, ConsoleAssumption
    <3>6. LoadedFrom(stored) = [thread |-> stored.thread, messages |-> stored.messages]
      BY <2>1 DEF LoadedFrom
    <3>7. Kept(Shown')
      BY <1>6, <3>2, <3>4, <3>5, <3>6 DEF Kept, Shown
    <3>8. QED
      BY <3>1, <3>2, <3>4, <3>7
  <2>2. CASE ~Chat!Usable(stored)
    <3>1. Chat!Loaded = [thread |-> None, messages |-> <<>>]
      BY <2>2 DEF Chat!Loaded, Chat!NoHistory
    <3>2. messages' = <<>> /\ thread' = None /\ None \in Threads
      BY <1>1, <3>1 DEF Threads
    <3>3. ~Chat!Usable(None)
      BY Zenon DEF Chat!Usable
    <3>4. ~Chat!Usable(stored')
      BY <1>1, <2>2, <3>3
    <3>5. Kept(Shown')
      <4>1. /\ Shown'.messages = <<>> /\ Shown'.thread \in Threads
            /\ Shown'.stored = stored'
        BY <1>6, <3>2 DEF Shown
      <4>2. PICK s : s = Shown'
        OBVIOUS
      <4>3. ~Chat!Usable(s.stored)
        BY <3>4, <4>1, <4>2
      <4>4. QED
        BY <4>1, <4>2, <4>3, NothingKept
    <3>6. QED
      BY <1>1, <1>2, <3>2, <3>5
  <2>3. QED
    BY <2>1, <2>2
<1>9. Shown' \in PageState
  BY <1>1, <1>8, <1>6 DEF Shown, PageState, Endings
<1>10. MessagesInv'
  BY <1>1, <1>3, <1>4, <1>5, <1>7, <1>8, <1>9 DEF MessagesInv, Threads
<1>11. ASSUME HistoryInv
       PROVE  HistoryInv'
  <2>1. ~strayed' => ~strayed /\ Chat!Mine = {}
    BY Zenon DEF Chat!Reopen
  <2>2. ~strayed' => requests' = {}
    BY <1>1, <1>11, <2>1 DEF HistoryInv
  <2>3. \A r \in requests' : DoneEnds(r.script)
    BY <1>5, <1>11 DEF HistoryInv
  <2>4. QED
    BY <1>7, <1>8, <2>2, <2>3 DEF HistoryInv
<1>12. QED
  BY <1>10, <1>11

(* What is stored grows too old to be loaded.                              *)
LEMMA ExpireKeepsMessages ==
    ASSUME ChatInv, MessagesInv, Chat!Expire
    PROVE  MessagesInv' /\ (HistoryInv => HistoryInv')
<1>1. /\ stored # None /\ storing = None /\ requests = {} /\ stored' = [stored EXCEPT !.expired = TRUE]
      /\ UNCHANGED <<messages, thread, storing, controller, requests, visit, ended, strayed,
                     clicks>>
  BY DEF Chat!Expire
<1>2. stored \in ChatHistory
  BY <1>1 DEF MessagesInv
<1>3. stored' \in ChatHistory
  BY <1>1, <1>2 DEF ChatHistory
<1>4. stored'.expired
  <2>1. "expired" \in DOMAIN stored
    BY <1>2 DEF ChatHistory
  <2>2. QED
    BY <1>1, <2>1, Zenon
<1>5. Threads' = Threads /\ PageState' = PageState /\ ChatHistory' = ChatHistory
      /\ Chat!Mine' = Chat!Mine
  BY <1>1 DEF Threads, PageState, ChatHistory, Chat!Mine
<1>6. Shown' \in PageState
  BY <1>1, <1>3 DEF MessagesInv, Shown, PageState, Chat!Due
<1>7. MessagesInv'
  BY <1>1, <1>3, <1>5, <1>6 DEF MessagesInv, Chat!Mine
<1>8. stored' # None
  BY <1>3, HistoryIsSome, ConsoleAssumption DEF MessagesInv
<1>9. Kept(Shown')
  <2>1. Shown'.stored = stored'
    BY <1>1 DEF Shown, Chat!Due
  <2>2. QED
    BY <1>4, <1>8, <2>1, Zenon DEF Kept
<1>10. QED
  BY <1>1, <1>5, <1>7, <1>9 DEF HistoryInv

(* A request's answer begins: nothing of it was read yet.                  *)
LEMMA AnswerKeepsMessages ==
    ASSUME ChatInv, MessagesInv, ConsoleAssumption, NEW r \in requests, Chat!Answer(r)
    PROVE  /\ MessagesInv'
           /\ (\A script \in Scripts : DoneEnds(script)) /\ HistoryInv => HistoryInv'
<1>1. /\ r.phase = "sent" /\ ~r.aborted
      /\ UNCHANGED <<messages, thread, controller, stored, storing, visit, ended, strayed,
                     clicks>>
  BY Zenon DEF Chat!Answer
<1>2. PICK script \in Scripts :
          Chat!Become(r, [r EXCEPT !.phase = "open", !.script = script])
  BY Zenon DEF Chat!Answer
<1>3. PICK q : q = [r EXCEPT !.phase = "open", !.script = script]
  OBVIOUS
<1>4. requests' = (requests \ {r}) \cup {q}
  BY <1>2, <1>3 DEF Chat!Become
<1>5. /\ IsRequest(r) /\ OfReader(r) /\ r.page \in Chat!Seq(ChatMessage) /\ r.lines = 0
  BY <1>1 DEF ChatInv, MessagesInv
<1>6. /\ q.n = r.n /\ q.thread = r.thread /\ q.visit = r.visit /\ q.page = r.page
      /\ q.lines = 0 /\ q.script = script /\ q.phase = "open"
  BY <1>3, <1>5 DEF IsRequest
<1>7. script \in Chat!Seq(Chat!Events)
  BY <1>2 DEF ConsoleAssumption
<1>8. OfReader(q) /\ q.page \in Chat!Seq(ChatMessage)
  BY <1>5, <1>6, <1>7 DEF OfReader, Chat!Lines
<1>9. Threads' = Threads /\ PageState' = PageState /\ ChatHistory' = ChatHistory
      /\ Shown' = Shown
  BY <1>1 DEF Threads, PageState, ChatHistory, Shown, Chat!Due
<1>10. \A p : OfReader(p)' <=> OfReader(p)
  BY <1>1, <1>9 DEF OfReader
<1>11. Chat!Mine' = IF r \in Chat!Mine THEN (Chat!Mine \ {r}) \cup {q} ELSE Chat!Mine
  BY <1>1, <1>4, <1>6 DEF Chat!Mine
<1>12. \A p \in Chat!Mine' : StreamsUpTo(messages, p, p.lines)'
  BY <1>1, <1>5, <1>6, <1>11 DEF MessagesInv, StreamsUpTo
<1>13. MessagesInv'
  BY <1>1, <1>4, <1>6, <1>8, <1>9, <1>10, <1>12 DEF MessagesInv
<1>14. ASSUME HistoryInv, \A s \in Scripts : DoneEnds(s)
       PROVE  HistoryInv'
  <2>1. DoneEnds(q.script)
    BY <1>2, <1>6, <1>14
  <2>2. \A p \in requests' : DoneEnds(p.script)
    BY <1>4, <1>14, <2>1 DEF HistoryInv
  <2>3. ended = "done" => r \notin Chat!Mine
    BY <1>1, <1>14 DEF HistoryInv
  <2>4. ~strayed => requests' = Chat!Mine'
    BY <1>4, <1>11, <1>14 DEF HistoryInv
  <2>5. QED
    BY <1>1, <1>9, <1>11, <1>14, <2>2, <2>3, <2>4 DEF HistoryInv
<1>15. QED
  BY <1>13, <1>14

(* A request of this visit reads on: ReadKeeps is what becomes of the page.*)
LEMMA OwnReadKeepsMessages ==
    ASSUME ChatInv, MessagesInv, ConsoleAssumption, NEW r \in Chat!Mine, Chat!Read(r)
    PROVE  MessagesInv' /\ (HistoryInv => HistoryInv')
<1>1. /\ r.phase = "open" /\ r \in requests /\ r.visit = visit
      /\ UNCHANGED <<controller, visit, strayed, clicks>>
  BY Zenon DEF Chat!Read, Chat!Mine
<1>2. PICK upto \in r.lines + 1 .. Chat!Lines * Chat!Len(r.script) :
          /\ Chat!Become(r, [r EXCEPT !.lines = upto,
                                !.handled = @ + Chat!Cardinality(Chat!WholeEvents(r, upto))])
          /\ IF r.visit = visit
             THEN LET s == Chat!AfterRead(r, upto)
                  IN  /\ messages' = s.messages /\ thread' = s.thread
                      /\ ended' = s.ended
                      /\ \/ stored' = s.stored /\ storing' = None
                         \/ /\ storing # None \/ Chat!Completes(r, upto)
                            /\ s.stored # None
                            /\ storing' = s.stored /\ UNCHANGED stored
             ELSE /\ stored' \in Chat!StrayStored(r, upto)
                  /\ UNCHANGED <<messages, thread, storing, ended>>
  BY Zenon DEF Chat!Read
<1>3. PICK q : q = [r EXCEPT !.lines = upto,
                        !.handled = @ + Chat!Cardinality(Chat!WholeEvents(r, upto))]
  OBVIOUS
<1>4. requests' = (requests \ {r}) \cup {q}
  BY <1>2, <1>3 DEF Chat!Become
<1>5. /\ IsRequest(r) /\ OfReader(r) /\ r.page \in Chat!Seq(ChatMessage)
      /\ StreamsUpTo(messages, r, r.lines) /\ clicks \in Nat /\ Shown \in PageState
  BY <1>1 DEF ChatInv, MessagesInv
<1>6. /\ q.n = r.n /\ q.thread = r.thread /\ q.visit = r.visit /\ q.page = r.page
      /\ q.lines = upto /\ q.script = r.script /\ q.phase = "open"
  BY <1>1, <1>3, <1>5 DEF IsRequest
<1>7. PICK t : t = Chat!AfterRead(r, upto)
  OBVIOUS
<1>8. /\ messages' = t.messages /\ thread' = t.thread /\ ended' = t.ended
      /\ \/ stored' = t.stored /\ storing' = None
         \/ t.stored # None /\ storing' = t.stored /\ UNCHANGED stored
  BY <1>1, <1>2, <1>7
<1>9. /\ t \in PageState
      /\ StreamsUpTo(t.messages, r, upto)
      /\ ended # "done" /\ DoneEnds(r.script) =>
             Kept(t) /\ (t.ended = "done" => upto = Chat!Lines * Chat!Len(r.script))
  BY <1>2, <1>5, <1>7, ReadKeeps
<1>10. Shown' = t
  BY <1>8, <1>9 DEF Shown, PageState, Chat!Due
<1>11. Threads' = Threads /\ PageState' = PageState /\ ChatHistory' = ChatHistory
  BY <1>1 DEF Threads, PageState, ChatHistory
<1>12. OfReader(q) /\ \A p : OfReader(p)' <=> OfReader(p)
  <2>1. upto \in 0 .. Chat!Lines * Chat!Len(r.script)
    BY <1>2, <1>5 DEF OfReader, Chat!Lines
  <2>2. QED
    BY <1>1, <1>5, <1>6, <1>11, <2>1 DEF OfReader
<1>13. Chat!Mine' = {q}
  <2>1. \A p \in Chat!Mine : p = r
    BY DEF ChatInv
  <2>2. QED
    BY <1>1, <1>4, <1>6, <2>1 DEF Chat!Mine
<1>14. StreamsUpTo(messages', q, q.lines)
  BY <1>6, <1>8, <1>9 DEF StreamsUpTo
<1>15. MessagesInv'
  <2>1. \A p \in requests' :
            /\ OfReader(p)' /\ p.page \in Chat!Seq(ChatMessage)
            /\ p.phase = "sent" => p.lines = 0
    BY <1>4, <1>5, <1>6, <1>12 DEF MessagesInv
  <2>2. \A p \in Chat!Mine' : StreamsUpTo(messages, p, p.lines)'
    BY <1>13, <1>14
  <2>3. {stored', storing'} \subseteq {None} \cup ChatHistory
    BY <1>8, <1>9 DEF MessagesInv, PageState
  <2>4. QED
    BY <1>1, <1>9, <1>10, <1>11, <2>1, <2>2, <2>3 DEF MessagesInv
<1>16. ASSUME HistoryInv
       PROVE  HistoryInv'
  <2>1. ended # "done"
    <3>1. ended = "done" => r.lines = Chat!Lines * Chat!Len(r.script)
      BY <1>16 DEF HistoryInv
    <3>2. r.lines # Chat!Lines * Chat!Len(r.script)
      BY <1>2, <1>5 DEF OfReader, Chat!Lines
    <3>3. QED
      BY <3>1, <3>2
  <2>2. DoneEnds(r.script) /\ \A p \in requests' : DoneEnds(p.script)
    BY <1>1, <1>4, <1>6, <1>16 DEF HistoryInv
  <2>3. Kept(t) /\ (t.ended = "done" => upto = Chat!Lines * Chat!Len(r.script))
    BY <1>9, <2>1, <2>2
  <2>4. ~strayed => requests' = Chat!Mine'
    <3>1. ~strayed => requests = Chat!Mine
      BY <1>16 DEF HistoryInv
    <3>2. \A p \in Chat!Mine : p = r
      BY DEF ChatInv
    <3>3. QED
      BY <1>4, <1>13, <3>1, <3>2
  <2>5. QED
    BY <1>1, <1>6, <1>8, <1>10, <1>13, <2>2, <2>3, <2>4 DEF HistoryInv
<1>17. QED
  BY <1>15, <1>16

(* A request of an old visit reads on: at most it stores the list its page *)
(* had.                                                                    *)
LEMMA StrayReadKeepsMessages ==
    ASSUME ChatInv, MessagesInv, ConsoleAssumption,
           NEW r \in requests, r \notin Chat!Mine, Chat!Read(r)
    PROVE  MessagesInv' /\ (HistoryInv => HistoryInv')
<1>1. /\ r.phase = "open" /\ r.visit # visit
      /\ UNCHANGED <<controller, visit, strayed, clicks>>
  BY Zenon DEF Chat!Read, Chat!Mine
<1>2. PICK upto \in r.lines + 1 .. Chat!Lines * Chat!Len(r.script) :
          /\ Chat!Become(r, [r EXCEPT !.lines = upto,
                                !.handled = @ + Chat!Cardinality(Chat!WholeEvents(r, upto))])
          /\ IF r.visit = visit
             THEN LET s == Chat!AfterRead(r, upto)
                  IN  /\ messages' = s.messages /\ thread' = s.thread
                      /\ ended' = s.ended
                      /\ \/ stored' = s.stored /\ storing' = None
                         \/ /\ storing # None \/ Chat!Completes(r, upto)
                            /\ s.stored # None
                            /\ storing' = s.stored /\ UNCHANGED stored
             ELSE /\ stored' \in Chat!StrayStored(r, upto)
                  /\ UNCHANGED <<messages, thread, storing, ended>>
  BY Zenon DEF Chat!Read
<1>3. PICK q : q = [r EXCEPT !.lines = upto,
                        !.handled = @ + Chat!Cardinality(Chat!WholeEvents(r, upto))]
  OBVIOUS
<1>4. requests' = (requests \ {r}) \cup {q}
  BY <1>2, <1>3 DEF Chat!Become
<1>5. /\ IsRequest(r) /\ OfReader(r) /\ r.page \in Chat!Seq(ChatMessage)
  BY <1>1 DEF ChatInv, MessagesInv
<1>6. /\ q.n = r.n /\ q.thread = r.thread /\ q.visit = r.visit /\ q.page = r.page
      /\ q.lines = upto /\ q.script = r.script /\ q.phase = "open"
  BY <1>1, <1>3, <1>5 DEF IsRequest
<1>7. UNCHANGED <<messages, thread, storing, ended>> /\ stored' \in Chat!StrayStored(r, upto)
  BY <1>1, <1>2
<1>8. stored' \in {None} \cup ChatHistory
  <2>1. PICK said \in Chat!Seq(ChatMessage) : said = Chat!Finished(r.page)
    BY <1>5, FinishedList
  <2>2. Chat!AnswerThread(r) \in Threads
    BY <1>5 DEF OfReader, Chat!AnswerThread, Threads
  <2>3. Chat!History(Chat!AnswerThread(r), said) \in ChatHistory
    BY <2>2, HistoryOf
  <2>4. stored' = stored \/ stored' = Chat!History(Chat!AnswerThread(r), said)
    BY <1>7, <2>1 DEF Chat!StrayStored
  <2>5. QED
    BY <2>3, <2>4 DEF MessagesInv
<1>9. Threads' = Threads /\ PageState' = PageState /\ ChatHistory' = ChatHistory
  BY <1>1 DEF Threads, PageState, ChatHistory
<1>10. Shown' \in PageState
  BY <1>7, <1>8 DEF MessagesInv, Shown, PageState, Chat!Due
<1>11. OfReader(q) /\ \A p : OfReader(p)' <=> OfReader(p)
  <2>1. upto \in 0 .. Chat!Lines * Chat!Len(r.script)
    BY <1>2, <1>5 DEF OfReader, Chat!Lines
  <2>2. QED
    BY <1>1, <1>5, <1>6, <1>9, <2>1 DEF OfReader
<1>12. Chat!Mine' = Chat!Mine
  BY <1>1, <1>4, <1>6 DEF Chat!Mine
<1>13. MessagesInv'
  <2>1. \A p \in requests' :
            /\ OfReader(p)' /\ p.page \in Chat!Seq(ChatMessage)
            /\ p.phase = "sent" => p.lines = 0
    BY <1>4, <1>5, <1>6, <1>11 DEF MessagesInv
  <2>2. \A p \in Chat!Mine' : StreamsUpTo(messages, p, p.lines)'
    BY <1>7, <1>12 DEF MessagesInv
  <2>3. QED
    BY <1>1, <1>7, <1>8, <1>9, <1>10, <2>1, <2>2 DEF MessagesInv
<1>14. ASSUME HistoryInv
       PROVE  HistoryInv'
  <2>1. strayed
    BY <1>14, Zenon DEF HistoryInv
  <2>2. strayed'
    BY <1>1, <2>1, Zenon
  <2>3. \A p \in requests' : DoneEnds(p.script)
    BY <1>4, <1>6, <1>14 DEF HistoryInv
  <2>4. QED
    BY <1>7, <1>12, <1>14, <2>2, <2>3 DEF HistoryInv
<1>15. QED
  BY <1>13, <1>14

(* A request ends: what the page shows stays.                              *)
LEMMA EndKeepsMessages ==
    ASSUME ChatInv, MessagesInv, NEW r \in requests, Chat!End(r)
    PROVE  MessagesInv' /\ (HistoryInv => HistoryInv')
<1>1. /\ requests' = requests \ {r}
      /\ UNCHANGED <<messages, thread, stored, storing, visit, ended, strayed, clicks>>
  BY Zenon DEF Chat!End, Chat!Finish
<1>2. controller' \in {controller, None}
  BY DEF Chat!End, Chat!Finish
<1>3. Threads' = Threads /\ PageState' = PageState /\ ChatHistory' = ChatHistory
      /\ Shown' = Shown
  BY <1>1 DEF Threads, PageState, ChatHistory, Shown, Chat!Due
<1>4. \A p : OfReader(p)' <=> OfReader(p)
  BY <1>1, <1>3 DEF OfReader
<1>5. Chat!Mine' = Chat!Mine \ {r}
  BY <1>1 DEF Chat!Mine
<1>6. controller' \in Threads
  BY <1>2 DEF MessagesInv, Threads
<1>7. MessagesInv'
  BY <1>1, <1>3, <1>4, <1>5, <1>6 DEF MessagesInv
<1>8. ASSUME HistoryInv
      PROVE  HistoryInv'
  BY <1>1, <1>3, <1>5, <1>8 DEF HistoryInv
<1>9. QED
  BY <1>7, <1>8

(* A request fails: its page tells so, in a message that does not stream.  *)
LEMMA BreakKeepsMessages ==
    ASSUME ChatInv, MessagesInv, NEW r \in requests, Chat!Break(r)
    PROVE  MessagesInv' /\ (HistoryInv => HistoryInv')
<1>1. /\ requests' = requests \ {r}
      /\ UNCHANGED <<thread, stored, storing, visit, strayed, clicks>>
  BY Zenon DEF Chat!Break, Chat!Finish
<1>2. controller' \in {controller, None}
  BY DEF Chat!Break, Chat!Finish
<1>3. Threads' = Threads /\ PageState' = PageState /\ ChatHistory' = ChatHistory
  BY <1>1 DEF Threads, PageState, ChatHistory
<1>4. \A p : OfReader(p)' <=> OfReader(p)
  BY <1>1, <1>3 DEF OfReader
<1>5. Chat!Mine' = Chat!Mine \ {r}
  BY <1>1 DEF Chat!Mine
<1>6. controller' \in Threads
  BY <1>2 DEF MessagesInv, Threads
<1>7. messages \in Chat!Seq(ChatMessage) /\ r.n \in Nat
  BY DEF MessagesInv, Shown, PageState, OfReader
<1>8. CASE r.visit = visit
  <2>1. messages' = Chat!Append(messages, Chat!Message("error", r.n)) /\ ended' = "error"
    BY <1>8 DEF Chat!Break
  <2>2. messages' \in Chat!Seq(ChatMessage) /\ ~Chat!Streaming(messages')
    BY <1>7, <2>1, OtherAppended DEF Chat!Roles
  <2>3. Shown' \in PageState
    BY <1>1, <2>1, <2>2 DEF MessagesInv, Shown, PageState, Endings, Chat!Due
  <2>4. MessagesInv'
    BY <1>1, <1>3, <1>4, <1>6, <2>2, <2>3 DEF MessagesInv, StreamsUpTo
  <2>5. Kept(Shown')
    BY <2>1 DEF Kept, Shown
  <2>6. QED
    BY <1>1, <1>5, <2>1, <2>4, <2>5 DEF HistoryInv
<1>9. CASE r.visit # visit
  <2>1. UNCHANGED <<messages, ended>>
    BY <1>9 DEF Chat!Break
  <2>2. Shown' = Shown
    BY <1>1, <2>1 DEF Shown, Chat!Due
  <2>3. MessagesInv'
    BY <1>1, <1>3, <1>4, <1>5, <1>6, <2>1, <2>2 DEF MessagesInv
  <2>4. QED
    BY <1>1, <1>5, <2>1, <2>2, <2>3 DEF HistoryInv
<1>10. QED
  BY <1>8, <1>9

(* React renders: what was due is stored, and the page shows what it did.  *)
LEMMA RenderKeepsMessages ==
    ASSUME ChatInv, MessagesInv, Chat!Render
    PROVE  MessagesInv' /\ (HistoryInv => HistoryInv')
<1>1. /\ storing # None /\ stored' = storing /\ storing' = None
      /\ UNCHANGED <<messages, thread, controller, requests, visit, ended, strayed, clicks>>
  BY DEF Chat!Render
<1>2. Threads' = Threads /\ PageState' = PageState /\ ChatHistory' = ChatHistory
      /\ Shown' = Shown /\ Chat!Mine' = Chat!Mine
  BY <1>1 DEF Threads, PageState, ChatHistory, Shown, Chat!Due, Chat!Mine
<1>3. \A p : OfReader(p)' <=> OfReader(p)
  BY <1>1, <1>2 DEF OfReader
<1>4. QED
  BY <1>1, <1>2, <1>3 DEF MessagesInv, HistoryInv

LEMMA MessagesKept ==
    ASSUME ChatInv, MessagesInv, [Chat!Next]_(Chat!vars)
    PROVE  /\ MessagesInv'
           /\ (\A script \in Scripts : DoneEnds(script)) /\ HistoryInv => HistoryInv'
<1>1. CASE Chat!User
  BY <1>1, SendKeepsMessages, ClearKeepsMessages, ReopenKeepsMessages, ExpireKeepsMessages
     DEF Chat!User
<1>2. ASSUME NEW r \in requests, Chat!Read(r)
      PROVE  MessagesInv' /\ (HistoryInv => HistoryInv')
  <2>1. CASE r \in Chat!Mine
    BY <1>2, <2>1, OwnReadKeepsMessages, ConsoleAssumption
  <2>2. CASE r \notin Chat!Mine
    BY <1>2, <2>2, StrayReadKeepsMessages, ConsoleAssumption
  <2>3. QED
    BY <2>1, <2>2
<1>3. CASE Chat!Serve
  BY <1>2, <1>3, AnswerKeepsMessages, EndKeepsMessages, RenderKeepsMessages,
     ConsoleAssumption DEF Chat!Serve
<1>4. CASE \E r \in requests : Chat!Break(r)
  BY <1>4, BreakKeepsMessages
<1>5. CASE UNCHANGED Chat!vars
  <2>1. UNCHANGED <<messages, thread, controller, stored, storing, requests, visit,
                    ended, strayed, clicks>>
    BY <1>5 DEF Chat!vars
  <2>2. /\ Threads' = Threads /\ PageState' = PageState /\ ChatHistory' = ChatHistory
        /\ Shown' = Shown /\ Chat!Mine' = Chat!Mine
    BY <2>1 DEF Threads, PageState, ChatHistory, Shown, Chat!Due, Chat!Mine
  <2>3. \A p : OfReader(p)' <=> OfReader(p)
    BY <2>1, <2>2 DEF OfReader
  <2>4. QED
    BY <2>1, <2>2, <2>3 DEF MessagesInv, HistoryInv
<1>6. QED
  BY <1>1, <1>3, <1>4, <1>5 DEF Chat!Next

LEMMA ChatKeepsItsMessages == Spec => [](open = "chat" => ChatInv /\ MessagesInv)
<1> DEFINE Inv == open = "chat" => ChatInv /\ MessagesInv
<1>1. Init => Inv
  BY ChatSession, ChatBegins, MessagesBegin
<1>2. Inv /\ [Next]_vars => Inv'
  BY OpenStays, ChatSession, ChatKept, MessagesKept
<1>3. QED
  BY <1>1, <1>2, PTL DEF Spec

(* However reads cut the stream of an answer, and whatever is sent,        *)
(* cleared, aborted or left in between: what streams in is appended to the *)
(* assistant's message of its own request, each part once and in order.    *)
THEOREM AnswersComeInOrder == Spec => []AnswersStayApart
<1>1. ASSUME open = "chat" => ChatInv /\ MessagesInv
      PROVE  AnswersStayApart
  <2>1. ASSUME open = "chat", NEW i \in DOMAIN messages
        PROVE  IsApart(messages[i])
    <3>1. messages \in Chat!Seq(ChatMessage)
      BY <1>1, <2>1 DEF MessagesInv, Shown, PageState
    <3>2. messages[i] \in ChatMessage
      BY <2>1, <3>1
    <3>3. QED
      BY <3>2 DEF ChatMessage
  <2>2. QED
    BY <2>1 DEF AnswersStayApart, Chat!AnswersStayApart, IsApart
<1>2. QED
  BY <1>1, ChatKeepsItsMessages, PTL

(* If "done" is the last event of an answer, as its name says, then when   *)
(* the last answer was complete the browser's storage has the messages and *)
(* the thread that are shown, up to the number that is kept, as soon as no *)
(* update waits to run; unless they are too old, a request outlived its    *)
(* visit or the history was cleared while such an update was waiting.      *)
THEOREM CompleteAnswersAreStored ==
    ASSUME \A script \in Scripts : DoneEnds(script)
    PROVE  Spec => []HistoryIsKept
<1> DEFINE Inv == open = "chat" => ChatInv /\ MessagesInv /\ HistoryInv
<1>1. Init => Inv
  BY ChatSession, ChatBegins, MessagesBegin
<1>2. Inv /\ [Next]_vars => Inv'
  BY OpenStays, ChatSession, ChatKept, MessagesKept
<1>3. Inv => HistoryIsKept
  <2>1. ASSUME HistoryInv PROVE Chat!HistoryIsKept
    <3>1. /\ Shown.messages = messages /\ Shown.thread = thread
          /\ storing = None => Shown.stored = stored
          /\ Shown.ended = ended
      BY DEF Shown, Chat!Due
    <3>2. LoadedFrom(stored) = Chat!Loaded
      BY DEF LoadedFrom, Chat!Loaded
    <3>3. ~strayed => Kept(Shown)
      BY <2>1, Zenon DEF HistoryInv
    <3>4. storing = None /\ Kept(Shown) /\ ended = "done" /\ (stored # None => ~stored.expired) =>
              /\ Chat!Loaded.messages = Chat!History(thread, messages).messages
              /\ messages # <<>> => Chat!Loaded.thread = thread
      BY <3>1, <3>2, Zenon DEF Kept
    <3>5. QED
      BY <3>3, <3>4, Zenon DEF Chat!HistoryIsKept
  <2>2. QED
    BY <2>1 DEF HistoryIsKept
<1>4. QED
  BY <1>1, <1>2, <1>3, PTL DEF Spec
=============================================================================
