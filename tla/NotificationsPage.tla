-------------------------- MODULE NotificationsPage --------------------------
(***************************************************************************)
(* The console's page of notification settings: it loads the settings once *)
(* when it opens, edits a copy, and saves the whole copy; each channel's   *)
(* webhook can be tested meanwhile.  The server changes its configuration  *)
(* in place, marshals it and then writes the file, which may fail; nothing *)
(* keeps two saves apart.                                                  *)
(***************************************************************************)
EXTENDS NotifierForms, Naturals, FiniteSets

CONSTANTS
    None,           \* nothing
    InitSettings,   \* the settings the server may start with
    Habits,         \* the users: some wait for the page, some hurry
    MaxClicks,      \* cap on the calls the user makes
    MaxEvents,      \* cap on calls, failures and visits together
    MaxVisits       \* cap on the times the page is opened

VARIABLES
    memory,         \* the server's settings
    file,           \* the settings in its file
    raced,          \* they were changed while an image of them was being written
    form,           \* config: the page's copy, or None
    loading, saving,
    testing,        \* the channel whose button spins, or None
    calls,          \* the calls in flight
    visit,          \* how many times the page was opened
    clicks, troubles,
    habit

server == <<memory, file, raced>>
page == <<form, loading, saving, testing>>
bounds == <<clicks, troubles, habit>>
vars == <<server, page, calls, visit, bounds>>

Quiet == calls = {}
MayAct == habit = "waits" => Quiet
Spare == clicks + troubles < MaxEvents

Call(op) == [n |-> clicks, op |-> op, visit |-> visit, channel |-> None,
             config |-> None, typed |-> {}, phase |-> "sent"]

Calls(op) == {c \in calls : c.op = op /\ c.visit = visit}

-----------------------------------------------------------------------------
(* The user. *)

(* The page opens, and what an earlier visit asked for goes on unheard.    *)
LoadConfig ==
    /\ MayAct /\ Spare
    /\ visit < MaxVisits
    /\ visit' = visit + 1
    /\ form' = None /\ loading' = TRUE
    /\ saving' = FALSE /\ testing' = None
    /\ calls' = calls \cup {[Call("load") EXCEPT !.visit = visit']}
    /\ UNCHANGED server /\ UNCHANGED bounds

Click(c) ==
    /\ clicks < MaxClicks /\ Spare
    /\ clicks' = clicks + 1
    /\ calls' = calls \cup {[c EXCEPT !.n = clicks']}
    /\ UNCHANGED <<visit, troubles, habit>> /\ UNCHANGED server

(* The copy with the change, if any, that the user makes before he clicks. *)
Typed ==
    {[config |-> form, typed |-> {}]} \cup
        {[config |-> [form EXCEPT ![e.field] = e.value], typed |-> {e.field}] :
             e \in Edits(form)}

(* Faulty: the button works while a save is running. *)
CanSaveAlways == form # None

CanSave == form # None /\ ~saving

SaveConfig ==
    /\ MayAct /\ CanSave
    /\ \E t \in Typed :
           /\ form' = t.config
           /\ Click([Call("save") EXCEPT !.config = t.config, !.typed = t.typed])
    /\ saving' = TRUE
    /\ UNCHANGED <<loading, testing>>

(* One flag for three buttons: it stands for the test started last.        *)
TestWebhook(channel) ==
    /\ MayAct
    /\ form # None /\ form.enabled /\ form[channel].enabled
    /\ form[channel].webhook # "" /\ testing # channel
    /\ Click([Call("test") EXCEPT !.channel = channel])
    /\ testing' = channel
    /\ UNCHANGED <<form, loading, saving>>

-----------------------------------------------------------------------------
(* The server. *)

Update(c, d) == calls' = (calls \ {c}) \cup {d}

(* Faulty: a notifier that is off is returned as an empty one. *)
ReturnedIfOn(settings) == IF settings.enabled THEN settings ELSE Empty

(* A notifier that is off and has no channel is returned as an empty one.  *)
Returned(settings) ==
    IF ~settings.enabled /\ settings.wechat = NoWeChat
           /\ settings.dingtalk = NoDingTalk /\ settings.feishu = NoFeishu
    THEN Empty ELSE settings

HandleGetNotifierConfig(c) ==
    /\ c.op = "load" /\ c.phase = "sent"
    /\ Update(c, [c EXCEPT !.phase = "ok", !.config = Returned(memory)])
    /\ UNCHANGED visit /\ UNCHANGED server /\ UNCHANGED page /\ UNCHANGED bounds

SetNotifierConfig(c) ==
    /\ c.op = "save" /\ c.phase = "sent"
    /\ memory' = c.config
    /\ raced' = (raced \/ \E d \in calls : d.phase = "marshalled")
    /\ Update(c, [c EXCEPT !.phase = "set"])
    /\ UNCHANGED <<file, visit>> /\ UNCHANGED page /\ UNCHANGED bounds

(* Faulty: the image is that of the settings which this call brought. *)
MarshalOwn(c) ==
    /\ c.op = "save" /\ c.phase = "set"
    /\ Update(c, [c EXCEPT !.phase = "marshalled"])
    /\ UNCHANGED visit /\ UNCHANGED server /\ UNCHANGED page /\ UNCHANGED bounds

(* The image is that of the settings which are current by then; one that a *)
(* change cuts into counts as taken before the change.                     *)
Marshal(c) ==
    /\ c.op = "save" /\ c.phase = "set"
    /\ Update(c, [c EXCEPT !.phase = "marshalled", !.config = memory])
    /\ UNCHANGED visit /\ UNCHANGED server /\ UNCHANGED page /\ UNCHANGED bounds

WriteFile(c) ==
    /\ c.op = "save" /\ c.phase = "marshalled"
    /\ file' = c.config
    /\ Update(c, [c EXCEPT !.phase = "ok"])
    /\ UNCHANGED <<memory, raced, visit>> /\ UNCHANGED page /\ UNCHANGED bounds

(* No message is sent: the test always succeeds.                           *)
TestNotifierWebhook(c) ==
    /\ c.op = "test" /\ c.phase = "sent"
    /\ Update(c, [c EXCEPT !.phase = "ok"])
    /\ UNCHANGED visit /\ UNCHANGED server /\ UNCHANGED page /\ UNCHANGED bounds

(* A request is lost, or the file cannot be written.                       *)
Fail(c) ==
    /\ Spare
    /\ c.phase \in {"sent", "set", "marshalled"}
    /\ troubles' = troubles + 1
    /\ Update(c, [c EXCEPT !.phase = "failed"])
    /\ UNCHANGED <<visit, clicks, habit>> /\ UNCHANGED server /\ UNCHANGED page

-----------------------------------------------------------------------------
(* The answers. *)

LoadAnswered(c) ==
    /\ c.op = "load"
    /\ form' = IF c.phase = "ok" THEN c.config ELSE form
    /\ loading' = FALSE
    /\ UNCHANGED <<saving, testing>>

(* The copy stays as the user has it by then.                              *)
SaveAnswered(c) ==
    /\ c.op = "save"
    /\ saving' = FALSE
    /\ UNCHANGED <<form, loading, testing>>

(* Faulty: a test that fails leaves the button spinning. *)
TestAnsweredForgetful(c) ==
    /\ c.op = "test"
    /\ testing' = IF c.phase = "ok" THEN None ELSE testing
    /\ UNCHANGED <<form, loading, saving>>

TestAnswered(c) ==
    /\ c.op = "test"
    /\ testing' = None
    /\ UNCHANGED <<form, loading, saving>>

Deliver(c) ==
    /\ c.phase \in {"ok", "failed"}
    /\ calls' = calls \ {c}
    /\ IF c.visit # visit THEN UNCHANGED page
       ELSE LoadAnswered(c) \/ SaveAnswered(c) \/ TestAnswered(c)
    /\ UNCHANGED visit /\ UNCHANGED server /\ UNCHANGED bounds

-----------------------------------------------------------------------------
Init ==
    /\ memory \in InitSettings /\ file = memory /\ raced = FALSE
    /\ form = None /\ loading = TRUE
    /\ saving = FALSE /\ testing = None
    /\ visit = 1 /\ clicks = 0 /\ troubles = 0
    /\ calls = {[n |-> 0, op |-> "load", visit |-> 1, channel |-> None,
                 config |-> None, typed |-> {}, phase |-> "sent"]}
    /\ habit \in Habits

User == LoadConfig \/ SaveConfig \/ \E channel \in Channels : TestWebhook(channel)

Serve ==
    \E c \in calls :
        \/ HandleGetNotifierConfig(c) \/ SetNotifierConfig(c) \/ Marshal(c)
        \/ WriteFile(c) \/ TestNotifierWebhook(c) \/ Deliver(c)

Next == User \/ Serve \/ \E c \in calls : Fail(c)

Spec == Init /\ [][Next]_vars

-----------------------------------------------------------------------------
TypeOK ==
    /\ \A s \in {memory, file, form} \ {None} : DOMAIN s = Fields
    /\ loading \in BOOLEAN /\ saving \in BOOLEAN
    /\ testing \in Channels \cup {None}
    /\ \A c \in calls : c.phase \in {"sent", "set", "marshalled", "ok", "failed"}
    /\ raced \in BOOLEAN

(* What the page shows of its calls is so: it is saving just as long as a  *)
(* save of this visit runs, of which there is one at most, and a button    *)
(* that spins has a test running.                                          *)
PageShowsItsCalls ==
    /\ Cardinality(Calls("save")) = IF saving THEN 1 ELSE 0
    /\ loading <=> Calls("load") # {}
    /\ testing # None => \E c \in Calls("test") : c.channel = testing

(* Once the saves are answered and none failed, the file is what the       *)
(* server has, in whatever order the steps of several visits' saves come,  *)
(* unless one of them changed the settings while an older image of them    *)
(* was on its way to the file.                                             *)
FileIsCurrent == calls = {} /\ troubles = 0 /\ ~raced => file = memory

(* A save of a user who waits changes just the settings he changed.        *)
SaveIsExact ==
    habit = "waits" /\ troubles = 0 =>
        \A c \in calls : c.op = "save" /\ c.phase = "sent" /\ c \notin calls' =>
            \A f \in Fields \ c.typed : memory'[f] = memory[f]

(* Every call is answered, and nothing goes on spinning.                   *)
Settled == Quiet /\ ~loading /\ ~saving /\ testing = None
=============================================================================
