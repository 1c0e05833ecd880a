----------------------------- MODULE RoutesPage -----------------------------
(***************************************************************************)
(* The console's page of notification channels and alert routes, and the   *)
(* server's store of both.  The page loads the two lists by two requests   *)
(* and shows them when both are answered; it loads anew after each change, *)
(* and of several loads that run, the last to arrive is shown.             *)
(***************************************************************************)
EXTENDS RouteForms, Naturals, Functions

CONSTANTS
    None,           \* nothing
    ChannelIds, RouteIds,
    InitChannels,   \* id -> channel, at the start
    InitRoutes,     \* id -> route, at the start
    Habits,         \* the users: whether they wait for the page, and the
                    \* fields they type into
    MaxClicks,      \* cap on the calls the user makes
    MaxEvents       \* cap on calls, failures and changes by others

VARIABLES
    channels,       \* the server: id -> channel
    routes,         \* the server: id -> route
    generated,      \* the server: the ids it made of the time
    shown,          \* the page: both lists, and the number of their load
    loads,          \* the page: the loads that run
    loaded,         \* the page: how many loads were started
    loading,        \* the page: shows nothing but that it loads
    dialog,         \* the page: the editor that is open, or None
    calls,          \* the calls in flight
    clicks, troubles,
    habit

server == <<channels, routes, generated>>
view == <<shown, loads, loaded, loading>>
bounds == <<clicks, troubles, habit>>
vars == <<channels, routes, generated, shown, loads, loaded, loading, dialog,
          calls, clicks, troubles, habit>>

Tabs == {"channels", "routes"}
ItemIds == ChannelIds \cup RouteIds

Quiet == calls = {} /\ loads = {}
MayAct == ~loading /\ (habit.waits => Quiet)

-----------------------------------------------------------------------------
(* loadData *)

NewLoad == [n |-> loaded + 1, channels |-> None, routes |-> None]

LoadData ==
    /\ loaded' = loaded + 1
    /\ loads' = loads \cup {NewLoad}

(* Each of the two requests reads its own moment of the server.            *)
AnswerLoad(l) ==
    /\ \/ l.channels = None /\ loads' = (loads \ {l}) \cup {[l EXCEPT !.channels = channels]}
       \/ l.routes = None /\ loads' = (loads \ {l}) \cup {[l EXCEPT !.routes = routes]}
    /\ UNCHANGED <<shown, loaded, loading, dialog, calls>>
    /\ UNCHANGED server /\ UNCHANGED bounds

ArriveLoad(l) ==
    /\ l.channels # None /\ l.routes # None
    /\ loads' = loads \ {l}
    /\ shown' = [channels |-> l.channels, routes |-> l.routes, load |-> l.n]
    /\ loading' = FALSE
    /\ UNCHANGED <<loaded, dialog, calls>> /\ UNCHANGED server /\ UNCHANGED bounds

(* One of the requests fails: a toast, and what was shown stays.           *)
FailLoad(l) ==
    /\ clicks + troubles < MaxEvents
    /\ troubles' = troubles + 1
    /\ loads' = loads \ {l}
    /\ loading' = FALSE
    /\ UNCHANGED <<shown, loaded, dialog, calls, clicks, habit>> /\ UNCHANGED server

-----------------------------------------------------------------------------
(* The user.  An open dialog covers the page. *)

Look == UNCHANGED <<calls, clicks, troubles, habit>> /\ UNCHANGED view /\ UNCHANGED server

(* Faulty: the dialog has only the fields it shows controls for. *)
DialogOfControls(tab, id, item) ==
    [tab |-> tab, id |-> id, typed |-> {},
     item |-> IF tab = "routes" THEN [item EXCEPT !.matches = ""] ELSE item]

Dialog(tab, id, item) == [tab |-> tab, id |-> id, item |-> item, typed |-> {}]

OpenDialog(d) == dialog = None /\ dialog' = d /\ Look

EditItem(tab, id) ==
    /\ MayAct
    /\ id \in DOMAIN shown[tab]
    /\ OpenDialog(Dialog(tab, id, shown[tab][id]))

AddChannel == MayAct /\ OpenDialog(Dialog("channels", None, NewChannel))
AddRoute == MayAct /\ OpenDialog(Dialog("routes", None, NewRoute))

Cancel == MayAct /\ dialog # None /\ dialog' = None /\ Look

Click(c) ==
    /\ clicks < MaxClicks /\ clicks + troubles < MaxEvents
    /\ clicks' = clicks + 1
    /\ calls' = calls \cup {c}
    /\ UNCHANGED <<troubles, habit>> /\ UNCHANGED view /\ UNCHANGED server

Call(op, tab, id) == [n |-> clicks + 1, op |-> op, tab |-> tab, id |-> id,
                      item |-> None, typed |-> {}, checked |-> {}, phase |-> "sent"]

ChannelEditDialog(d) ==
    {e \in ChannelEdits(d.item) : ChannelComplete([d.item EXCEPT ![e.field] = e.value])}
RouteEditDialog(d) ==
    {e \in RouteEdits(d.item, DOMAIN shown.channels) :
         RouteComplete([d.item EXCEPT ![e.field] = e.value])}

(* A new item needs a name (and a channel a webhook); an old one has them. *)
Filled(d) ==
    IF d.id # None THEN d.item
    ELSE IF d.tab = "channels"
         THEN [d.item EXCEPT !.name = "new", !.webhooks[d.item.type] = "new"]
         ELSE [d.item EXCEPT !.name = "new"]

(* The dialog with the change, if any, that the user makes before he saves.*)
Typed ==
    LET d == [dialog EXCEPT !.item = Filled(dialog)]
    IN  {d} \cup {[d EXCEPT !.item[e.field] = e.value, !.typed = @ \cup {e.field}] :
                      e \in {x \in IF d.tab = "channels" THEN ChannelEditDialog(d)
                                    ELSE RouteEditDialog(d) : x.field \in habit.types}}

(* An item the page shows is updated, any other is created, with the id    *)
(* that it has.  The button stays enabled until the answer.                *)
SaveCall(d) ==
    [Call(IF d.id \in DOMAIN shown[d.tab] THEN "update" ELSE "create", d.tab, d.id)
        EXCEPT !.item = d.item, !.typed = d.typed]

HandleSave(tab) ==
    /\ MayAct /\ dialog # None
    /\ dialog.tab = tab
    /\ \E d \in Typed : dialog' = d /\ Click(SaveCall(d))

HandleSaveChannel == HandleSave("channels")
HandleSaveRoute == HandleSave("routes")

HandleDelete(tab, id) ==
    /\ MayAct /\ dialog = None
    /\ id \in DOMAIN shown[tab]
    /\ Click(Call("delete", tab, id))
    /\ UNCHANGED dialog

HandleDeleteChannel == \E id \in ChannelIds : HandleDelete("channels", id)
HandleDeleteRoute == \E id \in RouteIds : HandleDelete("routes", id)

-----------------------------------------------------------------------------
(* The server. *)

Update(c, d) == calls' = (calls \ {c}) \cup {d}
Refused(c) == Update(c, [c EXCEPT !.phase = "refused"])

(* What is stored is saved at once, under the same lock; when that fails,  *)
(* the change stays and the call is refused.                               *)
Answers == {"ok", "refused"}
Saved(c, answer) == Update(c, [c EXCEPT !.phase = answer])

With(store, id, item) == [i \in DOMAIN store \cup {id} |-> IF i = id THEN item ELSE store[i]]

(* The id that a create gets, if none was given: of the second it happens  *)
(* in, so it may be one that was made a moment before.                     *)
Chosen(c, all, store) ==
    IF c.id # None THEN {c.id} ELSE (generated \cap all) \cup (all \ (DOMAIN store \cup generated))

CreateChannel(c, answer) ==
    \E id \in Chosen(c, ChannelIds, channels) :
        /\ generated' = IF c.id = None THEN generated \cup {id} ELSE generated
        /\ IF id \in DOMAIN channels THEN Refused(c) /\ UNCHANGED channels
           ELSE Saved(c, answer) /\ channels' = With(channels, id, c.item)

UpdateChannel(c, answer) ==
    /\ IF c.id \in DOMAIN channels
       THEN Saved(c, answer) /\ channels' = With(channels, c.id, c.item)
       ELSE Refused(c) /\ UNCHANGED channels
    /\ UNCHANGED generated

(* Routes go on naming the channel.                                        *)
DeleteChannel(c, answer) ==
    /\ IF c.id \in DOMAIN channels
       THEN Saved(c, answer) /\ channels' = Restrict(channels, DOMAIN channels \ {c.id})
       ELSE Refused(c) /\ UNCHANGED channels
    /\ UNCHANGED generated

(* Before a route is stored its channels are looked up, each under a lock  *)
(* of its own.                                                             *)
CheckRoute(c) ==
    /\ c.tab = "routes" /\ c.op # "delete" /\ c.phase = "sent"
    /\ \E id \in c.item.channels \ c.checked :
           IF id \in DOMAIN channels THEN Update(c, [c EXCEPT !.checked = @ \cup {id}])
           ELSE Refused(c)
    /\ UNCHANGED server

Checked(c) == c.item.channels \subseteq c.checked

CreateRoute(c, answer) ==
    \E id \in Chosen(c, RouteIds, routes) :
        /\ generated' = IF c.id = None THEN generated \cup {id} ELSE generated
        /\ IF id \in DOMAIN routes THEN Refused(c) /\ UNCHANGED routes
           ELSE Saved(c, answer) /\ routes' = With(routes, id, c.item)

UpdateRoute(c, answer) ==
    /\ IF c.id \in DOMAIN routes
       THEN Saved(c, answer) /\ routes' = With(routes, c.id, c.item)
       ELSE Refused(c) /\ UNCHANGED routes
    /\ UNCHANGED generated

DeleteRoute(c, answer) ==
    /\ IF c.id \in DOMAIN routes
       THEN Saved(c, answer) /\ routes' = Restrict(routes, DOMAIN routes \ {c.id})
       ELSE Refused(c) /\ UNCHANGED routes
    /\ UNCHANGED generated

HandleChannel(c, answer) ==
    /\ c.tab = "channels" /\ c.phase = "sent"
    /\ \/ c.op = "create" /\ CreateChannel(c, answer)
       \/ c.op = "update" /\ UpdateChannel(c, answer)
       \/ c.op = "delete" /\ DeleteChannel(c, answer)
    /\ UNCHANGED routes

HandleRoute(c, answer) ==
    /\ c.tab = "routes" /\ c.phase = "sent"
    /\ \/ c.op = "create" /\ Checked(c) /\ CreateRoute(c, answer)
       \/ c.op = "update" /\ Checked(c) /\ UpdateRoute(c, answer)
       \/ c.op = "delete" /\ DeleteRoute(c, answer)
    /\ UNCHANGED channels

Handle(c) ==
    /\ CheckRoute(c) \/ HandleChannel(c, "ok") \/ HandleRoute(c, "ok")
    /\ UNCHANGED dialog /\ UNCHANGED view /\ UNCHANGED bounds

(* The file cannot be written.  (That another call's Reload may then read  *)
(* the old lists back is left out: nothing is claimed of them any more.)   *)
HandleUnsaved(c) ==
    /\ clicks + troubles < MaxEvents
    /\ troubles' = troubles + 1
    /\ HandleChannel(c, "refused") \/ HandleRoute(c, "refused")
    /\ <<channels, routes>>' # <<channels, routes>>
    /\ UNCHANGED <<dialog, clicks, habit>> /\ UNCHANGED view

(* Faulty: a change is not followed by a load. *)
DeliverForgetful(c) ==
    /\ c.phase \in {"ok", "refused"}
    /\ calls' = calls \ {c}
    /\ dialog' = IF c.phase = "ok" /\ c.op # "delete" THEN None ELSE dialog
    /\ UNCHANGED server /\ UNCHANGED view /\ UNCHANGED bounds

(* A save that succeeds closes the dialog of its tab, whatever it shows by *)
(* then.                                                                   *)
Deliver(c) ==
    /\ c.phase \in {"ok", "refused"}
    /\ calls' = calls \ {c}
    /\ IF c.phase = "ok" THEN LoadData ELSE UNCHANGED <<loads, loaded>>
    /\ dialog' = IF c.phase = "ok" /\ c.op # "delete" /\ dialog # None /\ dialog.tab = c.tab
                 THEN None ELSE dialog
    /\ UNCHANGED <<shown, loading>> /\ UNCHANGED server /\ UNCHANGED bounds

(* Another console deletes a channel.                                      *)
OtherDelete ==
    /\ clicks + troubles < MaxEvents
    /\ troubles' = troubles + 1
    /\ \E id \in DOMAIN channels : channels' = Restrict(channels, DOMAIN channels \ {id})
    /\ UNCHANGED <<routes, generated, dialog, calls, clicks, habit>> /\ UNCHANGED view

-----------------------------------------------------------------------------
Init ==
    /\ channels = InitChannels /\ routes = InitRoutes
    /\ generated = {}
    /\ shown = [channels |-> <<>>, routes |-> <<>>, load |-> 0]
    /\ loaded = 1 /\ loads = {[n |-> 1, channels |-> None, routes |-> None]}
    /\ loading = TRUE
    /\ dialog = None
    /\ calls = {}
    /\ clicks = 0 /\ troubles = 0
    /\ habit \in Habits

User ==
    \/ \E tab \in Tabs, id \in ItemIds : EditItem(tab, id)
    \/ AddChannel \/ AddRoute \/ Cancel
    \/ HandleSaveChannel \/ HandleSaveRoute
    \/ HandleDeleteChannel \/ HandleDeleteRoute

Load == \E l \in loads : AnswerLoad(l) \/ ArriveLoad(l)
Serve == \E c \in calls : Handle(c) \/ Deliver(c)

Next ==
    \/ User \/ Load \/ Serve
    \/ \E l \in loads : FailLoad(l)
    \/ \E c \in calls : HandleUnsaved(c)
    \/ OtherDelete

Spec == Init /\ [][Next]_vars

-----------------------------------------------------------------------------
IsStore(store, all, items) == DOMAIN store \subseteq all /\ \A id \in DOMAIN store : store[id] \in items

TypeOK ==
    /\ IsStore(channels, ChannelIds, Channel) /\ IsStore(routes, RouteIds, Route(ChannelIds))
    /\ IsStore(shown.channels, ChannelIds, Channel)
    /\ IsStore(shown.routes, RouteIds, Route(ChannelIds))
    /\ generated \subseteq ItemIds
    /\ \A l \in loads : l.n \in 1 .. loaded
    /\ dialog # None => dialog.tab \in Tabs /\ dialog.id \in ItemIds \cup {None}
    /\ \A c \in calls : c.phase \in {"sent"} \cup Answers

(* Once all answers are in, the page shows the server's two lists, if the  *)
(* load it shows is the last one: that of a user who waits always is.      *)
LatestShown == habit.waits \/ shown.load = loaded

ListsAreCurrent ==
    Quiet /\ troubles = 0 /\ LatestShown =>
        shown.channels = channels /\ shown.routes = routes

(* Between calls that change the store, a user who waits and is alone      *)
(* changes what he means to: an edit never makes a second item, leaves     *)
(* other items alone and, of its own, the fields he did not touch.         *)
Store(tab) == IF tab = "channels" THEN channels ELSE routes

ChangesOnly(c, before, after) ==
    /\ \A id \in DOMAIN before \ {c.id} : id \in DOMAIN after /\ after[id] = before[id]
    /\ c.op = "update" =>
           /\ DOMAIN after = DOMAIN before
           /\ \A f \in DOMAIN c.item \ c.typed : after[c.id][f] = before[c.id][f]
    /\ c.op = "create" => c.id = None

SaveIsExact ==
    habit.waits /\ troubles' = 0 =>
        \A c \in calls :
            c \notin calls' /\ <<channels, routes>>' # <<channels, routes>> =>
                ChangesOnly(c, Store(c.tab), Store(c.tab)')

(* Every call is answered and every load ends, and the page stops loading. *)
Settled == Quiet /\ ~loading
=============================================================================
