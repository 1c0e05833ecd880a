----------------------------- MODULE RouteForms -----------------------------
(***************************************************************************)
(* The forms of the console's route page: a notification channel and an    *)
(* alert route as its dialogs hold them, and what one change of the user   *)
(* makes of them.                                                          *)
(***************************************************************************)
EXTENDS FiniteSets

(* A text as it was, as the user writes it, or empty.                      *)
Texts == {"", "old", "new"}

ChannelTypes == {"wechat", "dingtalk", "feishu"}

(* A channel keeps the webhooks of all types, whichever type it has.       *)
Channel == [name: Texts, type: ChannelTypes, webhooks: [ChannelTypes -> Texts],
            description: Texts]

NewChannel == [name |-> "", type |-> "wechat", description |-> "",
               webhooks |-> [type \in ChannelTypes |-> ""]]

Change(field, values) == {[field |-> field, value |-> v] : v \in values}

(* The field of the webhook is that of the type that is shown.             *)
ChannelEdits(channel) ==
    Change("name", {"new"}) \cup Change("description", {"", "new"})
        \cup Change("type", ChannelTypes \ {channel.type})
        \cup Change("webhooks", {[channel.webhooks EXCEPT ![channel.type] = "new"]})

(* What the form requires before it submits.                               *)
ChannelComplete(channel) ==
    channel.name # "" /\ channel.webhooks[channel.type] # ""

Severities == {"critical", "warning"}

(* "matches" are the conditions that the dialog has no control for.        *)
Route(Ids) == [name: Texts, priority: {"old", "new"}, severities: SUBSET Severities,
               alertNames: Texts, matches: Texts, channels: SUBSET Ids,
               continue: BOOLEAN]

NewRoute == [name |-> "", priority |-> "new", severities |-> {}, alertNames |-> "",
             matches |-> "", channels |-> {}, continue |-> FALSE]

Flipped(S, x) == IF x \in S THEN S \ {x} ELSE S \cup {x}

SeverityEdits(route) ==
    Change("severities", {Flipped(route.severities, s) : s \in Severities})

(* There is a box for each channel that the page shows; the others stay.   *)
ChannelBoxes(route, shown) ==
    Change("channels", {Flipped(route.channels, id) : id \in shown})

RouteEdits(route, shown) ==
    Change("name", {"new"}) \cup Change("priority", {"new"})
        \cup Change("alertNames", {"", "new"})
        \cup Change("continue", {~route.continue})
        \cup SeverityEdits(route) \cup ChannelBoxes(route, shown)

RouteComplete(route) == route.name # ""
=============================================================================
