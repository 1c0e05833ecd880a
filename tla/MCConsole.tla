------------------------------ MODULE MCConsole ------------------------------
(* Small instances of Console for TLC. *)
EXTENDS Console, Sequences, TLC

AlertForm == INSTANCE AlertFormFields
NotifierForm == INSTANCE NotifierForms

CONSTANTS a, b, r1, r2, c1, c2, c3

(* Configuration: a metric with a switch and one that the console created, *)
(* which has none until the server starts anew; for a hurried user one.    *)
TwoMetrics == <<[name |-> a, enabled |-> "on", body |-> "old"],
                [name |-> b, enabled |-> "unset", body |-> "old"]>>
ConfigUsers == {[habit |-> "waits", metrics |-> TwoMetrics, url |-> "blank"],
                [habit |-> "waits", metrics |-> <<TwoMetrics[1]>>, url |-> "old"],
                [habit |-> "hurries", metrics |-> <<TwoMetrics[1]>>, url |-> "old"]}

(* Data sources: a session with one kind of connections, or with two.      *)
SomeKinds == {{"redis"}, {"restapi"}, {"mysql", "iotdb"}}

(* Alert rules: a careful user with two rules, a hurried one with one.     *)
OldRule == [name |-> "old", enabled |-> TRUE, text |-> "old", mode |-> "collection",
            interval |-> "blank", ms |-> "blank", seen |-> TRUE,
            condition |-> [type |-> "trend", window |-> "short", ms |-> "short"],
            labels |-> {"plain", "hash"}, state |-> "pending"]
OneRule == r1 :> OldRule
LongRule == [OldRule EXCEPT !.name = "new", !.enabled = FALSE,
                            !.mode = "scheduled", !.interval = "long", !.ms = "long"]
TwoRules == OneRule @@ (r2 :> LongRule)
AlertSessions ==
    {[waits |-> TRUE, rules |-> TwoRules, types |-> AlertForm!Fields],
     [waits |-> FALSE, rules |-> OneRule, types |-> {}]}

(* Routes: one channel and one route to it.                                *)
OldChannel == [name |-> "old", type |-> "wechat", description |-> "old",
               webhooks |-> [wechat |-> "old", dingtalk |-> "old", feishu |-> ""]]
OneChannel == c1 :> OldChannel
OldRoute == [name |-> "old", priority |-> "old", severities |-> {"critical"},
             alertNames |-> "old", matches |-> "old", channels |-> {c1},
             continue |-> FALSE]
OneRoute == r1 :> OldRoute
RouteUsers == {[waits |-> TRUE, types |-> DOMAIN OldChannel \cup DOMAIN OldRoute],
               [waits |-> FALSE, types |-> {"channels"}]}

(* Notifications: the notifier is on, with two of its channels.            *)
OldSection == [enabled |-> TRUE, webhook |-> "old", mentioned |-> "old", mobiles |-> "old"]
TwoSections ==
    {[NotifierForm!Empty EXCEPT
         !.enabled = TRUE, !.group_wait = "old", !.wechat = OldSection,
         !.dingtalk = [OldSection EXCEPT !.enabled = TRUE] @@ [secret |-> "old", all |-> FALSE]]}

(* Chat: answers with and without a tool's call, and one that fails.       *)
SomeScripts == {<<"chunk", "chunk", "done">>, <<"chunk", "tool_call", "chunk", "done">>,
                <<"chunk", "error">>, <<"tool_call", "done">>}
==============================================================================
