---------------------------- MODULE NotifierForms ----------------------------
(***************************************************************************)
(* The notifier's settings as the console edits them: a switch, intervals  *)
(* and a section per channel, and what one change of the user makes of     *)
(* them.                                                                   *)
(***************************************************************************)
(* Empty, as it was, or as the user writes it.                             *)
Texts == {"", "old", "new"}

Change(field, values) == {[field |-> field, value |-> v] : v \in values}

(* The switch of a section and, when it is on, its fields.                 *)
SectionEdits(section, edits) ==
    {[section EXCEPT !.enabled = ~@]} \cup (IF section.enabled THEN edits ELSE {})

WeChatConfigSection(section) ==
    SectionEdits(section,
        {[section EXCEPT !.webhook = "new"]}
            \cup {[section EXCEPT !.mentioned = m] : m \in Texts}
            \cup {[section EXCEPT !.mobiles = m] : m \in Texts})

DingTalkConfigSection(section) ==
    SectionEdits(section,
        {[section EXCEPT !.webhook = "new"], [section EXCEPT !.all = ~@]}
            \cup {[section EXCEPT !.secret = s] : s \in Texts}
            \cup {[section EXCEPT !.mentioned = m] : m \in Texts}
            \cup {[section EXCEPT !.mobiles = m] : m \in Texts})

FeishuConfigSection(section) ==
    SectionEdits(section, {[section EXCEPT !.webhook = "new"]})

(* What updateConfig takes a section for that the file does not have.      *)
NoWeChat == [enabled |-> FALSE, webhook |-> "", mentioned |-> "", mobiles |-> ""]
NoDingTalk == [enabled |-> FALSE, webhook |-> "", mentioned |-> "", mobiles |-> "",
               secret |-> "", all |-> FALSE]
NoFeishu == [enabled |-> FALSE, webhook |-> ""]

Channels == {"wechat", "dingtalk", "feishu"}
Fields == Channels \cup {"enabled", "group_wait", "group_interval", "repeat_interval"}

IsSettings(s) ==
    DOMAIN s = Fields /\ \A channel \in Channels : "webhook" \in DOMAIN s[channel]

Empty == [enabled |-> FALSE, group_wait |-> "", group_interval |-> "",
          repeat_interval |-> "", wechat |-> NoWeChat, dingtalk |-> NoDingTalk,
          feishu |-> NoFeishu]

IntervalEdits ==
    Change("group_wait", {"", "new"}) \cup Change("group_interval", {"", "new"})
        \cup Change("repeat_interval", {"", "new"})

(* What the page lets the user change: with the switch off, only the switch.*)
Edits(config) ==
    Change("enabled", {~config.enabled}) \cup
        IF ~config.enabled THEN {}
        ELSE IntervalEdits
                 \cup Change("wechat", WeChatConfigSection(config.wechat))
                 \cup Change("dingtalk", DingTalkConfigSection(config.dingtalk))
                 \cup Change("feishu", FeishuConfigSection(config.feishu))

=============================================================================
