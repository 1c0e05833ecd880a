--------------------------- MODULE AlertFormFields ---------------------------
(***************************************************************************)
(* The rule that the console's alert form holds and what one change of the *)
(* user makes of it.  Of a rule's fields there are its name, its switch,   *)
(* its mode and interval, its labels and its condition; "text" stands for  *)
(* those the form only copies (description, severity, metric, annotations).*)
(***************************************************************************)
EXTENDS FiniteSets

Windows == {"blank", "short", "long"}
Types == {"threshold", "trend", "anomaly"}

(* ms is the window that the evaluator goes by: the server sets it from    *)
(* the window's text, and the console sends back what it was given.        *)
Condition == [type: Types, window: Windows, ms: Windows]

(* A label's key as the text of the form can or cannot write it: "hash"    *)
(* starts with #, "equals" has = in it.                                    *)
LabelKeys == {"plain", "hash", "equals"}

Fields == {"text", "mode", "interval", "condition", "labels", "name", "enabled"}

(* An interval that is not given becomes 5m as soon as the form opens.     *)
Given(interval) == IF interval = "blank" THEN "short" ELSE interval

(* What the form sends for a new rule.                                     *)
NewCondition(type) ==
    [type |-> type, ms |-> "blank",
     window |-> CASE type = "trend" -> "short" [] type = "anomaly" -> "long"
                  [] OTHER -> "blank"]

NewRule == [name |-> "", enabled |-> TRUE, text |-> "", mode |-> "collection",
            interval |-> Given("blank"), condition |-> NewCondition("threshold"), labels |-> {}]

(* Choosing a type starts a condition from its defaults; choosing the one  *)
(* that is shown is no change.                                             *)
TypeChanges(condition) ==
    {NewCondition(type) : type \in Types \ {condition.type}}

(* A threshold's duration has no copy in milliseconds.                     *)
ThresholdEdits(condition) ==
    {[condition EXCEPT !.window = w] : w \in Windows}

(* The rest of the condition is sent as it came.                           *)
TrendEdits(condition) ==
    {[condition EXCEPT !.window = w] : w \in Windows}

AnomalyEdits(condition) ==
    {[condition EXCEPT !.window = w] : w \in Windows}

ConditionEdits(condition) ==
    TypeChanges(condition) \cup
        CASE condition.type = "threshold" -> ThresholdEdits(condition)
          [] condition.type = "trend" -> TrendEdits(condition)
          [] condition.type = "anomaly" -> AnomalyEdits(condition)

(* The text area: a line is cut at its first =, lines that start with #    *)
(* are comments, and each change reads the whole text anew.                *)
Read(labels) ==
    {k \in labels : k # "hash" /\ k # "equals"}
        \cup (IF "equals" \in labels THEN {"plain"} ELSE {})

LabelEdits(labels) == {Read(labels), Read(labels \cup {"plain"}), {}}

(* The interval is shown for a rule on a schedule only.                    *)
IntervalEdits(rule) == IF rule.mode = "scheduled" THEN Windows ELSE {}

Change(field, values) == {[field |-> field, value |-> v] : v \in values}

(* No control of the form changes the switch.                              *)
Edits(rule) ==
    Change("name", {"new"}) \cup Change("text", {"new"})
        \cup Change("mode", {"collection", "scheduled"})
        \cup Change("interval", IntervalEdits(rule))
        \cup Change("condition", ConditionEdits(rule.condition))
        \cup Change("labels", LabelEdits(rule.labels))
=============================================================================
