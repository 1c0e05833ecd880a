----------------------------- MODULE MetricForm -----------------------------
(***************************************************************************)
(* The console's form for one metric: the user edits a copy of the metric, *)
(* tries its query out through the server, and saves it after a dialog     *)
(* asked once more.  One flag stands for the two ways of trying out: the   *)
(* query's number, and the whole answer of a REST connection, from which   *)
(* the result field can be picked.                                         *)
(*                                                                         *)
(* Of a metric there are the fields that depend on each other; "text"      *)
(* stands for its name and help.                                           *)
(***************************************************************************)
EXTENDS Naturals, Functions

CONSTANTS
    None,           \* nothing
    MaxTests,       \* cap on the previews
    MaxTyped        \* cap on the changes and the saves of the user

VARIABLES
    metric,         \* the copy being edited
    testing,        \* previewing: the flag that disables both buttons
    tests,          \* the previews whose answer is outstanding
    started,        \* how many previews were started
    verdict,        \* previewResult: of which preview, or None
    response,       \* restapiPreviewData: of which preview, or None
    confirming,     \* showSaveConfirm
    saving,         \* the save is pending
    typed,          \* how many changes and saves the user made
    fate            \* of the form: open, saved or cancelled

vars == <<metric, testing, tests, started, verdict, response, confirming,
          saving, typed, fate>>
answers == <<testing, tests, started, verdict, response>>

Sources == {"mysql", "iotdb", "redis", "restapi"}
Types == {"gauge", "histogram", "summary"}      \* a counter is as a gauge here
Texts == {"", "old", "new"}

(* The connections that the configuration has, by their kind, and those a  *)
(* metric may name: one of them was deleted.                               *)
Connections(source) ==
    CASE source = "mysql" -> {"mysql1"} [] source = "redis" -> {"redis1"}
      [] source = "restapi" -> {"rest1"} [] OTHER -> {}
Named(source) == Connections(source) \cup IF source = "restapi" THEN {"gone"} ELSE {}

FieldsOf(source) == IF source \in {"iotdb", "restapi"} THEN {"typed", "picked"} ELSE {}

Keys == {"", "key", "other"}    \* of labels

MetricsOf(source) ==
    [source: {source}, connection: Named(source) \cup {None},
     result_field: FieldsOf(source) \cup {None}, query: Texts, text: Texts,
     type: Types, labels: UNION {[K -> {"", "value"}] : K \in SUBSET Keys},
     buckets: BOOLEAN, objectives: BOOLEAN]

NewMetric == [source |-> "mysql", connection |-> None, result_field |-> None,
              query |-> "", text |-> "", type |-> "gauge", labels |-> <<>>,
              buckets |-> FALSE, objectives |-> FALSE]

-----------------------------------------------------------------------------
(* What one change of the user makes of the metric. *)

TextEdits(m) ==
    {[m EXCEPT !.text = "new"], [m EXCEPT !.query = ""], [m EXCEPT !.query = "new"]}

TypeEdits(m) == {[m EXCEPT !.type = type] : type \in Types \ {m.type}}

(* Faulty: what was chosen for the old source stays. *)
SourceEditsOnly(m) == {[m EXCEPT !.source = s] : s \in Sources \ {m.source}}

SourceEdits(m) ==
    {[m EXCEPT !.source = s, !.connection = None, !.result_field = None] :
         s \in Sources \ {m.source}}

ConnectionEdits(m) == {[m EXCEPT !.connection = c] : c \in Connections(m.source)}

(* A field of the answer that shows may be picked, whatever was asked.     *)
FieldEdits(m) ==
    LET fields == IF m.source \notin {"iotdb", "restapi"} THEN {}
                  ELSE {None, "typed"} \cup
                      IF m.source = "restapi" /\ response # None THEN {"picked"} ELSE {}
    IN  {[m EXCEPT !.result_field = f] : f \in fields}

(* Labels are the properties of an object: a key that is renamed to one    *)
(* that is there takes its place.                                          *)
Renamed(labels, key, new) ==
    [k \in (DOMAIN labels \ {key}) \cup {new} |->
        IF k = new THEN labels[key] ELSE labels[k]]

Labelled(labels, key, value) ==
    [k \in DOMAIN labels \cup {key} |-> IF k = key THEN value ELSE labels[k]]

Relabelled(labels) ==
    {Renamed(labels, r[1], r[2]) : r \in (DOMAIN labels) \X Keys}
        \cup {Labelled(labels, key, "value") : key \in DOMAIN labels}
        \cup {Restrict(labels, DOMAIN labels \ {key}) : key \in DOMAIN labels}
        \cup {Labelled(labels, "", "")}

LabelEdits(m) == {[m EXCEPT !.labels = labels] : labels \in Relabelled(m.labels)}

(* The numbers are read anew at each key, and none is left if none is read.*)
NumberEdits(m) ==
    {[m EXCEPT !.buckets = b] : b \in IF m.type = "histogram" THEN BOOLEAN ELSE {}}
        \cup {[m EXCEPT !.objectives = b] : b \in IF m.type = "summary" THEN BOOLEAN ELSE {}}

Edits(m) ==
    TextEdits(m) \cup TypeEdits(m) \cup SourceEdits(m) \cup ConnectionEdits(m)
        \cup FieldEdits(m) \cup LabelEdits(m) \cup NumberEdits(m)

-----------------------------------------------------------------------------
Open == fate = "open"

(* The dialog covers the form.                                             *)
InForm == Open /\ ~confirming

Type ==
    /\ InForm /\ typed < MaxTyped
    /\ metric' \in Edits(metric)
    /\ typed' = typed + 1
    /\ UNCHANGED <<confirming, saving, fate>> /\ UNCHANGED answers

Start(kind) ==
    /\ started < MaxTests
    /\ started' = started + 1
    /\ tests' = tests \cup {[n |-> started', kind |-> kind]}
    /\ testing' = TRUE

PreviewQuery ==
    /\ InForm /\ ~testing /\ metric.query # ""
    /\ Start("query")
    /\ verdict' = None
    /\ UNCHANGED <<metric, response, confirming, saving, typed, fate>>

(* Without a query it asks for GET.  The old verdict stays meanwhile; a    *)
(* connection that was deleted gives a verdict at once.                    *)
PreviewRestAPI ==
    /\ InForm /\ ~testing
    /\ metric.source = "restapi" /\ metric.connection # None
    /\ IF metric.connection \in Connections("restapi")
       THEN Start("restapi") /\ response' = None /\ UNCHANGED verdict
       ELSE /\ started < MaxTests
            /\ started' = started + 1 /\ verdict' = started'
            /\ UNCHANGED <<testing, tests, response>>
    /\ UNCHANGED <<metric, confirming, saving, typed, fate>>

(* An answer, good or bad, or the request fails; a form that is gone shows *)
(* nothing.                                                                *)
Previewed(t) ==
    /\ tests' = tests \ {t}
    /\ IF Open
       THEN /\ verdict' = t.n /\ testing' = FALSE
            /\ response' \in {response} \cup (IF t.kind = "restapi" THEN {t.n} ELSE {})
       ELSE UNCHANGED <<verdict, testing, response>>
    /\ UNCHANGED <<metric, started, confirming, saving, typed, fate>>

(* handleSubmit: the form requires the texts.                              *)
Submit ==
    /\ InForm /\ ~saving /\ metric.text # "" /\ typed < MaxTyped
    /\ confirming' = TRUE
    /\ UNCHANGED <<metric, saving, typed, fate>> /\ UNCHANGED answers

(* handleConfirmSave, or back to the form.                                 *)
AnswerDialog(confirmed) ==
    /\ confirming
    /\ confirming' = FALSE
    /\ saving' = confirmed
    /\ typed' = IF confirmed THEN typed + 1 ELSE typed
    /\ UNCHANGED <<metric, fate>> /\ UNCHANGED answers

(* Success takes the form away, with whatever was typed since.             *)
SaveAnswered(ok) ==
    /\ saving
    /\ saving' = FALSE
    /\ fate' = IF ok /\ Open THEN "saved" ELSE fate
    /\ confirming' = IF ok THEN confirming ELSE FALSE
    /\ UNCHANGED <<metric, typed>> /\ UNCHANGED answers

Cancel ==
    /\ InForm
    /\ fate' = "cancelled"
    /\ UNCHANGED <<metric, confirming, saving, typed>> /\ UNCHANGED answers

(* A new metric, or an old one of a REST connection that may be gone.      *)
Init ==
    /\ \/ metric = NewMetric
       \/ \E c \in Named("restapi") :
              metric = [NewMetric EXCEPT
                            !.source = "restapi", !.connection = c, !.text = "old",
                            !.result_field = "typed", !.query = "old",
                            !.labels = [k \in {"key"} |-> "value"]]
    /\ testing = FALSE /\ tests = {} /\ started = 0
    /\ verdict = None /\ response = None
    /\ confirming = FALSE /\ saving = FALSE
    /\ typed = 0
    /\ fate = "open"

User ==
    \/ Type \/ PreviewQuery \/ PreviewRestAPI \/ Submit \/ Cancel
    \/ \E confirmed \in BOOLEAN : AnswerDialog(confirmed)

Serve == (\E t \in tests : Previewed(t)) \/ \E ok \in BOOLEAN : SaveAnswered(ok)

Next == User \/ Serve

Spec == Init /\ [][Next]_vars

-----------------------------------------------------------------------------
(* The connection and the result field are such as the source has.         *)
TypeOK ==
    /\ metric.source \in Sources
    /\ metric \in MetricsOf(metric.source)
    /\ testing \in BOOLEAN /\ confirming \in BOOLEAN /\ saving \in BOOLEAN
    /\ {verdict, response} \subseteq {None} \cup 1 .. started

(* The verdict that shows while nothing runs is that of the last preview,  *)
(* and at most one preview runs.                                           *)
VerdictIsTheLatest ==
    /\ ~testing => verdict \in {None, started}
    /\ Open => (testing <=> tests # {})

Settled == tests = {} /\ ~saving /\ (Open => ~testing)
=============================================================================
