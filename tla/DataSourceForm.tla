--------------------------- MODULE DataSourceForm ---------------------------
(***************************************************************************)
(* The console's form for the settings of one data source: the user edits  *)
(* a copy of the settings, tests it against the source through the server, *)
(* and saves it or cancels.                                                *)
(***************************************************************************)
EXTENDS DataSourceSettings, Naturals

CONSTANTS
    None,           \* nothing
    MaxTests,       \* cap on the tests
    MaxTyped        \* cap on the changes of the user

VARIABLES
    kind,           \* of the source
    settings,       \* config: the copy being edited
    testing,        \* the flag that disables the button
    tests,          \* the tests whose answer is outstanding, by number
    started,        \* how many tests were started
    verdict,        \* the test whose answer is shown, or None
    typed,          \* how many changes the user made
    fate            \* of the form: open, saved or cancelled

vars == <<kind, settings, testing, tests, started, verdict, typed, fate>>

Open == fate = "open"

(* The fields stay open while a test runs, and a verdict that is shown     *)
(* stays when they change.                                                 *)
Type ==
    /\ Open /\ typed < MaxTyped
    /\ \E e \in Edits(kind, settings) : settings' = [settings EXCEPT ![e.field] = e.value]
    /\ typed' = typed + 1
    /\ UNCHANGED <<kind, testing, tests, started, verdict, fate>>

(* Faulty: the button works while a test is running. *)
CanTestAlways == Open

CanTest == Open /\ ~testing

StartTest ==
    /\ CanTest
    /\ started < MaxTests
    /\ started' = started + 1
    /\ tests' = tests \cup {started'}
    /\ testing' = TRUE
    /\ verdict' = None
    /\ UNCHANGED <<kind, settings, typed, fate>>

Take(n) ==
    /\ tests' = tests \ {n}
    /\ UNCHANGED <<kind, settings, started, typed, fate>>

(* The source's answer, good or bad; nobody hears it once the form is gone.*)
TestAnswered(n) ==
    /\ Take(n)
    /\ IF Open THEN verdict' = n /\ testing' = FALSE ELSE UNCHANGED <<verdict, testing>>

(* The request itself fails.                                               *)
TestFailed(n) ==
    /\ Take(n)
    /\ IF Open THEN verdict' = n /\ testing' = FALSE ELSE UNCHANGED <<verdict, testing>>

(* Saving does not wait for a test, nor for its own answer; the page takes *)
(* the form away.                                                          *)
Close ==
    /\ Open
    /\ fate' \in {"cancelled"} \cup (IF Complete(settings) THEN {"saved"} ELSE {})
    /\ UNCHANGED <<kind, settings, testing, tests, started, verdict, typed>>

Init ==
    /\ kind \in Kinds
    /\ settings \in {DefaultSettings(kind), [DefaultSettings(kind) EXCEPT !.main = "old"]}
    /\ testing = FALSE
    /\ tests = {} /\ started = 0
    /\ verdict = None
    /\ typed = 0
    /\ fate = "open"

Answer == \E n \in tests : TestAnswered(n) \/ TestFailed(n)

Next == Type \/ StartTest \/ Answer \/ Close

Spec == Init /\ [][Next]_vars

-----------------------------------------------------------------------------
(* The verdict beside the button is that of the test started last, never a *)
(* late one of an earlier test.                                            *)
VerdictIsTheLatest == verdict \in {None, started}
=============================================================================
