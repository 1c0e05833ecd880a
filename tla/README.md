# sql2metrics: TLA+ models

sql2metrics collects numbers from databases and HTTP APIs, exposes them as Prometheus metrics,
evaluates alert rules on them and notifies people; a web console configures it. This directory
holds TLA+ models of the server and of the console, the TLC configurations that check them, and
TLAPS proofs. Every definition follows the Go and TypeScript source under `src/`; `PROJECT.json`
maps it to the lines it stands for.

## The system

One process (`cmd/collector/main.go`) holds all parts of the server and a handful of goroutines; the
console runs in browsers.

| Component | State | Operations | Who calls it |
|---|---|---|---|
| alert rule storage (`alerts/storage.go`) | list of rules in memory, `configs/alerts.json` | Add, Update, Delete, SetEnabled, Save, Load | HTTP handlers, the evaluator, `main` |
| alert evaluator (`alerts/evaluator.go`, `history.go`) | waits (`pendingAlerts`), history; rules through the storage | EvaluateRule, updateRuleState, the two loops | collection cycle, scheduler, `POST /api/alerts/evaluate`, `POST .../test` |
| built-in notifier (`notifier/manager.go`) | alert channel, groups, last notice times | SendAlert, SendResolved, the ticker loop, Stop | the evaluator, holding its mutex |
| Alertmanager client (`alerts/alertmanager.go`) | none | one POST | the evaluator, when the notifier is off |
| collection service (`collectors/service.go`) | metric holders, connections, registries, current values | execute, ReloadConfig, Close | its ticker, the configuration API |
| metric value store (`alerts/metric_store.go`) | points per metric | AddValue, GetValues, cleanup | the collection cycle, trend and anomaly rules |
| configuration (`config/config.go`) | a tree of settings, `config.yml` | ApplyDefaults, Validate, Clone, Save | `main`, the configuration API |
| configuration API (`api/handlers.go`, `server.go`) | one shared configuration pointer | about twenty handlers that edit, save, reload, publish | HTTP |
| routes (`routes/*.go`) | channels, routes, the matcher, `data/routes.json` | edits, Reload, Match | HTTP; the router that would use Match is never built |
| data sources (`datasource/*.go`) | connections | QueryScalar | the collection cycle |
| console, configuration pages (`web/src/pages/Metrics.tsx`, `Settings.tsx`, `MetricForm.tsx`) | a cached copy of the configuration, dialogs, forms | edit, switch, delete by index, save settings, save-and-apply | people |
| console, data sources (`DataSources.tsx`, `DataSourceForm.tsx`) | the same copy, one editor per kind of source | save, delete, test a connection | people |
| console, alerts (`Alerts.tsx`, `AlertDetail.tsx`, `AlertForm.tsx`) | cached list and rules, a form | create, edit, switch, delete | people |
| console, routes (`RouteManagement.tsx`) | both lists, a dialog | load, save, delete | people |
| console, notifications (`NotificationSettings.tsx`) | a copy of the settings, three flags | load, save, test a webhook | people |
| console, assistant (`AIChat.tsx`, `use-stream-chat.ts`, `chat-storage.ts`) | messages, a running request, a stored history | send, stream, clear | people |

How they interact: a collection cycle stores the values it read and starts a goroutine that
evaluates the collection-mode rules; a second loop evaluates the scheduled ones each minute; an
HTTP request may evaluate all. An evaluation works on copies of the rules, decides, sends a notice,
writes the history and puts the copy back into the storage, which saves it to the file. HTTP
requests change and save the same rules at any time. The console's pages show what they fetched
last, in one cache (React Query) or in their own state; a click sends a call, its answer fetches
anew, and meanwhile the user, other people and the evaluator go on.

What is hard here:

- rules are read, decided on and written back in separate steps, by goroutines that share no lock
  across them;
- memory changes first and the file later, by whoever comes first, in place of an atomic
  replacement;
- waits, stale values and restarts decide whether an alert fires, and time passes in between;
- the notifier's channel is bounded and its sender holds the evaluator's mutex;
- a hot reload changes registries, connections and holders step by step, any step may fail, and
  collection cycles walk the same holders without a lock;
- the configuration is shared by pointer, edited in place and published in three places;
- the console acts by index, by name or by whole copies of what it fetched some time ago, answers
  come back in any order to a page that may have changed or be gone, and one flag or one editor
  often stands for several calls;
- an answer of the assistant is cut into reads anywhere, while its reader may leave or clear it.

What makes the parts correct:

- storage: no duplicates, no save undoes a newer one, the file equals memory when all is quiet;
- evaluator: notices alternate and keep the duration, the history shows the firing rules, deleted
  rules stay deleted, disabled rules stay disabled, a lasting condition is eventually acted on;
- notifier: no alert is lost, each is followed by a notice, the evaluator is never stuck in it;
- hot reload: what is configured is exposed and collected, the registries agree even after a
  failure, the connections are those that are needed;
- configuration API: file and memory agree when all is quiet, a save changes what it is about;
- console: once all answers are in, a page shows what the server has; a careful user's click hits
  the row he sees and changes only what he typed; late answers close and show only what is theirs;
  nothing spins for ever; the chat stores what it shows.

## Modules

| Module | What it models |
|---|---|
| `AlertRules` | the list of rules as pure operators: what each storage operation accepts and makes of it |
| `AlertStorage` | the storage, its file, and clients that change and save; crashes |
| `AlertStorageProofs` | theorems about `AlertStorage` |
| `AlertLifecycle` | abstract: the notices a rule's condition justifies |
| `AlertEvaluator` | passes, rules, values, waits, history, notices, requests, time |
| `AlertEvaluatorProofs` | theorems about `AlertEvaluator` |
| `AlertLifecycleProofs` | the proof that it implements `AlertLifecycle`, and what its history shows |
| `NotifierManager` | the evaluator inside the manager, the channel, the groups, the ticker loop |
| `NotifierManagerProofs` | theorems about `NotifierManager` |
| `ServiceReload` | hot reloads: registries, connections and holders; collection cycles |
| `ServiceReloadProofs` | theorems about `ServiceReload` |
| `QueryCache` | one entry of the console's cache: mounting, invalidating, answers (a library of operators) |
| `ConfigPages` | Dashboard, Metrics and Settings over one cached configuration, and the server's handlers |
| `MetricForm` | the form of a metric, its previews and its confirmation |
| `DataSourceSettings` | the settings of each kind of source and the edits its form makes of them |
| `DataSourceForm` | the form of one source with its test |
| `DataSourcesPage` | the four sections, their editors, saving and deleting by clone and publish |
| `AlertFormFields` | the fields of a rule's form and what edits make of them |
| `AlertPages` | list, page and form of alert rules, their three kinds of cache entries, the server's rules |
| `RouteForms` | the edits of the two dialogs of channels and routes |
| `RoutesPage` | the route page, its overlapping loads, the server's two stores |
| `NotifierForms` | the edits of the notification settings |
| `NotificationsPage` | loads, saves and tests over several visits, the server's memory and file |
| `ChatPage` | the assistant's page: requests, streams, messages, stored history |
| `Console` | one session with any of the console's pages, and the properties of all |
| `ConsoleProofs` | theorems about the forms, the notification page and the assistant |
| `ConsoleQueryProofs` | theorems that pages come to show what the server has |
| `ConsoleSavesProofs` | theorems that saves change what the user meant and nothing else, and the types of all pages |
| `MC...` | constants of the instances TLC checks |

`AlertStorage`. `rules` is `Storage.rules`, `disk` what `Load` would make of the file. A client is a
goroutine in a handler or in the evaluator: it changes the list under the write lock (`CreateAlert`
and its siblings), then takes the read lock, marshals and truncates the file (`BeginSave`), then
writes it (`FinishSave`) or fails (`SaveFails`). The read lock is `NoReader`. `os.WriteFile`
truncates first, so a crash in between leaves an empty or broken file, and both load as no rules.

`AlertEvaluator`. A pass is one run of `EvaluateCollectionModeAlerts`,
`EvaluateScheduledModeAlerts` or `EvaluateAllAlerts`: `Snapshot` copies the enabled rules, `Read`
fetches the value for one copy, `Evaluate` judges it and updates the wait, then
`Fire`/`Resolve`/`Confirm`/`KeepWaiting` is the decision of `updateRuleState` under `evaluator.mu`
and `WriteBack` its last step. A value is `none`, `low` or `high`: whether the rule's condition is
met. Time is counted in ticks, and ages only as far as they matter. `outstanding` counts firing
minus resolved notices. `Requests` selects the kinds of requests of an instance.
A test request (`POST .../test`) is an `EvaluateRule` outside all passes and locks, in two steps as
there: `TestReads` takes the value, `TestJudges` changes the wait by it, perhaps much later.
`misled` is a history variable: the rules whose wait was changed by a value that was no longer
theirs, until an evaluation finds the condition unmet and so removes the wait. `saved` is the file:
each change of the rules is followed by its save, which may fail (`"failed save"`) and then leaves
the old list or, truncated, none, and `Restart` starts from it. `deleted` has the rules whose
deletion was answered as done. Change and save are one step here, as `AlertStorage` looks at what
comes between them.

`NotifierManager`. `sender` is the evaluator inside `SendAlert` or `SendResolved`; its mutex lets
one in at a time. `loop` is `processAlerts`; `Check` opens a check of the groups, `Notify` and
`Pass` go through them in any order, `EndCheck` releases the mutex. Ticks of `Tick` move the
groups' ages and the ticker.

`ServiceReload`. `BeginReload` is `ReloadConfig` up to the closing of connections, `Connect` and
`ConnectFails` build one connection, the actions on `Metric` are one round of its loop over the
metrics, one for each way through it, and `Publish` is its end. `Fail` is an early return or a
panic, which keeps what was done. A gauge is a record of its name, its labels and a number that
tells gauges of one identity apart, because a cycle may still set one that is no longer
registered. The configurations of a reload are values: handlers of metrics edit the shared object in
place (`api/handlers.go:434` and its like), but of the old configuration `ReloadConfig` reads only
the settings of connections, which they do not touch; that they may edit the metrics of the new one
while a reload walks them, a data race, is left out. `Unregistered` and `Conflicts` are how the Prometheus client library treats identities
and help strings. `cycle` is one `execute`: while `current` it walks the list that reloads change
in place, and once that list is replaced it goes on with the old one.

`ConfigPages`. `query` is the cache entry, `dialog` and `editor` the deletion dialog and the metric
being edited, with the index and the metric that the table showed. A call goes through phases:
sent, handled by the server (`Handle`), delivered (`Deliver`), which invalidates the entry.
`Outcome` is what a handler leaves behind, including the in-place change of a request that is
refused afterwards. `SaveAndApply` is three requests. A save of the settings sends the copy with `schedule` and
`prometheus` made anew of the fields, so `url` (`prometheus.url`), which has none, is erased.
`missed` remembers that server and copy
differ for a reason the console cannot see: somebody else's edit, a failed fetch, a refused change
that stayed, or a change that was answered while an older fetch went on. `page = "crashed"` is the
page of settings when its data arrive after it opened, since its hooks then change their number.

`DataSourcesPage`. A save clones the server's configuration, changes the clone and publishes it
(`Clone`, `Publish`, `Refuse`), so two that overlap may lose one change. A fetch may fail
(`FailFetch`), and then the old copy stays. `form` is the copy that a
`DataSourceForm` took when it was mounted. `DataSourceForm` and `MetricForm` model what happens
inside a form: tests and previews are numbered, and the flag that disables the button is what keeps
a late answer from standing as the newest.

`AlertPages`. The windows of a condition and the interval are kept as text and in milliseconds, of
which the evaluator reads the second. `Copied` is what the form makes of a rule, where an interval
that is not given becomes 5m, and `Stored` what the server makes of what was sent: `ms` anew from the
text, no state, and nothing of what the evaluator noted (`seen` stands for `last_evaluation`,
`last_triggered` and `trigger_count`). `HandleUnsaved` is a request whose save fails: the change
stays, and the console hears of a failure and fetches nothing.

`RoutesPage`. A load is two requests, each answered with its own moment; the page shows whichever
load arrives last. `CheckRoute` looks one channel of a route up, as each look takes the lock by
itself. A change whose write of the file fails (`HandleUnsaved`) stays and is answered as a conflict;
that a later `Reload` may then read the old lists back from the file is left out, since nothing is
claimed of the page once something went wrong.

`NotificationsPage`. `SetNotifierConfig`, `Marshal` and `WriteFile` are the server's steps of a save,
and no lock keeps two saves apart. `raced` says that the settings were changed while an image of them
was on its way to the file. A visit is one mounting of the page; calls of earlier visits go on and
nobody hears their answers.

`ChatPage`. A request's answer is a script of events, each of three lines; `Read` takes any number
of lines if `cuts`, else whole events. `WholeEvents` are the events all of whose lines came in one
read, as the parser's variables start empty at each. A complete answer is stored from within an
update of React's state, which runs at once or when the page renders next: `storing` is what waits to
be stored, and `Render` stores it. `strayed` says that a request outlived its visit, or that the
history was cleared while such an update waited, which then brings the answer back.

`Console` composes the pages as `App.tsx` mounts them: one at a time. Pages share no state but the
cache, and the two families of pages that share an entry are one page here, so a behaviour is a
session with one page and the state space is the sum of theirs. Pages that keep the same kind of
state share a variable, the variables a page does not use stay `None`.

Each definition that is called *Faulty* is a plausible mistake in the one after it; no
specification uses it, and `PROJECT.json` says which property notices it.

## Runs that pass

| Run | Instance | Shows |
|---|---|---|
| `storage` | 3 clients, 3 ids, 2 names | overlapping changes and saves, with failures and restarts, lose nothing, undo nothing and make no duplicates |
| `evaluator_solo` | 1 collection pass, 2 rules (durations 2 and 0), history of 2; create, delete, test | one pass at a time implements `AlertLifecycle`, and the history shows the firing rules |
| `evaluator_overlap` | a collection pass and an evaluate request, 1 rule with duration 1; create, update and delete, failing saves, restarts | a rule whose deletion was answered as done never returns |
| `evaluator_live` | 2 overlapping cycles, duration 2; test, enable and disable | lasting conditions fire, lasting recoveries resolve |
| `evaluator_scheduled` | scheduler and collection, interval 2, a rule that cannot be evaluated | the same for scheduled rules |
| `notifier` | 2 rules and groups, channel of 1, wait 1, check every 2, repeat every 2, 2 alerts per group, Stop at any time | no alert lost, each followed by a notice unless stopped, the evaluator always returns |
| `reload` | 4 configurations, 2 gauges, a metric that is a counter or a gauge, 2 connections, one cycle at a time | exposed, configured and collected agree, whatever the order of reloads, failures and cycles |
| `console` | each page by itself; two calls of the user, or one call and one thing that goes wrong; users who wait for every answer and users who hurry; forms with two tests and three changes; chats with three events | pages come to show what the server has, saves change what was meant, late answers do no harm, nothing spins for ever |

The bounds. Every race in the storage is between a change, another client's save and a third
party, hence three clients; duplicates need two rules and a spare id, which two names allow. The
evaluator's races are between two passes on one rule or a pass and a request; two rules let the
history overflow with one still firing. Durations and intervals of two ticks tell "at once",
"too early" and "due" apart; where deletions are the question a duration of one is enough. A channel of one is full at once. The four configurations differ
pairwise in what a reload looks at: a gauge that comes, goes and is switched, labels, help, a
counter, settings and connections; any may follow any, any number of times. Holders differ only by
their place, so two show all orders. `MaxTwins` bounds the gauges of one identity in use at a
time, as a guard of the actions on a metric (`HasSpare`): the instance never reaches it, as each of
its steps finds a gauge to spare. `MaxEntries`, `MaxOutstanding` and `MaxAlerts` cap the
history, the balance of notices and the number of alerts.

A race in the console is between two calls, or between a call and one event from outside
(another person's edit, a failure, a reload, a visit), so two of either (`MaxClicks`,
`MaxEvents`) show them all; rows that move need two metrics or rules and so do duplicates; two
metrics are given to the user who waits, as a hurried one hits the wrong row in any case. Fields
hold an old and a new value, which tells what a save changed. `SomeKinds` takes the kinds of sources
one or two at a time, which is enough since an editor belongs to one kind. Four messages do not fit
into a stored history of three, and the answers of `SomeScripts` end well, end in an error, and have
a tool's call before, between and instead of chunks. `Troubles` are an edit by another person,
a failed fetch, a server that cannot save, and the console loaded anew, each once.

Fairness. Go schedules every goroutine and its mutexes starve nobody, so a pass that can step
often enough does (`SF` on `Step`); the tickers keep starting cycles and scheduler passes, and time
goes on (`WF`). Requests, tests and stops are never required. In the notifier, `select` chooses at
random between ready cases, hence strong fairness for each of them; calls to channels return or
time out, hence weak fairness for the check. A reload that has begun and a cycle go on, since
queries and connections end by their timeouts, and the ticker starts cycles again (`WF`). (A SQL query
has no timeout of its own, so for those this asks that the database answers or drops the connection.) In the
console fetches are answered or fail and calls are handled and delivered in the end (`WF` on `Fetch`
and on `Serve`), as browsers and the server time out; users, failures and other people are never
required to act. `EndsSettled` needs no more, because every click is one of a bounded number.

What the properties leave out, beside what their names and comments say: `DeletedStaysDeleted` is
about deletions answered as done; the console's lists are claimed to be current only where the console
could know of a difference (`missed`, `stale`, `troubles`, `strayed` and `overtaken` fetches say where it
could not), so a refused request that left its change behind, a change that could not be saved or
another person's edit may stay unseen; the actions about saves are for a user who waits.

## Disagreements

Four runs are expected to fail; each checks one property that a comment or a document states.

| Run | What happens |
|---|---|
| `evaluator_disable` | a disable request is undone by a pass that holds an older copy |
| `reload_help` | a changed help is refused after the old gauge was removed |
| `reload_counter` | a configuration with a counter cannot be reloaded |
| `chat_cut` | an event of the assistant whose lines come in two reads is dropped |

Met while modelling, without a run of their own:

- two overlapping passes both fire a rule; one history entry then stays open for ever
  (`ActiveFiringMatchesRules` is checked for one pass at a time);
- a rule disabled during its wait keeps the wait and fires at once when it is enabled again;
- a crash between truncating and writing the file of rules loses them all;
- a POST with the id of an existing rule and then a rename give two rules of one name;
- a scheduled rule with interval 0 is evaluated once;
- a PUT without a state erases it, so an edit of a firing rule makes it fire again;
- after a restart a firing rule is resolved, for lack of a value;
- a full history drops firings that go on;
- a test request that is slow changes the wait by a value that is over, so a later firing may come
  before the rule's duration or after more than it;
- a deletion of a rule that was answered 500 is undone by the next restart;
- of two saves of the notification settings that overlap, the older may write the file last
  (`config.go:466-471`), and the file then differs from the memory without any failure
  (`FileIsCurrent` leaves this out);
- any save of the settings page erases a configured `prometheus.url` (`Settings.tsx:64`), so charts
  ask the local Prometheus from then on (`api/handlers.go:1038`);
- without a repeat interval, the default, a rule's second firing is never notified;
- a failed reload leaves gauges removed or added. A reload of the old configuration does not bring
  removed ones back, as their holders are unchanged, and added ones block a later reload of the
  same metric, by a refusal or a panic;
- a gauge that becomes a counter keeps its holder, so when it becomes a gauge again it is collected
  and not exposed, and a counter may take the identity of a gauge that a failed reload left, in one
  registry and not in the other (`ExposedIsConfigured` and `RegistriesAgree` leave out metrics of
  several types);
- connections that a failed reload built are later compared with settings they do not have, changed
  headers of a REST connection are not noticed, and an IoTDB connection is never renewed;
- a metric is deleted or switched by its index, so after somebody else's deletion the dialog
  deletes another metric than it names;
- a metric without `enabled` shows as on, and switching it "enables" it;
- the settings page crashes the console when it is opened before the configuration is there
  (hooks after an early return, `Settings.tsx:22`), and emptying the interval there resets the
  fields that were typed;
- a change that is answered while an older fetch of an entry goes on is not fetched again;
- an update of an alert rule from the form erases its state, its time of creation and what the
  evaluator noted (last evaluation, last trigger, count of triggers), gives a rule without an
  interval one of 5m, so that a scheduled one which was evaluated once goes on, drops labels with
  `#` or `=` once the labels are edited, and, if the rule was disabled meanwhile, enables it;
- the page of one rule calls the rule missing while the configuration is still loading;
- the settings of a notifier that is off and has no channels are answered as empty, so the next
  save loses its intervals (`api/handlers.go:916`);
- a comma cannot be typed into the lists of mentions (`NotificationSettings.tsx:371`);
- a second click on a save button creates a channel or a route twice, and ids of one second are
  equal; the answer of a save takes the user to the list, wherever he is by then;
- the verdict of a preview or a test stays when what was tested changes, and a renamed label takes
  the place of one of that name.

## Proofs

`AlertStorageProofs` proves, for any clients, ids, names and lengths of the list:

- `TypeCorrect`: `Spec => []TypeOK`.
- `Durability`: `Spec => []SavedWhenQuiet`, and `SavesAreNotStale`: `Spec => []ImageIsCurrent`.
  `SavedWhenQuiet` alone is not inductive: a client that has changed the list and not saved breaks
  the equality, and one that is writing restores it only if its image is current. The invariant
  therefore adds that images of writing clients equal the list (nobody changes it under their read
  lock) and that idle clients together with a successful last save leave nothing unsaved.
- `NoDuplicates`: with ids of the server's making, `Spec => []DistinctRules`. The invariant carries
  distinctness to the file and to every marshalled image, because a restart brings the file back.
  The lemmas on `Added`, `Updated`, `Without` and `WithEnabled` say what each operation preserves.

`AlertEvaluatorProofs` proves, for any rules, passes, durations, intervals and kinds of requests:

- `TypeCorrect`: `Spec => []TypeOK`. `TypeInv` adds bounds on the ages of the copies that passes
  hold: a copy is written back with the age it has.
- `NoResurrection`: `Spec => []DeletedStaysDeleted`, about deletions that were answered as done. The
  invariant adds that the file does not have these rules either, as a restart starts from it, and that
  ids are not given twice.

`AlertLifecycleProofs` proves `Implementation`: under `OnePass`, `Spec => ImplementsLifecycle`.
`OnePass` says that one collection pass runs at a time, that rules may be created, deleted and
tested but not edited, enabled, disabled or carried over a restart, and that no rule is created
firing. A second pass may fire the rule a second time, and disabling and enabling keep an old wait; a
restart forgets the value on which a rule fired. A collection is
an `Observe`, a tick a `Tick`, a transition of a rule a `Fire` or a `Resolve`, the two steps of a test
an `Ask` and an `Answer`, the judging of an unmet condition a `Recover`; all other steps stutter.
The notices alternate whatever the tests do; the duration and the unmet condition are promised for
rules that are not `misled`. What has to be known is that a pass decides by facts that are still true, so the invariant
`LifecycleInv` says:

- `MetricInv`: notices are balanced at 0 or 1, and a rule without a value has no wait;
- `StateInv`, `CopyInv`: a stored rule and every copy of it fire exactly when a firing notice is
  open, except for the moment between the notice and the write; an unused id has left no trace;
- `WaitInv`: while a condition is met the rule's wait is no older than the condition, and only a
  rule that the pass has still to judge may have a wait for a condition that is no longer met, unless
  a late test has left it;
- `VerdictInv`: the verdict in hand is about the value of now, because new values come only
  between passes; it is right unless a late test has changed the wait it goes by.

It was model-checked before it was proved, and has one lemma per action. On top of it,
`HistoryShowsTheFiring` proves `Spec => []ActiveFiringMatchesRules` under `OnePass`: a rule has one
open entry in the history exactly when a firing notice is open (`HistoryInv`), for any length of the
history, and the lemmas on `WithEntry` and `WithoutEntry` say whose entries an operation opens,
closes or drops.

`NotifierManagerProofs` proves, for any rules, groups, capacity and waiting times:

- `TypeCorrect`: `Spec => []TypeOK`.
- `AlertsAreKept`: `Spec => []NoAlertLost`. The two are inductive together: an alert that a full
  channel refuses takes its count back, which is a number only by the count. The lemmas on
  `Places` say how an append and a tail change the number of a group's alerts in the channel.

`ServiceReloadProofs` proves, for any configurations, names, labels and connections:

- `ReloadTypes`: `Spec => []TypeOK`. A name has one holder in each list and a registry one collector
  for an identity. The invariant `Typing` adds where a reload and a cycle are, and that the new list
  has holders only for metrics whose turn has come.
- `RegistriesNeverDiverge`: `Spec => []RegistriesAgree`. `Agreeing` adds that both registries hold
  collectors of the type their name has.
- `ReloadsConnect`: `Spec => ReloadConnects`. `Connecting` says, between any two connections of a
  reload, which are there and from whose settings they were built.
- `MetricsAreTheConfigured`: `Spec => []ExposedIsConfigured`. `Showing` relates the exposed gauges,
  during a reload, to the new holders and to those whose turn has not come.

All four use `MetricStep`: an action on a metric changes holders and registries at that metric's
name only, so an invariant about names is kept for all the others at once. The one assumption is on
the configurations: a list of metrics, not empty, with names that differ and connections that exist,
as `config.Validate` demands. The counterexamples of TLC came first here: `RegistriesAgree` was
stated for all gauges, and held in the run only because its one metric with two types has one set of
labels.

`ConsoleProofs` and `ConsoleQueryProofs` prove, of a session with any page, for any rows, settings,
ids and bounds on the calls (the bounds of the run are only its own):

- `VerdictsAreTheLatest`: a verdict carries the number of the last try, as the button is disabled
  while one runs, and a new try has a number of its own.
- `PageTellsItsCalls`: `PageInv` says that a flag is up exactly for the one call of this visit that
  raised it, and that calls of earlier visits cannot lower it.
- `SavedSettingsAreInTheFile`: `FileInv` says that, as long as nothing has failed and no settings were
  changed over an image on its way, a file that is behind the memory has a save on its way to it, and
  that images on their way are of the settings of now.
- `ChatLoadsWhileItRuns`: `ChatInv` says which requests there are: one that is heard at most, with
  the page's controller, and others that were aborted or outlived their visit.
- `AnswersComeInOrder`, `CompleteAnswersAreStored`: see below.
- `ConfigurationIsShown`, `SourcesAreShown`, `AlertsAreShown`: an entry of the cache is `Fresh` if it
  shows what the server has or a fetch is to bring it. The lemmas on `QueryCache` say when mounting,
  invalidating and answers keep it so; each page's invariant adds that an entry which is not fresh
  has an answer to come, or one of the reasons the property names.
- `WindowsAreTheTexts`: each edit of a form keeps text and milliseconds of a window together, and the
  server makes those of an interval; the invariant carries this through forms, calls, cache entries and the server's rules.
- `RoutesAreShown`: what the last load has brought so far is what the server has now, unless a change
  is answered whose load has still to begin; for a user who waits there is one load or call at a
  time.

The two theorems about the assistant's answers speak of a recursive definition: `AfterRead` is what a
read makes of the page, event by event. The induction is over the events of one answer:
`ReadKeeps` says that, after each of them, the messages are typed and apart, a message that streams
is the running request's and has parts only of events that are read (`StreamsUpTo`), and the stored
history is the page's (`Kept`). `MessagesInv` and `HistoryInv` carry this from read to read,
over sends, clears, visits and cut streams. `AnswersComeInOrder` holds for any answers.
`CompleteAnswersAreStored` assumes that no event comes after "done" (`DoneEnds`): `onComplete` is what
stores the messages, so a chunk after it would change the page and not the storage. The order of the
events is the AI service's, which is outside the repository; the answers of the runs end so too.
The conjuncts were model-checked first, with more clicks and answers than `Console` has (557,615
states).

A session is with one page, so each page's invariant is proved for the page's own steps, and
`Next` of the console gives no others (`ConfigSession` and its like). `ConsoleAssumption` says of
the constants that no row is called like a page, that `None` is no server, and that the stored rules
a session starts with have the windows their texts say, as all rules made by the console have. For the
theorems below it adds that the stores, settings and configurations a session starts with have the
form in which the server keeps them, and for the assistant that an answer is a sequence of the events
the console knows and that at least one message is stored.

`ConsoleSavesProofs` proves the action properties of the pages that change something: what the server
stores at the end of a call is what the user meant at its beginning. Each holds for a user who waits
for the answers, most of them for one who is also alone, and says so itself; what is proved is that no order of fetches, answers,
failures and edits breaks it, for any number of them. The proofs rest on the invariants of
`ConsoleQueryProofs` and add, for each page, why a form that was copied once is still true when it is
saved:

- `SavedSourcesAreMeant`, `OtherEditorsStayOpen` (`SourcesUse`): a save clones the configuration, so
  the clone must still be the server's when it is published; an open form shows, where nothing was
  typed, the server's settings (`Untouched`); an editor is busy exactly while a save of its connection
  is under way (`EditorsWait`).
- `SavedRulesAreMeant` (`AlertsUse`): an update sends all fields the form copied, so the rule must be
  the copy, but for what was typed, until the answer (`RulesMine`, `IsCopyOf`). It is about the fields
  the form has; the others are made anew, as said above. It is not enough that
  the cache is right in the end: no fetch may be under way when a change is called for.
- `SavedRoutesAreMeant` (`RoutesUse`): the list decides between create and update, so a dialog must be
  about an item that is in the store, or about a new id, whenever saving is possible (`StoresMine`).
- `SavedSettingsAreMeant` (`SettingsUse`): the form is the server's memory unless a save of it is
  under way, and a save differs from the memory where the user typed. The theorem assumes that some
  channel has a webhook at the start. This is needed: `handleGetNotifierConfig` returns a notifier that
  is off and has no channels as an empty one, so the intervals it had are lost with the next save.
- `ConfigCallsHitTheShown` (`ConfigUse`): rows are addressed by index, so the rows that are shown must
  be the server's whenever a call is handled (`CallsAreShown`). `SettingsAgree` follows the settings
  through the cache, the answer to a fetch and the form, where a save of the settings is the only
  excuse for a difference; `MetricsAgree` says that a difference which is known (`missed`) has an answer
  or a fetch to come that ends it, and that the metric in the editor is still at its row. `ConfigUse` was model-checked alone before it was proved.

`PagesAreTyped` proves `Spec => []TypeOK` for the whole console. The types of a page seldom hold by
themselves: that a form has the fields of its kind of source, that a call sends a rule the server can
store, or that an answer under way is a list, follows from what the invariants above say of
dialogs, calls and cache entries. So for each page a typed part (`ConfigTyped`, `SourcesTyped`,
`SettingsTyped`, `RoutesTyped`, `AlertsTyped`, `MetricTyped`, `SettingsAreTyped`, and `MessagesInv`
for the assistant) is kept together with the page's invariant, and the two imply its `TypeOK`. The
edits of every form are shown to lead from values of the form's type to values of it (`LabelsStayLabels`,
`ChannelsStayChannels`, `RoutesStayRoutes`, `DraftsStayDrafts`), and the entries of the
cache to hold nothing but what the server has answered (`EntriesStayEntries`, `NothingElseIsHeld`).

As an invariant of this kind compares a form with the server, an edit by somebody else (`others`,
`troubles`) breaks it at once, and so it breaks the property: the hazards list these cases.

Every invariant and every safety property of the passing runs is proved, some of them under the
assumptions named above. Only model-checked is everything about liveness, which is out of the
prover's reach: `HighFires`, `LowResolves`, `SenderReturns`, `WaitingAlertsAreSent`,
`ExposedIsCollected`, `EndsSettled`.

## Not modelled

What makes a condition true (trends, quartiles, deviations of measured numbers); the metric value
store and the Alertmanager client, which have no protocol of their own; the formats of messages,
files and labels; drivers and HTTP; route matching and the notification router, which nothing
constructs; the console's figures, charts, toasts, layout and generic components. A torn
`pendingAlerts` map (its accesses race) is not represented beyond the runtime's abort, which
`Restart` covers. Nor are handlers that edit a configuration while a reload walks it, and the lists of
routes being read back from a file that a failed write left behind. `PROJECT.json` lists every component with what is left out of it.

## Plan

What could be modelled next:

1. `ConfigServer`: the rest of the configuration API, with validation and defaults, composed with
   `ServiceReload`.
2. `AlertPipeline`: the evaluator composed with the notifier, from condition to notice.
