# A verification project for blop-browser

TLA+ models of the browser harness, the TLC configurations that check them on
small instances, and TLAPS proofs of what matters most. Paths such as
`src/session/control.ts` are relative to the repository.

Everything runs from this directory:

    tlc -config MCControl.cfg MCControl        # model-check one configuration
    tlapm SessionProofs.tla                    # check the proofs of one module

## 1. The system

blop-browser lets an agent and a person share one browser. A CLI command finds
or starts a *daemon* per named session; the daemon owns the browser, runs tool
calls against it, and leaves evidence (a trace and metrics) on disk. Everything
inside one process is JavaScript: one synchronous stretch runs at a time, and
every `await` lets everything else run. Between processes there are only files,
a port and signals.

### Inventory

| Component | State it keeps | Operations | What is hard about it | What makes it correct |
| --- | --- | --- | --- | --- |
| **Ownership** `src/session/control.ts` | owner state, request, lease, number of admitted operations, drain waiters | `runAutomation`, `requestTakeover`, `takeControl`, `resumeAutomation`, `close`, `onTransition` | the drain waiter is resolved in one turn and continues in a later one | a person never shares the page with a running operation; every takeover settles; nobody ends a takeover with the lease of another |
| **Daemon discovery, startup, shutdown** `src/cli.ts`, `src/cli/ipc.ts` | endpoint file, startup file, daemon processes, clients' last reading of both | `ensureDaemon`, `waitForDaemon`, `requestWithoutStarting`, `closeSessionState`, `destroySessionState`, `runDaemon`, `startRpcServer` | processes race through files; timeouts; stale files of processes that died | starts and destroys exclude each other; no endpoint outlives an orderly exit; every command and every closing daemon ends |
| **Settings** `src/cli.ts` | options, shell variables, a configuration file | `parseArgs`, `config`, the first configuration, `ensureDaemon`'s comparison, the daemon's own `main` | the same decision is taken twice, in two processes, with different options and environment, over a file that may change in between | the daemon is the one its command asked for; attaching needs consent; what `config` saves is what a plain command gets |
| **Recorded tool calls** `src/create-tools.ts`, `src/tools/batch.ts`, `src/tools/tabs.ts`, `src/tools/action-outcome.ts` | calls under way, active page, open pages, `awaitingPostTakeoverPageReconciliation` | `context.record` around every tool, `browser_run_steps`, `browser_select_page`, `browser_close_page` | calls overlap, with each other, with takeovers and with pages that close | one record per call; a quiet trace while a person has the page; batches stop at a failure |
| **Element references** `src/tools/references.ts`, `src/tools/page.ts` | references of the last snapshot and a navigation epoch, per page | collect, resolve, invalidate | a snapshot is put together from two views of the page, frame by frame, across awaits | references survive neither a takeover nor a navigation; a reference finds the element it was shown for |
| **Navigation guard** `src/tools/navigation-policy.ts` | registered policy and guard per context; checkpoints, attached Fetch sessions, pages under attachment | install, roll back; route handler, Fetch handler, attach, popup, settle | several hosts install at once and an installation fails half way; a navigation races the attaching of its page; blocked pages and calls overlap | a tool set is handed out only with its rules in force; no denied document is shown; the calls concerned hear of it |
| **Safety policy and tool registry** `src/tools/safety.ts`, `src/trace-recorder.ts` | none | `enforceBrowserSafety`, domain matching, approvals, three tables of tools | order of the rules, approvers that throw, tables in two files | the first applicable rule decides; the tables agree |
| **Runtime and stores** `src/cli/runtime.ts`, `src/cli/trace-store.ts`, `src/cli/metrics-store.ts` | recorders, one write queue per store, failures, the files | start, call, save, close | saves overlap; writes fail; crashes between renames; closes under way | what an answered call recorded is on disk, in order, for good |
| **Trace recorder** `src/trace-recorder.ts` | a ring of events, numbering, omitted count | `record`, `snapshot`, resume, `clear`; redaction of inputs | two bounds drop events; several processes number them; one budget of nodes is spent across a nested input | numbers name one event; the omitted count is exact; exports can be resumed; no record contains a sensitive text |
| **Session metrics** `src/session-metrics.ts` | totals, buckets per command, unlisted actions, flags | `recordAction`, `recordRetry`, `snapshot`, `validateSessionMetrics`, resume | exports between a retry and its action; ceilings | every export is accepted by the next process; `saturated` is honest |
| **Containers and egress** `src/session/playwright-container.ts`, `camoufox-container.ts`, `egress.ts` | one warm container per name, shared by all processes; a cache of measured egress per process | ensure, wait, connect, probe, tear down | every docker command is by name, and other starts, teardowns and reboots come between any two | the server listens, is of the right image, and the session is in the container it names |
| **Data, privacy, scope** `src/cli/data-store.ts`, `src/cli/privacy.ts`, `src/session/scope.ts` | the runtime directory | list, delete, report, derive paths | limits on what is looked at and listed | a list not marked as truncated is complete; what is said to be kept until an event is removed then and not before |
| **Critical points** `src/tools/lifecycle.ts` | a list of statuses | mark, report | none | – |
| **Screencast** `src/screencast.ts` | one sequence number, a stop flag | start, frame, stop | none | – |
| **Browser tools** `src/tools/*` (navigation, forms, mouse, ...) | none of their own | one Playwright call or a few | the browser | – |
| **Skill and update commands** `src/cli/skill.ts`, `update.ts` | files | install, check | none | – |

### How the components interact

    terminal --- cli.ts ---(endpoint file, startup file, TCP)--- daemon (runtime.ts)
                                                                    |
                       per call: record (create-tools.ts) --> runAutomation (control.ts)
                                     |            \--> safety.ts, navigation-policy.ts
                                     |--> trace-recorder.ts, session-metrics.ts
                                     \--> references.ts, the active page
                       after a call: trace-store.ts, metrics-store.ts (queued writes)
    a person: requestTakeover / takeControl / resumeAutomation over the same connection;
              every transition reaches a listener of create-tools.ts that kills
              references, asks for page reconciliation and writes to the trace

## 2. Modules

| Module | Models | Actions |
| --- | --- | --- |
| `BrowserOwnership` | the promise of the `runAutomation` comment: an operation starts only while the agent owns the browser, a person acquires it only when no operation is running | `Start`, `Finish`, `Yield`, `Acquire`, `Return`, `Shut` |
| `Control` | `src/session/control.ts`: each action is a synchronous stretch, `requestTakeover` being split at its `await` into `RequestTakeover` and `Granted`/`Rejected` | `Admit`, `Exit`, `RequestTakeover`, `Continue`, `TakeControl`, `ResumeAutomation`, `Close` |
| `DaemonLifecycle` | the commands and daemons of one named session; a command is a program counter, its kind, the endpoint it read last and the child it spawned; reading a file, pinging and acting on the answer are separate steps | `Issue`, `ReadEndpoint`, `Ping`, `Unlink`, `Lock`, `Spawn`, `Poll`, `PollPing`, `PollTimeout`, `Unlock`, `Connect`, `EndCall`, `Shutdown`, `StopObserved`, `StopTimeout`, `Erase`; `Launch`, `Publish`, `BeginClose`, `RetireFails`, `StopListening`, `ServerClosed`, `Exit`; `KillClient`, `KillDaemon` |
| `DaemonProofs` | theorems about `DaemonLifecycle` and `RetainedData` | |
| `CliSettings` | `parseArgs`, `readBrowserConfig`, `applyAntiBot` and `runConfigCommand` of `src/cli.ts` as operators, evaluated by a command and again by the daemon it spawns; absent values are `Unset`, thrown errors `Refused` | `Command`, `FirstConfig`, `Configure`, `DaemonStarts`, `Finish`, `CloseSession` |
| `SettingsProofs` | theorems about `CliSettings` | |
| `RetainedData` | names of a session's files, the list of a directory, retention, what a start, a close and a destroy remove, as operators | |
| `HarnessSession` | `context.record` on top of `Control` (it EXTENDS it and takes each of its steps together with what the transition listener does), batches, choosing and closing pages, page reconciliation, references, the order of the trace | `Refuse`, `RecordRefusal`, `Begin`, `Denied`, `Allowed`, `Act`, `SelectPage`, `BeginClose`, `CloseTarget`, `EndClose`, `BeginSnapshot`, `EndSnapshot`, `EndBatch`, `Record`, `Return`, `Takeover`, `Answer`, `EndSession`, `PageOpens`, `PageCloses`, `Navigate`; `Honoured` is the test a tool applies to a reference |
| `SessionProofs` | theorems about `Control` and, on top of them, `HarnessSession` | |
| `TraceRecorder` | the recorder, its export, resumption and the reader, as operators over records | |
| `TraceRedaction` | what is recorded of a call's input, its refs, and what the reader accepts, as operators over nested values | |
| `EvidenceLog` | the promise of `persistEvidence` in `src/cli/runtime.ts`: each store is a log that only grows, and what a call was told is saved is in it | `Open`, `Note`, `Store`, `Answer`, `Lose` |
| `SessionEvidence` | runtime and stores across daemons: calls, takeovers, queued saves, files renamed one at a time, failures, close, crash | `Start`, `Serve`, `Begin`, `Record`, `RecordTransition`, `Reject`, `Save`, `Answer`, `BeginWrite`, `Rename`, `FailWrite`, `Close`, `RemoveFiles`, `Exit`, `Crash` |
| `EvidenceProofs` | theorems about `TraceRecorder` and `SessionEvidence` | |
| `SafetyPolicy` | origin rules and their compilation (`Valid`, `Compiled`), the decision about a destination (`DomainAllowed`) and about a call (`Gate`), as operators; an address is a scheme, a sequence of labels and a port | |
| `ToolRegistry` | (EXTENDS `SafetyPolicy`) the content kind, policy class and trace kind of every tool, and which steps of a batch run (`Ran`), as operators | |
| `GuardInstallation` | installing the guard on a context: registration, sharing, the attaches `ready` waits for, rollback, closing | `Install`, `RouteAnswered`, `AttachLists`, `AttachEnds`, `AttachFails`, `Ready`, `Unroute`, `Detach`, `PageOpens`, `Navigates`, `PageCloses`, `ContextCloses` |
| `InstallationProofs` | theorems about `GuardInstallation` | |
| `PageReferences` | a collection of references await by await over a page that changes, finding an element again by its ref, and whether a dialog or another element blocks one, in the snapshot and before an action, as operators | `Begin`, `AriaSnapshot`, `Evaluate`, `Insert`, `Delete`, `PageNavigates`, `InvalidatePageReferences` |
| `WarmContainer` | starting a session in the shared container, one docker command at a time; the identity cache and the disclosure of the probe as operators | `Inspect`, `RemoveStale`, `Run`, `Restart`, `LookAtNetworks`, `JoinNetwork`, `ReadStartedAt`, `Poll`, `TimeOut`, `Refresh`, `FindPort`, `Attach`, `AskEgress`, `RunProbe`, `TakeAnswer`, `StopSession`, `TearDown`, `ForgetEgress`, `DockerFails`; `Listen`, `Die` |
| `CamoufoxContainer` | (EXTENDS `WarmContainer`) where the Camoufox service differs, and the next-state relation of both | `EnsureImage`, `FetchImage`, `CamoufoxInspect`, `LaunchOptions`, `CamoufoxConnect`, ... |
| `ContainerProofs` | theorems about `WarmContainer` and `CamoufoxContainer` | |
| `NavigationGuard` | (EXTENDS `SafetyPolicy`) the installed guard: checkpoints, the route handler, Fetch sessions, popups, closing pages | `CheckpointBegins`, `SettleViolation`, `TellOpener`, `AttachLists`, `AttachEnds`, `AttachFails`, `Navigate`, `Redirect`, `Load`, `Popup`, `PageCloses`, `ContextCloses` |
| `PageProofs` | theorems about what a page may show (`SafetyPolicy`, `ToolRegistry`, `NavigationGuard`) and what its references find (`PageReferences`) | |
| `SessionMetrics` | counters with a ceiling, buckets per command, export, validation, resumption | `RecordAction`, `RecordRetry`, `Store`, `Reopen` |
| `MetricsProofs` | theorems about `SessionMetrics` | |
| `MC...` | the instances TLC checks | |

A definition whose comment begins with *Faulty* is never part of a
specification. It is the neighbouring definition with a mistake in it (a
dropped guard, a forgotten reset), and stands there to show that a property is
sensitive to the code: put in the place of the definition it varies, it makes
TLC report the property named in `PROJECT.json` under `mutants`.

### Abstractions

* Messages, names, payloads and times are left out unless a property depends on
  them. A trace event is its number, the occurrence it stands for and a size,
  small, large, odd (an input the reader refuses) or huge (one that no export has room for);
  a metric volume is one number.
* `SafetyPolicy`: what `new URL` accepts is taken as given, host names are in lower
  case, labels have no dots, tools are known by their class, and the lists of rules are sets.
* `Control`: listeners return without calling back, as all listeners of the
  repository do. Fresh ids come from finite sets.
* `DaemonLifecycle`: tokens and message framing are left out, and the options of a
  command are `CliSettings`' matter. `listening` is a daemon whose port answers but whose endpoint is not
  written, `closing` one whose runtime is closing because it was told to, `retiring` one
  that closes by timer or signal, `draining` one that accepts
  no connection any more. Where the directories of a disposable session cannot be
  removed, `runtime.close` rejects: a shutdown then leaves a `stranded` daemon that serves
  on without a browser, and a close nobody asked for ends the process (`aborted`) with
  its endpoint in place. A starter learns at once that its child exited, but of a child
  killed by a signal only when the time is up, as `child.exitCode` is null. A browser that refuses a profile in use (`Exclusive`)
  is Chromium; other browsers need not refuse.
* `HarnessSession`: what a tool does to the page is left to the browser: it may
  pass or fail. Only the tools that choose and close pages are actions of their
  own; an index of the list of pages is the page that is there when the tool
  runs, whatever the agent saw when it listed them. A close that fails is
  swallowed: `EndClose` may find the page open. One element of
  every snapshot has only a positional name. The safety policy
  allows or denies without a reason. `Observed` invalidates the references of the
  open pages and of the active page, as the listener does.
* `CliSettings`: values that a parser rejects outright, session names and the
  parts of the command line that do not choose a browser are left out; a
  visibility is TRUE for headless. Starting a daemon is one step: `DaemonLifecycle`
  has the races of it.
* `RetainedData`, `TraceRedaction`: a name is a session and a kind, a text the set
  of the words in it, a key the class its pattern gives it.
* `PageReferences`: the role and name an element has in each of the two views is a
  key or none; Playwright's numbering of elements and its `aria-ref` selector are
  external. Focus and visibility do not rank references here. Collections of one
  page do not overlap (`HarnessSession` has those that do).
  Geometry is given as answers to the questions the code asks; the look before an action
  may fail or time out, and then nothing is in the way.
* `GuardInstallation`: `ready` and the handler's own attach are the same promise
  when they overlap; what the Fetch session then does is `NavigationGuard`'s.
* `WarmContainer`: docker is external. A container is a number and a boot of its
  server another, which stands for StartedAt; a published port belongs to a boot.
  `disturbed`, `outdated` and `cut` are history for the properties. One process
  caches in the run, so that two sessions share a cache.
* `NavigationGuard` begins when the guard is installed. A checkpoint begins on
  an open page.
* `SessionEvidence` has one counter in place of the metrics; `SessionMetrics`
  has the metrics themselves. A takeover is a call that records one transition, or
  two when it asks for the pause; `Control` says which are possible.

## 3. What TLC checks

### `control` (MCControl.cfg)

Three operations, three request ids, three lease ids: an operation can be
running when a takeover begins, another be refused and a third be admitted after
the resumption; a stale request, a stale lease and a fresh one exist together. A
fourth of any of them is in no situation that three do not reach, and the
theorems of section 4 cover all numbers.

* `HumanIsAlone`: nothing admitted runs while the session is paused or a person
  has it. The gap between the resolution of the drain waiter and the
  continuation that grants the pause is in the model.
* `NoLostWakeup`: a caller waits for the drain only while an operation that will
  wake it is running.
* `OnlyCloseDefeatsTakeover`: as an action property.
* `StaleLeaseStaysDead`: a takeover is resumed with the lease that was handed out for
  it and no other, and a lease stays in force until that very lease is given back or
  the session closes. `resumed` is the history of what was given back. Dropping the
  comparison of leases in `resumeAutomation` violates it.
* `ImplementsOwnership`: `Control` implements `BrowserOwnership` with
  `owner <- Owner` (pausing and paused are both "nobody") and `working <- running`.
* `TakeoverSettles`, under weak fairness of `Exit` and `Continue`.

### `daemon` (MCDaemonLifecycle.cfg)

Two terminals, two daemons, three commands of any kind, one process killed at
any point, a disposable session. Two commands suffice for every race over the
startup file; the third finds what the first two left behind. The safety
properties are proved for any numbers.

* `StartupIsExclusive`: the startup file separates starts from destroys, and is
  removed only by the command that made it.
* `OrderlyExitIsClean`: a daemon that ended in order is named by no endpoint; one that was
  killed or aborted (section 5) may be.
* `CommandsEnd`, `DaemonsStop`: with a stale startup file, a killed starter, a
  daemon that never answers, directories that cannot be removed.

The run also evaluates `RetainedData` for directories of up to four entries, of
which three are looked at and two listed: `ListsAreHonest` (a list that is not
marked as truncated is complete, a truncated one has reached a limit),
`DeletesMatchLists` (a deleted session is gone from the list, and nothing else, in
whatever order the directory is read afterwards),
`RetentionsAreKept` (what the privacy summary says is kept until the close or the
destruction of the session is removed then, and by nothing earlier, with the one
exception of section 5) and `SizesAreReported`.

Two statements of the documentation do not hold, even with nothing killed
(section 5).

### `settings` (MCCliSettings.cfg), `settings_join` (MCCliSettingsJoin.cfg)

Two commands of two terminals, each with up to three options and one shell
variable, over every configuration file, which a third party's `config` may
replace between the command's reading and the daemon's. Every rule of `parseArgs`
looks at three inputs or fewer, and the theorems below have no bound.

* `DaemonIsAsAsked`: the daemon has the browser, endpoint, visibility and profile
  its command settled on, although it parses other options in another environment.
* `AttachmentIsGranted`: no variable and no file stands in for `--attach-existing`.
* `SavedModeIsUsed`: what `config` wrote is what a plain command then gets.
  `LaterCommandsReuse`: without a configuration, a plain command reaches the
  Chromium session that an earlier one opened with options. README.md:430 ("Later commands
  reuse that connection without repeating `--cdp-endpoint`") makes no exception for
  configured ones; with a saved mode, a plain command wants that mode, and is
  refused by a session opened otherwise.
* `StartsFailOnlyOnAntiBot`: a daemon refuses what its command accepted only when it
  finds anti-bot mode on where the command came to Chromium. Section 5 has the case
  that the documentation promises and this property excepts.

`settings_join` refutes `ServedAsAsked` (section 5).

### `session` (MCHarnessSession.cfg)

A batch and two calls, each of which may be one of its steps or run beside it, a
takeover, two pages that open and close at any time, and one navigation of either
(`MaxNavigations`). The trace never exceeds the records of three calls and the
four transitions, so no other bound is needed. The two calls are
interchangeable. The view leaves out what cannot make a difference to the
invariants: the names given out, references that are no longer honoured, and the
epochs, which only ever grow and so never make such a reference valid again.

* `OneRecordPerCall`: refused, denied, failed, without a page or in a batch, a
  call is recorded once. `BatchStopsAtFailure`: no step after one that did not
  pass, and the batch's record comes last.
* `PauseIsQuiet`: between the record of the pause and that of the resumption
  there is no record of a call that reached the page, although a call is
  recorded after awaits.
* `StaleRefsDie`: what a tool accepts as a reference was read after the latest
  pause or resumption and stored under the document the page still has, also for
  a snapshot that was being collected when the takeover was requested.
  `NeverOnLostPage`: no call works on a page that a person closed.
* `NobodyIsStuck`: a call that has begun can take its next step, or is a batch
  whose step is under way, also when a takeover cuts it short; how long a step
  takes is the browser's matter, so nothing is said of fairness. It also compares
  `CanStep`, which says when a call can go on and which the proofs use, with
  ENABLED.

### `references` (MCReferences.cfg)

Two collections, of the page or of what is inside a target of it, and two changes
at any await: a page of two elements with a third in its iframe, or one without
an iframe but perhaps with a modal. Two elements of one key are what it takes to
confuse two views, and the second collection is the one that replaces stored
references; two changes let one fall into each.

* `UnmistakableIsExact`: while the page stands still, a ref finds the very element
  it was shown for, if the accessibility tree shows all of its namesakes and the ref
  is of the frame of the entry. Without the first condition the join by order within a
  key can go wrong; the second excepts what a scope inside the iframe is given of the
  page around it; and of a page that changes between the two looks nothing is said
  (section 5 has all three).
* `OldRefsFindNothingNew`: refs are numbered anew in each document; a ref that is
  still accepted finds an element its own collection saw, or nothing. A page that
  navigates within the collection is excepted, as the code does (section 5).

`LooksAgreeWithin2` is evaluated on every element under up to two dialogs: an action
on what the snapshot showed as free is tried, and one on what it showed as blocked
is refused, if the look before the action gets an answer.

### `evidence` (MCEvidence.cfg)

Two calls at a time, one of which may be a takeover, two daemons, one crash, one write
refused. No call begins once a call or a close has left an event (`MaxRecords`, which leaves
starts aside): two overlap in the first daemon or, if that one recorded none, in the
second; after a daemon that recorded calls the next notes its start and its close. All
this over a recorder that keeps two events and an export that holds one large one: the
ring and the byte ceiling both drop events, and a crash can separate the two
renames of the trace. The call that may be a takeover leaves, when it is none, an
event larger than an export. The code admits it: input keys are recorded as they
are (`src/trace-recorder.ts:388-395`), and a request may have 1 MiB where an export
has 768 KiB. Such an export has no events, and the process that resumes it
numbers from one again.

* `AnsweredIsOnDisk`: what an answered call recorded is in every file, among the
  events or counted as omitted, and stays there, through later saves that overlap,
  crashes and restarts.
* `NumbersNameOneEvent`: no number is ever on disk for two events, as long as the
  numbering has not begun again; `origin` is the history of where it did.
  `OmittedIsExact`: counted from there, the recorder's numbers have no gap after
  what it omitted.
* `OnlyInputsAreRefused`: whatever was dropped, refused by the disk, lost or numbered
  anew, a stored trace is in order, short enough and small enough for the
  reader. What it may be refused for are the inputs of calls: too many nodes over all
  events, keys too long, lists too deep (`InputsAccepted`).
* `QuietDiskIsCurrent`: with no save under way and none failed, the files show
  what the recorders know. `CloseCompletes`: whatever the disk refuses.
* `ImplementsLog`: the runtime with its recorders, queues and renames implements
  `EvidenceLog`. A store counts as the entries its main file shows (`Shown`), what
  the process knows as the entries its recorder has (`Reached`), and what is
  promised as the most any answered call of the store was told. This adds
  to `AnsweredIsOnDisk` that no save takes anything back from the disk, answered
  or not, and that a daemon's log goes on exactly where the disk ends: nothing
  is skipped, and no place is used again, after a crash.

That a stored trace can always be resumed (`StoredTraceResumes`, docs/action-traces.md)
is not so: `evidence_resume` refutes it with the code's own limits for nodes, one key of
more than 160 characters does so at once, and MCEvidenceOversized.cfg refutes
`NumbersNeverRepeat` (section 5).

The run also evaluates `TraceRedaction` on nested inputs, deeper and wider than its
limits: `SecretsStayOutOfTraces` (no recorded text contains one given
under a sensitive key), `TracesAreReadable` (what is recorded of an input without
lists in lists and without keys of more than 160 characters is accepted by the next
process; of one with either it need not be), `TracesAreBounded` and
`RefsAreFoundOnce`.

### `navigation` (MCNavigation.cfg)

Two calls that overlap, two pages of which the second is a popup, four requests:
enough for a navigation, a redirect, a popup and a navigation of the popup. The
destinations are a host and its subdomain; the three policies deny the
subdomain, the host, or both (`SmallPolicies`), so that every answer of
`DomainAllowed` occurs. The run also evaluates `GateFollowsReadme`: `Gate` decides
as the README of the repository says, for every category, answer and rule; and
`TablesAgree`: what two of the theorems of `PageProofs` say of the tables.

* `NoDeniedDocument`: whichever way navigations and attaching interleave, when
  the browser attaches every page. MCNavigationWatch.cfg lets it refuse (section 5).
* `BlockedIsReported`: a call on the page of a blocked navigation is denied, as is
  every call under way when the first document of a popup is refused, unless the
  context was closed. `due` is the history of who must hear.
* `WaitersProceed`: no allowed request hangs on the attaching of its page.

### `installation` (MCInstallation.cfg)

Two hosts build tool sets on one context, with equal, different or no rules, while
two pages open and close, the context may close, and the browser refuses one
command: one host begins, the other shares, waits or is turned away, and the
rollback of the first runs while its other attach is pending.

* `HandedOutIsInForce`: who gets a tool set asked for the rules that are
  registered, and with rules the guard is ready, its route handler is on and every
  page that was open at the beginning, and still is, has its requests paused.
* `SetupEnds`: nobody waits for ever for an installation begun by another.

### `container` (MCContainer.cfg)

Two starts of the Playwright or of the Camoufox service, for one image or for two,
with or without a shared network, over whatever container an earlier run left
behind, with one death of the server or one teardown. A third start would find
what two leave, which the initial states already contain.

* `UndisturbedStartConnects`: a start that no removal and no death came across
  reaches a server of the identity it returns, and that server listens: a log line
  of an earlier boot is never taken for this one's.
* `ServerMatchesClient`: a session runs in a container of the image its caller
  asked for, unless a caller with another image replaced the container meanwhile.
* `SessionIsWhereItSays`: while the container a session reports exists, the session
  is in it and the egress it reports was measured in it.

### `metrics` (MCSessionMetrics.cfg)

Two actions and a retry over any number of processes, with a ceiling of two on
counters and on a duration: an action takes one, or three, which is shortened to two,
and the sum of two may be clipped, or no span of time at all (it ended before it began,
or is no number), which counts as none and sets the flag. An output has a size or is
not text and has none. The second restart clips the number of segments.

* `ExportsAreAccepted`: the cross-checks of `validateSessionMetrics` hold of every
  export, also of one written between a retry and its action. It is stated for
  aggregates whose sums are within their ceilings: once a counter is clipped the
  parts no longer add up, and the validator may refuse the export. That takes
  2^53 - 1 of something, so it is noted and not treated as a defect.
* `UnflaggedIsExact`: `truth` counts without any ceiling; unless `saturated` is
  set the recorder agrees with it, also after any sequence of restarts.

### Fairness

* `Exit`, `CallStep` of `SessionEvidence`: operations end. Playwright calls, the calls of the policy
  and requests over the connection have timeouts (`requestDaemon` in
  `src/cli/ipc.ts`, the action timeouts of the tools). Nothing makes a person
  acquire or give back control, or a host make a call: those have no fairness.
* `Continue`, `Answer`: the event loop runs what is ready.
* `Finishing` of `SessionEvidence`: what a daemon that was told to close has left to do
  goes on while any of it is ready. It is one condition, in no order: no call and no
  store is owed its turn.
* `ClientStep`, `DaemonStep`: a process that is not killed runs. `PollTimeout` has
  strong fairness: the deadline is tested at the head of a loop that leaves and
  re-enters that state, and time passes whatever the loop does. The idle timer
  and signals (`BeginClose`) have none.
* `WriteStep \/ FailWrite`: a write ends, well or badly.
* `RouteAnswered`, `AttachLists`, `AttachEnds`, `AttachFails` of `GuardInstallation`: the
  browser answers every command, if with an error; `GuardMoves`: promises settle.
* `AttachStep`: the browser answers what the guard sends, or the page is closed.

## 4. What is proved

No theorem bounds the numbers of operations, requests, leases, terminals,
daemons, commands or crashes. The assumptions are the named `ASSUME`s of the
modules: `FiniteOperations` (the counter of admitted operations is the size of a
set), `NoneIsNoValue`, `NoneIsNoProcess` (the value for "nothing" is none of the
others), `CommandsAreKinds`, `ModesAreBoolean`, `BoundsAreNatural`; of `CliSettings` that "unset"
and "refused" are no values, names or records and that the default endpoint is an
endpoint; of `GuardInstallation` that "none" is no host and no rule; of `TraceRecorder`
that limits are numbers and the recorder keeps an event (`RecorderBounds`); of `SessionEvidence` that a call is neither the start nor the close
(`SaversAreTold`) and that "no file" is no content (`NoneIsNoFile`); of
`WarmContainer` that the starts are finitely many and "no container" is none
(`StartsAreFinite`, `NoneIsNoBox`); of `SessionMetrics` that the commands are
finitely many and "nothing" is no number, no verdict and no aggregate
(`CommandsAreFinite`, `NoneIsNothing`); of `PageReferences` that something may be
exposed, that pages begin with finitely many elements, and that "nothing" is no role
and name (`SomeAreExposed`, `FramesBeginSmall`, `NothingIsNoKey`).

### `SessionProofs`: the control protocol

| Theorem | Property |
| --- | --- |
| `TypeCorrect` | `TypeOK` (no run lists the type invariants) |
| `HumanAlone` | `HumanIsAlone` |
| `WakeupsAreNotLost` | `NoLostWakeup` |
| `PauseOwnership` | `PauseHasOneOwner`: a pausing session has exactly one call that can finish the pause (proved only) |
| `RequestAgreesWithState` | `RequestMatchesState`: request, time stamps and lease agree with the state (proved only) |
| `TakeoverIsNotSuperseded` | `OnlyCloseDefeatsTakeover` |
| `StaleLeases` | `StaleLeaseStaysDead` |
| `OwnershipImplemented` | `ImplementsOwnership` |

`HumanIsAlone` is not inductive: `Granted` does not look at the counter again.
The invariant `IInv` therefore carries that the counter is exact
(`CountIsExact`, from the cardinality lemma `RunningCount`), that a resolved
waiter of a pausing session means a drained session (`ReadyMeansDrained`), which
needs that nobody is admitted while pausing and that only the pausing request
has a waiter (`PendingOwnsPause`, `PauseIsPending`), that a waiter has somebody to
wake it (`DrainingHasWork`) and that a pause stays drained (`QuietWhenPaused`).
`StaleLeases` has an invariant of its own, `LBook`: what was handed out and what was given
back agree with the lease in force, which rests on `resumeAutomation` comparing both the
request and the lease.
The refinement maps each step to a step or a stutter; only `TakeControl`
needs the invariant, to find `working` empty.

### `DaemonProofs`

| Theorem | Property |
| --- | --- |
| `TypeCorrect` | `TypeOK` |
| `StartupExclusive` | `StartupIsExclusive` |
| `OrderlyExit` | `OrderlyExitIsClean` |
| `SpawnsAndDestroysExclude` | `NoSpawnDuringDestroy`: no daemon is spawned while a destroy holds the startup file (proved only; it follows from `StartupIsExclusive`) |
| `ListsAreHonest` | `ListIsHonest`, for directories of any length and any limits |
| `DeletesMatchLists` | `DeleteMatchesList`, likewise |
| `RetentionsAreKept` | `RetentionIsKept` holds but for the log of an attached browser opened as disposable |

`StartupIsExclusive` is not inductive: a command that waits for somebody else's
daemon is at the same place as the one that started it, and only its kind and
its child tell the two apart. `WellPlaced` says what a command at each place
remembers; `NamedWasPublished` says that an endpoint names a daemon that got as
far as publishing, which is why a launch that fails leaves no endpoint behind.
The steps of a command are proved through a few lemmas on the shapes its record
can take (`GoesKnowing`, `Goes`, `StartsAnew`, `Leaves`), one lemma per action.

The theorems about the data store need only that the two limits are numbers. The
code fills a list in a loop that stops at either limit; `List` says of which
positions the loop gets to, and its proofs take the last of them or the first one
left out (`HasLeast`, `HasGreatest`, `Foremost`) where the loop would ask for an
induction. A list that is not marked as truncated has seen the whole directory
and has room for what is owned (`ListFacts`), so that deleting can be argued
about sets of names, in any order of reading.

### `SettingsProofs`

| Theorem | Property |
| --- | --- |
| `TypeCorrect` | `SettingsTypeOK` |
| `DaemonsAreAsAsked` | `DaemonIsAsAsked` |
| `AttachmentsAreGranted` | `AttachmentIsGranted` |
| `SavedModesAreUsed` | `SavedModeIsUsed` |
| `LaterCommandsDoReuse` | `LaterCommandsReuse` |
| `FailedStartsAreAntiBot` | `StartsFailOnlyOnAntiBot` |

The run bounds options and variables; the theorems do not. The lemma that carries
them is `DaemonAgrees`: whatever a command wishes, in whatever shell and with
whatever configuration the daemon then finds, the daemon comes to the same
settings or refuses because of anti-bot mode. `IInv` has to remember what those
wishes are like: an endpoint belongs to Chromium (`Wanted`), and a startup that
names one has the consent of its command (`Granted`). `Consistent` is what `config`
establishes of the file it writes (`WrittenIsConsistent`) and what a plain command
needs to read it back (`ConsistentIsUsed`).

### `SessionProofs`: calls and batches

| Theorem | Property |
| --- | --- |
| `SessionTypes` | `SessionTypeOK` |
| `CallsProceed` | `SomeStepIsDue`: a call that has begun can take its next step, or is a batch with a step that can (proved only; the part of `NobodyIsStuck` without ENABLED) |
| `SessionIsControlled` | `SessionSpec` implies the `Spec` of `Control`: what is shown of `Control` holds of the session |
| `OneRecordEach` | `OneRecordPerCall` |
| `BatchesStop` | `BatchStopsAtFailure` |
| `PausesAreQuiet` | `PauseIsQuiet` |
| `StaleReferencesDie` | `StaleRefsDie` |
| `LostPagesAreLeft` | `NeverOnLostPage` |

The run has three calls, two pages and one takeover; the theorems have any number
of each. The proof first shows that every step has one of five shapes (a call
starts, advances or returns, the owner changes, or neither: `Shapes`), which is all
that records, batches and pauses depend on. What ties the trace to the owner is
`PauseFit`: whoever is still inside a call, or may yet begin one, has no pause
behind him that was not lifted. It rests on the invariant of `Control`, by
which a pause is granted only to a session where nobody runs. For references,
`HandoverFit` relates places in the trace to `revision`, and `StaleFit` says of a
snapshot under way what must hold of what it will store. `LostFit` says that
while the active page is one a person closed, no call works, and the next one
will look at the pages (`awaiting`).

### `EvidenceProofs`

| Theorem | Property |
| --- | --- |
| `EvidenceTypes` | `EvidenceTypeOK` |
| `AnsweredEvidenceStays` | `AnsweredIsOnDisk` |
| `EvidenceIsALog` | `ImplementsLog`, for a session that keeps its files (`~Disposable`) |
| `NumbersStand` | `NumbersNameOneEvent`, for a session that keeps its files (`~Disposable`): a disposable one removes its trace and begins at one again |
| `OmissionIsExact` | `OmittedIsExact` |
| `QuietDiskShowsAll` | `QuietDiskIsCurrent` |
| `StoredTraceIsReadable` | `OnlyInputsAreRefused`, if the reader takes as many events as the recorder keeps (100 and 100 in the source) |

The run has two calls, three records and one crash; the theorems have any numbers of
calls, records, daemons, crashes and refused writes, and any limits of recorder and
export, also limits that an event is larger than.

`Keeps` says that a recorder has the events it may keep, `Whole` the same of an export
and of its bytes. `Total` counts what either accounts for, kept or omitted:
recording adds one to it, exporting and resuming leave it alone, and `Numbered` ties it
to the next number, from the `origin` of the numbering. The greatest number of
events that fit exists because none do (`HasMax`).
None of the properties is inductive. What makes them so is an order along the way
of a store, from its main file through the queued writes to the recorders:
what comes later shows no less (`Ordered`). A rename therefore never takes back
what a file showed, and a call that waits for its answer is covered by its queued
write, by a failure, or by every file (`Answers`). Two files of one write agree once
both are renamed (`Writing`), and the newest write is up to date unless some call
has still to save (`Latest`). For the numbers, `Known` collects what every place in the trace
was given to, in memory, in the queue or on disk: a new place is above all of them,
and a crash only forgets. An event larger than an export empties the export and begins
the numbering again; the places behind the numbers go on.

The refinement rests on the same invariant. A rename shows what its write exported,
which is no less than the file showed and no more than the recorder has (`Ordered`):
it is a `Store` (`RenameStores`), and a rename of any other file than the main one
a stutter. An answer tells a call of what every file has (`Answers`, `AnswerIsKept`), every
record adds at most one entry to a log (`RecordedIsNoted`), a start resumes what is
shown and adds its own entry (`StartOpens`), and the end of a process, orderly or
not, only forgets (`ForgottenIsLost`).

### `InstallationProofs`

| Theorem | Property |
| --- | --- |
| `TypeCorrect` | `InstallTypeOK` |
| `HandedOutInForce` | `HandedOutIsInForce` |
| `SharersAgreeAlways` | `SharersAgree`: hosts with tool sets on one open context have the same rules |

`HandedOutIsInForce` is not inductive. A host that shares a guard in preparation is
answered later, by `Ready` or `Detach`, when other guards may have come and gone:
the invariant says that a guard other than the registered one is rolling back or
has failed, that whoever waits does so for a guard with the rules it asked for,
and that a page which a starting guard waits for is under attachment or done.

### `PageProofs`: the guard

| Theorem | Property |
| --- | --- |
| `TypeCorrect` | `GuardTypeOK` |
| `DeniedIsNeverShown` | `NoDeniedDocument`, if the browser attaches every page (`~CdpFails`) |
| `BlockedCallsAreDenied` | `BlockedIsReported` |

A document may be the end of redirects that only a Fetch session sees, so the
invariant speaks of navigations: what is under way is allowed (`NavIsAllowed`);
what has left the route handler is on a page the guard has listed
(`GoingIsListed`); and a listed page has its requests paused, which is where the
browser's consent comes in (`ListedIsFetching`). That consent is needed:
MCNavigationWatch.cfg has the counterexample without it. For the second property,
`DueIsKept` says that a call which is due an error carries its violation until it
settles. The constants are only required to have a first page, a bound on the
hops and a value for "nothing" that is neither a checkpoint nor a navigation.

### `PageProofs`: policy and tables

| Theorem | What it says |
| --- | --- |
| `DenyTakesPrecedence`, `StricterAllowsLess` | an allowed address matches no deny rule and, when there are allow rules, one of them; a stricter policy allows less, where a first allow rule narrows and further ones widen |
| `SpellingIsIrrelevant` | a rule matches its origin whatever the final dot and the default port |
| `ReadOnlyDispatchesNothing`, `AskingFailsClosed`, `ApprovalLiftsNoDenial` | what passes the gate in read-only mode, when an approval is needed, and when something was denied |
| `GatedIsTracedAsWrite`, `ReadOnlyWrites`, `TrustedIsNotGated` | the tables of tools agree: what the policy gates is a write in the trace; a read-only session changes only the address, size and choice of its page and its own records; no gated tool has a trusted result |
| `ReadOnlyBatchWrites` | nor does a batch get around it: of the steps a batch of a read-only session runs, those the trace calls a write change only the address, size and choice of the page and its own records |

They hold for every set of labels that has the empty one (`EmptyLabel`); the
second row rests on what `SubSeq` and `\o` do, from the library's theorems about
sequences.

### `PageProofs`: references

| Theorem | Property |
| --- | --- |
| `ReferenceTypes` | `ReferencesTypeOK` |
| `Unmistaken` | `UnmistakableIsExact` |
| `OldRefs` | `OldRefsFindNothingNew` |
| `LooksDoAgree` | `LooksAgree` of every layout, with any number of dialogs (the run has two) |

The run has three elements, one role and name, two changes and two snapshots; the
theorems have any elements and keys, pages that begin with any number of them, and
any number of changes and snapshots, of the page or of any part of it. That the
property has to except refs which a scope in the iframe gets of the page around it is
what MCReferencesScope.cfg shows.

A ref is joined to an element by counting: the queue of a key has as many refs as
the collector has entries of it, and each entry takes the one of its rank. The proof
that this finds the right one is about positions. `PlacesInOrder` says that the
position of rank *n* in a set of positions is the *n*th in order; `RanksCorrespond`
that where two sets of one size are mapped to each other in order, ranks agree. An
entry that cannot be confused maps its namesakes into those of the accessibility
tree, the counts are equal, so the ranks are (`MoreFits`). `RefIInv` then carries this
from await to await: every entry found so far finds its element as long as nothing
changed since the collection began (`LookFits`, `StatesFit`), and what its ref names
was met by that collection as long as the document is the same (`LookHasMet`,
`StatesHaveMet`), because a number is never given twice in a document (`NumbersStay`).

### `ContainerProofs`

| Theorem | Property |
| --- | --- |
| `ContainerTypes` | `ContainerTypeOK` |
| `UndisturbedStarts` | `UndisturbedStartConnects` |
| `ClientsAreMatched` | `ServerMatchesClient` |
| `SessionsAreWhereTheySay` | `SessionIsWhereItSays` |

The run has two starts in one process and one mishap; the theorems have any finite
number of starts, any processes and images, and any number of deaths and teardowns,
for either service, with or without a network.

A start is a dozen commands, each of which finds the host as it is by then. The
invariant therefore says, for every place in a start, which of the earlier answers
still hold. `Followed`: unless something was removed or died, the container is there
and up, joined once that was seen to, in the boot whose start time was read, with a
line of that boot once the wait is over, and with the identity, path and port found.
`Matched`: it is of the caller's image unless another image took the name. `Placed`
holds whatever happened, because containers, boots and probes are numbered upwards:
the browser is in no older container than the one inspected (`id <= conn`), and a
probe ran in no older one than it was asked for (`Measured`). As long as the reported
container is the newest there is nothing between the two, which is why the cache may
be keyed by an identity although a probe is run by name. A step leaves the other
starts where they are (`PassedByFits`): what it does to the container keeps to
`Followed` and `Matched`, or it sets the start's mark. `ContainerTypes` also needs
that a start makes at most one container (`Bounded`).

### `MetricsProofs`

| Theorem | Property |
| --- | --- |
| `MetricsTypes` | `MetricsTypeOK` |
| `Unflagged` | `UnflaggedIsExact` |
| `Accepting` | `ExportsAreAccepted` |

The run has one public command beside the snapshot, two actions, one retry and a
ceiling of two; the theorems have any finite set of commands, any ceilings, and any
number of actions, retries and processes, with any durations and sizes.

Neither property is inductive: an export is accepted because of everything that was
recorded in it, and a flag answers for every counter that was ever cut off. `Tells`
relates an aggregate to the sums nobody cut off. Unless it is flagged it has them
(`Unclipped`); and as long as these sums are within the ceilings it has them anyway
(`Faithful`) and is `Sound`: every bucket agrees with itself, the buckets and the
unlisted actions add up to the totals, and the ranges of the buckets lie within
those of the totals. `IInv` says so of the recorder and of the file. A sound
aggregate passes every cross-check of the reader (`SoundIsAccepted`), and one that
tells the truth within the ceilings has room for what comes next (`RoomIsLeft`).

The reader adds up counters over all commands. The sums are folds, and what they do
when one command's counter grows (`SumMoves`), or compared with one of their terms
(`SumCovers`), is proved from the well-foundedness of the numbers (`NumbersClimb`,
`SetsClimb`), without the induction theorems that the prover cannot use.

### Only model-checked

Liveness (`TakeoverSettles`, `CommandsEnd`, `DaemonsStop`, `CloseCompletes`,
`WaitersProceed`, `SetupEnds`), because fairness is out of the prover's reach;
`NobodyIsStuck`, because ENABLED is (`CallsProceed` proves what it says in terms
of `CanStep`, and TLC checks that `CanStep` is ENABLED); and what recursive
redaction amounts to (`TraceRedaction`), which the prover cannot express. Every other invariant of a run is a theorem.

## 5. Where the documentation and the code disagree

Two are runs that end in a counterexample; `PROJECT.json` quotes the lines.

1. `evidence_resume`: recorder and reader bound the nodes of recorded inputs
   differently (per event, per file). 54 large calls make a trace that the next
   daemon refuses, and the session does not open again.
2. `settings_join`: `ensureDaemon` refuses a command that wants another browser than
   the running daemon has, but a command that finds another one's startup file
   waits for that daemon and uses it without the comparison: a command that asked
   for a managed browser can work in the profile another one attached to.

The others have a configuration of their own beside the runs and end in a
counterexample as well:

3. MCDaemonFindable.cfg: `RpcServer.close` removes the endpoint file of the session
   without looking whose it is. After a start that timed out, two daemons can
   exist, and the exit of the first removes the endpoint of the second.
4. MCDaemonErase.cfg: `destroy` confirms the shutdown of the daemon that the endpoint
   file names. A daemon still launching is named by no file; its profile is
   erased while it opens it.
5. MCEvidenceDisposable.cfg: a call that ends during the close of a disposable session
   writes its evidence after the directory was removed.
6. MCNavigationWatch.cfg: a page whose `Fetch.enable` was refused is taken for
   attached, and redirects of its navigations are inspected by nobody.
7. MCHarnessReuse.cfg: positional names are counted in the stored snapshot of the page.
   Snapshots that overlap count from the same number, and a takeover deletes the
   count, so a name is given to a second element.
8. MCContainerUpgrade.cfg (`StartsKeepSessions`): a stale container is removed by name
   after an inspection; when two starts upgrade at once, the slower one removes the
   container the faster one has just made, and its session with it.
9. MCInstallationRollback.cfg (`OneRuleSet`): a rollback detaches the pages listed when
   it gets there; a page listed later keeps a session that pauses requests under
   rules which no tool set in use has.
10. MCReferencesScope.cfg (`UnmistakableInAnyFrame`): a snapshot of a target inside an
    iframe joins the refs of the main frame with the entries of the iframe: a button of
    the iframe can get the ref of a namesake in the main page.
11. MCEvidenceOversized.cfg (`NumbersNeverRepeat`): one call whose input has a key longer
    than an export empties the export: its answered evidence, and all before it, is only
    counted as omitted, and the next daemon gives the number 1 to another event
    (`src/trace-recorder.ts:209`, `215-219`).
12. MCCliSettingsAntiBot.cfg (`AntiBotOffOverrides`): README.md:165-167 says that "an explicit
    `--browser`, [...] or `--anti-bot` option overrides the saved default for a new session",
    and README.md:461-462 that "`--anti-bot off` returns later sessions to Chromium". Over a
    file that says "on", the command comes to Chromium and spawns a daemon with
    `--browser chromium` and without the option; the daemon reads "on" from the file again
    and refuses to start.

Observed on the way and not stated as a property:

* `destroy` erases once the daemon stops answering, while a call that was under way
  may still write evidence.
* If the directories of a disposable session cannot be removed, `runtime.close` rejects:
  during `shutdown` the timer that closes the server is not armed, and the daemon serves
  on without a browser until another close; at a timer or signal nobody handles the
  rejection, and the process ends with its endpoint file in place (`src/cli.ts:1338-1363`,
  `1479`). `CommandsEnd` and `DaemonsStop` hold all the same.
* One key of more than 160 characters in one input makes the reader refuse the whole trace
  (`src/cli/trace-store.ts:227`), so that the session does not open again;
  `TracesAreReadable` has such an input.
* Where the shell says `BLOP_BROWSER_ANTI_BOT=on`, `--anti-bot off` is lost on the daemon as
  in 12.
* `open --profile disposable` removes the profile of a closed persistent session of
  the same name before it starts its daemon (`src/cli.ts:1104`).
* Lists directly within lists do not count towards the depth of what is recorded but
  do in the reader (`src/trace-recorder.ts:414`, `src/cli/trace-store.ts:212`);
  `TracesAreReadable` has such an input.
* A reference whose namesake only the accessibility tree shows, or hides, can be
  joined to the wrong element (`RefIsTheElementShown` does not hold), and a
  navigation between the two looks has old refs stored under the new epoch.
* For a browser that is attached to and opened as disposable, the privacy summary
  says that the daemon log is kept until the session is destroyed, because such a
  session's scope is persistent; the close removes it, because the mode of its profile
  is disposable (`src/cli/privacy.ts:64`, `src/cli.ts:1343`).
* `data delete config` deletes the configuration file when it lives in the runtime
  directory under that name.

## 6. Not modelled, and why

Thin wrappers over Playwright, the screencast, the list of critical points, the
skill and update commands and type declarations hold no state whose order of
changes matters. Screenshots, outcome classification, the timeline's wording and
the observed active time are data that no property here distinguishes. The scripts
inside the container images, and a cached measurement that failed, are left out of
the containers; the byte-level framing of requests (`src/cli/ipc.ts`), the redaction
of what an approver is shown, and listeners that call back into the session (no
listener of the repository does) are left out too.

## 7. Plan

Done, in this order: `Control` with `BrowserOwnership`, the promise
the rest is built on; `DaemonLifecycle` with `DaemonProofs`; `HarnessSession`, with
`SessionProofs` for both; `TraceRecorder`, `SessionEvidence` and its promise `EvidenceLog`, with `EvidenceProofs`; `NavigationGuard`; `SessionMetrics` with `MetricsProofs`;
`SafetyPolicy` and `ToolRegistry`, with `PageProofs` for these and the guard; `GuardInstallation` with
`InstallationProofs`; `PageReferences`, also with `PageProofs`; the containers, with `ContainerProofs`; `CliSettings`
with `SettingsProofs`; `TraceRedaction` and `RetainedData`.

Left, most useful first:

1. What an approver is shown, and the approval as a step of `HarnessSession`.
2. The framing of requests, and a start of the containers from within a daemon.
