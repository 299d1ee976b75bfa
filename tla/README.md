# fleet-connector: TLA+ verification project

fleet-connector is a Go program that keeps an ngrok agent connected from a
machine nobody sits at: a service on Linux (systemd) and on Windows (SCM), with
a one-time setup wizard, calls from the ngrok dashboard, and self-update on
Windows. This directory models what it does over time, checks the models with
TLC and proves the core of them with TLAPS. File names below are relative to the
repository's root.

## Inventory

| Component | Code | State | Operations | Talks to | Modelled in |
|---|---|---|---|---|---|
| Tunnel supervisor | `internal/tunnel/manager.go`, `status.go` | status (under a mutex), backoff, channels `done`, `firstConnect`, `restart`, `stopRequested`, the current Agent | `Start`, `Stop`, `StatusSnapshot`, the goroutine `run` / `connectAndServe`, the event handler | the SDK (calls, callbacks), its owner | `Manager`, `Supervisor` |
| Backoff, error classes | `backoff.go`, `classify.go` | the next step | `Next`, `Reset`, `classify` | `run` | `Backoff` |
| Dashboard calls | `rpc.go` | none of its own | stop, restart, update | SDK goroutines; Manager's channels; self-update | `Manager`, `Update` |
| Foreground program | `cmd/fleetconnect/main.go`, `service_linux.go`, `internal/agent`, the unit file | phase, signal context, exit code | configuration, start, serve, stop | wizard, Manager, systemd | `Foreground` |
| Windows service | `service_windows.go` | phase, last status reported to the SCM | `Execute`, checkpointed start and stop | wizard, Manager, SCM | `WindowsService` |
| Self-update | `internal/update` | one goroutine a call, temp file, marker file | `ApplyWithRetry`, `Apply`, `RecordAttempt`, `ReportPreviousAttempt` | HTTP, PowerShell, msiexec, the next process | `Update` |
| Setup wizard | `internal/wizard/server.go`, `templates` | none of the form in the server; `done` channel | form buttons, submit, confirm, `Serve` | browser tabs, ngrok, `config.yaml`, the program | `Wizard` |
| Configuration | `internal/config`, `local` | `config.yaml` | `Validate`, `Resolve`, `Load`, `Write` | everything that starts | `Config`, `ConfigFile` |
| gen-config, edit-config | `cmd/fleetconnect` | `config.yaml`, a scratch copy | one-shot commands, the prompt of edit-config | the file, an editor, ngrok's API | `ConfigFile`, `Config` |
| Endpoint mapping | `mapping.go` | none | `Build`, `normalizeUpstreamAddr` | `connectAndServe`, `TestConnect`, the SDK | `Config`, `ConfigFile` |
| Credentials | `internal/credentials` | none | `StaticProvider.Resolve` | every attempt | `Config`, a step of `Manager` |
| Logging, provisioning, browser launch | `internal/...` | none that others read | `ParseLevel`, `MintCredential` | start, gen-config | these two only, in `Config` and `ConfigFile` |
| Installers | `installer/` | | | service managers | as the environment of `Update` |

How they interact: the program runs the wizard if there is no `config.yaml`,
builds the Manager, starts it and waits for a stop, from a signal, from the SCM
or from the dashboard through a channel of the Manager. The Manager's goroutine
builds an Agent for each attempt; the SDK calls back into it from goroutines of
its own, also on behalf of an Agent already gone. An update call starts a
goroutine that outlives nothing but hands over to a process (msiexec) that stops
the service; the next process judges the outcome by a file. Behaviour that is
hard: these callbacks against the loop, stops in every phase, what a restart
finds on disk, several browser tabs, and calls that hang.

`PROJECT.json` lists the hazards at their lines.

## What makes each component correct

* Supervisor: never more than one session and none left behind; a published
  "connected" is true of the present session; a Stop is final, never looks like
  an error and begins no further attempt; retries never end and keep their pace.
* Programs: every stop ends the program; a clean exit leaves no session; a stop
  asked for is not undone by the service manager's restart policy.
* Self-update: one installer a call, from a verified file that stays there; a
  reported success is one, and a verdict is repeated only where its marker could
  not be removed.
* Configuration file: what is written whole is valid, whoever writes it; a start
  from it fails for nothing but a torn file or a missing PEM file, and otherwise
  gets to serve what it says; edit-config ends where nobody answers.
* Wizard: nothing entered is lost; a file written whole validates, connects and
  is what was confirmed, up to the ceiling; a confirmation ends the wizard.

## Modules

| Module | Role |
|---|---|
| `Backoff` | operators: step, cap, classes, set of possible waits |
| `Manager` | the supervisor in full, EXTENDS `Backoff` |
| `Supervisor` | abstract specification: a state, the open sessions, a stop asked for |
| `ManagerProofs` | theorems of `Manager`, EXTENDS it and `TLAPS` |
| `Foreground` | composes `Manager` with `runForeground` and systemd |
| `WindowsService` | composes `Manager` with `Execute` and the SCM |
| `Update` | self-update, processes, marker, installers |
| `UpdateProofs` | theorems of `Update` |
| `Wizard` | Serve, the handlers, the pages in the tabs, `config.yaml` |
| `Config` | operators: `Validate` and the later readers of a configuration, the upstream mapping, the flags of gen-config |
| `ConfigFile` | `config.yaml` between its writers and a start, EXTENDS `Config` |
| `ForegroundProofs`, `WindowsServiceProofs` | theorems of the two compositions, EXTEND `ManagerProofs` |
| `ConfigFileProofs`, `WizardProofs` | theorems of these modules |
| `NatRecursion` | lemmas: induction on the naturals and recursive functions, for the proofs |
| `MC*` | instances for TLC: symmetry, small sets of inputs |

A definition with the comment "Variant" is a plausible mistake in the code beside it (a dropped guard, a missing reset). Nothing uses
it: it is there so that each property can be tried against the mistake it is
meant to catch (`mutants` in `PROJECT.json`).

### Manager

`runPc` is the place of the goroutine between two visible effects: `loop` (the
poll of ctx), `announce` (connecting), `build` (credential and factory),
`connect`, `forward`, `signal` (the sync.Once), `serve` (the select), `teardown`
(the deferred Disconnect), `returned` (run, after connectAndServe), `backoff`,
`stopping`, `exited`. Each action is the code between two such places. The SDK's
side is `session` (up, lost, reported), `disconnected` (the event channel of the
attempt, capacity one), and calls in flight (`rpc`), which hold the Agent they
came through and may be handled after it is gone. `restart` holds the identity
of the Agent whose call put the token there; the code only knows that there is
one, and no guard but that of an (unused) variant reads the identity. Channels
that are closed are counters, so that a second close would show. `Fresh` reuses
identities nothing refers to any more, which keeps the instances finite.

An error is its class: `nil`, `ctx`, `plain`, `listed` (an ngrok error whose
code is in `fatalCodes`). Time is abstracted but for the backoff, whose step and
waits are numbers. `failures` and `stopBetween` are history.

### Supervisor

The abstract specification has a state, a set of open sessions and whether a
stop was asked for. `Manager` implements it with `open` as the Agents whose
session has not been disconnected, whether or not the SDK lost it meanwhile. It
orders what an owner sees: connected only with a session open, closed before the
status says so, one session at a time, stopped only when asked and with nothing
open.

### Foreground and WindowsService

Both take Manager's owner actions where the program calls them, and everything
else of it (`Background`) while the process lives. `Foreground` has the unit of
systemd with Restart=on-failure: a restart resets all but the file.
`WindowsService` has the last reported status; Stop is delivered only to a
service whose last report accepts it (Running), and one control at a time. A
start, a stop and the wizard may fail in every way the code handles.

### Update

Workers are the goroutines of update calls. The temp file, the marker (with the
moment between truncation and write), the installer of each launch, the version
of the running process and of the binary on disk. The installer is external: it
may give up, it has the installation to itself, it stops the service, replaces
the binary or rolls back, and starts the service.

A start of the process (`Boot`) only begins: its `ReportPreviousAttempt` is
`ReadMarker` and `RemoveMarker`, with `boot` as its place. The read may fail,
which leaves the marker; the removal is deferred until the report is logged,
nobody looks at its error, and the process may end before it. Each of these
leaves a marker for a later start to judge, or to judge again. `launches`, `since`, `verdict`
and `report` are history: `verdict` says of the marker whether a start has judged
it, and whether it stayed after that.

`RepeatIsExplained` is therefore weaker than the "one-shot check" of confirm.go:51:
a verdict is repeated only where `os.Remove` failed or the process ended between
the log line and the removal. A repeated one may also be of another update, whose
own marker could not be written; `SuccessIsReal` holds of it nevertheless.

### Wizard

The server keeps nothing of the form, so a tab's `page` is the state: what it
shows is what its next request carries, and `Type` is the person filling it in.
Handlers of the form touch only the page they answer, and are one action each. A
confirmation is several: parse and validate, connect, truncate, write and
signal. The endpoint records carry a few fields with the values the code tells
apart (bindings with its default, a pair of TLS files, an upstream that may be
blank, an address another account holds); session settings are good or bad for
`Validate`. `draftOpen` tells, as history, whether an open draft is a saved
endpoint being edited.

`WrittenConfigWorks` is about a `config.yaml` that is whole. A torn or a mixed one,
which a failed write or two confirmations at once leave, is in the model and no
property excludes it: `ReturnedConfigIsComplete` shows Serve returning on one. And
what is written is what the page showed only up to the ceiling: beside a full
list a submitted draft is shown as one endpoint more (server.go:442, 469-478) and
cut off when the confirmation is parsed (server.go:239), without a word.

### Config and ConfigFile

`Config` has no state. A configuration is a record of the fields that decide
something, with one value for each case the code tells apart: a scheme stands
for an endpoint's address, "%zz" for what `url.Parse` refuses, "soon" for what is
no duration, and a PEM file for whether it can be read and parsed. Each check of
`Validate` has its counterpart among the later readers (`ParseLevel`,
`parseAgentConfig`, `Builds`, `HasCredential`), written from their own code, so
that the two can disagree. They do in one place: a key that is not that of its
certificate is no business of `Validate` but fails every Build (mapping.go:69);
`pairs` says which keys belong to which certificates at present.

An upstream address is a scheme, a host and a port, any of which may be missing,
and a bare number is told from ":" and a number: `normalizeUpstreamAddr` puts
"localhost" before the first only, and a scheme before either. Signs, which Atoi
accepts, are left out. `Dials` and `Raw` are what the libraries make of the
result, external to this repository: the SDK's parse and its fallback to
localhost:80 when it finds neither host nor port, from the comment at
mapping.go:88; and the local machine for an empty host before a port, which is
net.Dial's.

`ConfigFile` has the file, the PEM files, the commands and the program. A
command is a run of gen-config, of edit-config or a confirmation of the wizard:
each is a program counter and the configuration it holds, from the flags, the
editor or the form to `local.Write`, which is a truncation and a write. A write
may be cut short, with any number of whole endpoints left, and may go over what
another command wrote since; `kind` records that as history (`torn`, `mixed`),
and only the properties and the outcome of `Load` depend on it. The program is
started again and again; each start looks for the file, loads, resolves, builds
the Manager, attempts and serves with what it has in memory, while the PEM files
come and go and are replaced by others (`Replace`). `eof` tells of an edit-config
whether its input has ended.

The wizard's own handling of a confirmation is in `Wizard`; here it is one more
writer. What the program does once it serves is in `Manager`.

## Runs

| Run | Question | Bounds |
|---|---|---|
| `manager_safety` | safety of the supervisor, all interleavings; it refines `Supervisor` | 3 Agents, 1 call in flight, 2 endpoints, steps 1..5 |
| `manager_live` | Stop always ends; lost sessions, restarts and errors lead to another attempt | 2 Agents, 1 call, 1 endpoint, constant backoff |
| `manager_stale_restart` | violated: a restart ends only its own session | 3 Agents |
| `foreground` | exits, restarts by the unit, stops end the program | as `manager_live` |
| `foreground_start_stop` | violated: a stop during start exits cleanly | |
| `windows_service` | reports to the SCM; start and stop end | 2 Agents, 1 call, no endpoint, 2 checkpoints |
| `update` | files, launches, reports; calls end | 2 versioned builds and one without, 2 workers, 2 attempts |
| `update_misread` | violated: an unrelated restart is not misread | |
| `wizard` | the form round trips; confirmations against each other and against Serve | 2 tabs, 2 kinds of draft, ceiling 2 |
| `config_file` | the file under all its writers, and starts from it | 2 commands, 1 PEM bundle, 4 configurations that may be written or found, 11 edits that are refused |
| `wizard_edit`, `_torn` | violated: nothing saved is lost; what Serve returns on is complete | |

Why the bounds suffice for what they are meant to show. At most two Agents can
be referred to by anything but a late call (the current one and the sender of a
restart token), so three let an old call, an old token and a new session meet. With two, an
attempt may have to wait until an old call or token has gone, which is why
`manager_safety` has three and only the costly runs (liveness, compositions) two.
The Windows composition has no endpoint, for the same reason: an attempt may
still fail in the credential, the Agent and Connect, and what a failing endpoint
does is checked in `manager_safety` and `foreground`.
One call in flight is enough for a stale one: calls do not act on each other but
through `restart` and `stopRequested`, which keep their content. Two endpoints
give a failure after one was forwarded. The cap of 5 is no power of two times
the base, so capping and doubling differ. Two workers, tabs or attempts give
every pairwise race; a third repeats them. A ceiling of 2 in `wizard` leaves
room for a saved endpoint, a draft beside it and a full list. Two commands give every
race of two writers, with the program as the reader; the configurations of
`config_file` differ in every field a later reader looks at, and every refused
edit fails one check of `Validate` of its own. `MaxFailures` and `MaxCheckpoint` cap two counters nothing but a
property or the SCM reads.

Deadlock is checked in the runs of `Manager`, `ConfigFile`, `Foreground`
(where a halted unit stutters by an action of its own) and `Update`;
`WindowsService` and `Wizard` end, when the service has stopped or Serve has
returned and its tabs are done, and are run with CHECK_DEADLOCK FALSE.

### Fairness

* `StopFairness`: the scheduler runs `run`, and calls that take runCtx return
  once it is done (the SDK's Connect and Forward take the context). Nothing is
  assumed of calls before that.
* `SDKFairness`, the premise of the three properties of `manager_live` on further
  attempts: calls return in their own time, a loss
  is reported and a handler runs. That is what the heartbeat is for.
* `Foreground`, `WindowsService`: the main goroutine runs and its timers fire;
  the person at the wizard is assumed to do something in the first (or a signal
  comes), nothing in the second. A select picks at random among ready cases, so
  a stop is not passed over forever for interrogations.
* `Update`: the goroutines run and what they call returns (the download has a
  time-out). `Wizard`: Serve's goroutine runs; openBrowser returns and Shutdown
  is bounded. No confirmation is assumed to end.
* `ConfigFile`: a start goes on, and its attempts succeed in the end when the
  configuration allows it (the supervisor retries forever, `KeepsTrying`); an
  editor, a call of ngrok's API, a connection test and a write return. Nobody is
  assumed to answer the prompt in any one way, to begin a command or to restart
  the program.

### What disagrees with the repository's own statements

Five runs end in a violation, each of a sentence of a comment, a test or the
README; `findings` in `PROJECT.json` quotes them. In short: a restart token can
end a later session; a stop signal during start exits with 1; a restart before
the installer gets to work is reported as a failed update; editing a second
endpoint drops the first; and Serve may return while a second confirmation has
the file truncated.

More were met while modelling and have no run: an update whose installer
stops the service before `RecordAttempt` has written is not reported at all
(the goroutine dies at `Record`; README.md:250 has every launch recorded); a
build without a version that meets a marker reports no effect, as `Reported`
shows, where version.go:11 says the check is skipped; and with the saved list at
`maxManualEndpoints` an open draft is shown by `HandleSubmit` to be confirmed
(server.go:424) and cut off when the confirmation is parsed.

The configuration file has limits that no sentence of the repository denies, so
they are described and not refuted. `local.Write` is not atomic: a write cut
short leaves an empty file, which no start accepts and no wizard replaces, or a
prefix that may validate with fewer endpoints. edit-config and a confirmation
write over what came in between. gen-config leaves a minted credential behind
when `Validate` or the write then fails, and takes an empty credentials file for
a token. `Validate` accepts an upstream of a scheme alone ("https://"), which
ends up at localhost:80, and one without a host ("https://:8080", ":8080"), which
ends up at that port of the local machine. `UpstreamsAsMeant` takes the local
machine for what they name; `config_file` has "https://", ":8080", "8080" and
"till:8080".

## Proofs

Every property of the passing runs that is not about liveness is a theorem of
its module, for every value of the constants. Of each property that is, the part
that does not depend on scheduling is one too, as a bound on the steps that are
left (below).

`ManagerProofs` proves, for every set of Agents and calls, any number of
endpoints and any bounds of the backoff with `BackoffAssumption` and
`ManagerAssumption`: type correctness, `NoLeakedSession`,
`ConnectedMeansForwarding`, `StopMeansQuiescent`, `StopBetweenAttempts`,
`NoDoubleClose`, `StopIsNotAnError`, `RetryPacing`, the action property
`StoppedIsFinal`, and that `Manager` implements `Supervisor`.

Most of these are not inductive alone: that a teardown closes the right session depends on which Agent each place of `run` holds, the endpoints of a
published status on the loop counter, and finality of a stop on ctx being done
wherever `run` leaves its loop. `IInv` adds these, as `RunInv`: `AgentByPc`,
`StatusByPc`, `CancelByPc`.
`InitIInv` and `StepIInv` show that it is inductive, from lemmas on each conjunct
(`StepTypes`, `StepAgent`, `StepStatus`, `StepCancel`), one step per action.
The refinement follows from `IInv`: every action maps to an action of
`Supervisor` or to a stutter.

`RetryPacing` compares the step of the backoff with a doubling without a cap,
the recursive function `Doubled`, over a count of failures that saturates at
`MaxFailures`. `Pacing` therefore has the hypothesis `CountsToCap`, that the count
goes as far as the cap: it says nothing of the code, only how long the history
variable has to count to judge it. `CapIsMet` shows that every `Base` and `Cap` have such
a bound, and the constants of `manager_safety` (1, 5 and 4) meet it. The step of
the proof is `AdvanceDoubles`: a step capped before it doubles is the doubling
capped.

`ForegroundProofs` and `WindowsServiceProofs` stand on it. Every action of the
two compositions is a step of `Manager`, a stutter of it, or, in the first, a restart into its
initial state (`FgStepsManager`, `WsStepsManager`). The service therefore
implements the Manager (`ServiceRunsManager`: `WsSpec => Spec`) and has all its
properties (`ServicePromises`); the program has its invariants over any number
of restarts (`ForegroundPromises`, `ForegroundPacing`). `FgInv` adds
that a Manager not started yet holds nothing and what an exit code says of the
process; from it follow `CleanExitLeavesNothing`, `DashboardStopSticks` and the
type invariant `FgTypeOK`. `WsInv` adds that the process exits only after its
last report and that a Stop it waited for has answered; from it follow
`NeverLooksLikeACrash` and `StoppedHoldsNothing`.

`UpdateProofs` proves of `Update`, for every set of builds and workers and any
number of attempts, that a launched file stays, that one call launches one
installer, that a reported success is one and that a repeated verdict has its
explanation (`Repeats`). The strengthening, `UpdateInv`, ties the program point of
each worker to its file and its launches, gives the installation to one
installer, says that a marker is of the binary on disk until one replaces it, and
(`VerdictInv`) that a marker just judged is there only between the report and its
removal, when no call of the dashboard can write another. It is a theorem too.
`WorkerStep`, `InstallerStep`, `ProcessStep` and `ReportingStep` preserve it.

`ConfigFileProofs` proves of `ConfigFile`, for any number of commands, any PEM
files and any inputs with `ConfigFileAssumption` (what is staged is valid),
`AddressAssumption` (the addresses are values of the representation, whatever is
missing in them) and `KeyPairsAssumption` (`KeyPairs` has the certificates and
keys that valid configurations name, which is what the constant stands for), the
type invariant,
`CommittedIsValid`, `FailedStartIsExplained` and `UpstreamsAsMeant`. Two lemmas
carry it: a valid configuration stays valid with more PEM files
(`ValidateMonotone`), and what `Validate` accepts every later check of a start
accepts (`ValidIsAccepted`). `CfInv` adds that a command about to write has
validated (`WritersValidated`) and that the program knows what it read
(`ReadersKnow`); for the upstreams, that every configuration in the file or in
the program has such addresses, a prefix included (`PrefixAddressed`), and
`NormalizedAsMeant` on the mapping itself.

`WizardProofs` proves `WrittenConfigWorks`, `NilMeansConfigured`, the type
invariant and `RoundTripsKeepEverything` of `Wizard`
for any tabs, kinds of draft and ceiling. `WzInv` has the shape of the pages,
what each step of a confirmation has checked so far, and that nobody says nil
before the file was begun. `WzTypes` types a page as a whole: the endpoints it
shows are all filled in. Hence parsing them gives them back, cut at the ceiling
(`ParsesFilled`), which the round trips rest on, and `WrittenWorks`: the invariant
has the file equal to what the confirmation parsed, `ConfirmedAsOffered` makes that
what the page showed, up to the ceiling.

`NatRecursion` has what these two proofs need of recursive functions. The provers
cannot instantiate an induction theorem over a predicate, so `Induction` is about
a set of naturals, from the least element of its complement; and
`PrimitiveRecursion` shows that a function with a given start and step exists,
from which `DoubledEquation` and `ParsesFilled` get the equations of `Doubled`
and of the loop in `parseIndexedEndpoints`.

### What liveness rests on

Liveness itself is out of the prover's reach, as are fairness and ENABLED. What
can go wrong with it in the code, though, is mostly safety: a loop that goes round again, an
event that is lost. That part is proved: that an event waits where it is read, or
a number that bounds the steps left, falls with every step of the actor that has
to move, and is not raised by anybody else.

| Theorem | Says | Part of |
|---|---|---|
| `StopCountdown` | after Stop, `run` is at most NumEndpoints + 9 of its steps from its end | `StopTerminates` |
| `LossHeard`, `NeverGivesUp` | the report of a loss waits in its channel until it is read; a lost session, a restart and an error are at most nine steps from the next attempt, which only a Stop takes back | `LostSessionReplaced`, `RestartHonoured`, `KeepsTrying` |
| `CallCountdown` | a call takes at most 4 * RetryAttempts + 1 steps over all its retries | `CallEnds` |
| `ExistingConfigIsServed` | a start from a settled file is at most five steps from serving, and no writer, check or Build turns it down | `ExistingConfigServes` |
| `NoSpinning` | an edit whose input has ended takes at most three steps | `NonInteractiveEditEnds` |
| `ConfirmHeard` | the word that ends Serve is in its channel, early or late | `ConfirmEndsServe` |

Only model-checked: that these steps are taken, that is, the temporal properties
themselves under their fairness, and the progress of the two programs
(`SignalEndsProgram`, `DashboardStopEndsProgram`, `StartEnds`, `StopIsReported`),
whose phases only go forward.

## Not modelled

Contents of messages, logs and pages; the handlers of the log, which fan records
out and keep nothing the rest reads; how TLS material is used, and the options
handed on to the SDK; the choice of the editor; YAML, but for where it can be cut;
tokens of the wizard's URL; PowerShell's and Defender's answers beyond accept or
refuse; the installers' other actions, among them the templates they render; the
SDK, ngrok's API, systemd, the SCM and msiexec beyond what the code here relies on.
No clock: a time-out may fire at any time, which allows more orders than the real
ones.

## Plan

Done, in this order: `Backoff`, `Manager`, `Supervisor`, `ManagerProofs`,
`Foreground`, `Update`, `Wizard`, `WindowsService`, `UpdateProofs`, `Config`,
`ConfigFile`, `ForegroundProofs`, `WindowsServiceProofs`, `ConfigFileProofs`,
`WizardProofs`, `NatRecursion`.

Nothing else of the core is planned. Of what is left out, the composition of
`ConfigFile` with `Update`, whose installer stops a program that may be writing,
would add the most; `CutShort` together with `Exit` already has its effect on the file.
