# SafeDock in TLA+

SafeDock is a self-hosted gatekeeper for Docker hosts: it watches the containers
of one or more engines, scans their images, and replaces a container by a newer
image only when the image passes a security policy, rolling back when the new
container does not hold. It is one Go process (HTTP API, scheduler, SQLite
database) with a React interface.

This directory models that process, checks it with TLC and proves part of it
with TLAPS. Paths below are relative to the repository.

## 1. Inventory

### What runs, and what is shared

* every HTTP request is a goroutine; handlers run concurrently and nothing
  serialises two requests, not even two updates of one container;
* the scheduler is one goroutine (`internal/scheduler/scheduler.go`);
* SQLite is opened with a single connection (`internal/db/db.go:99`): a statement
  is atomic, a handler made of several statements is not, and two handlers
  interleave between statements;
* the Docker engine is another process, reached over a socket, TLS or SSH; its
  calls may fail, or succeed and lose their reply;
* the client's disconnection cancels `r.Context()`, on which the handlers make
  their calls; a stop of SafeDock does not wait for its handlers
  (`internal/api/server.go:167-216`).

### Components

| component | source | state | operations | correct when |
|---|---|---|---|---|
| Rollout | `internal/deployer/lifecycle.go`, `api/handlers.go:794` | containers, names and images of an engine; audit rows; scan reports | inspect, look up, pull, scan, judge, stop, set aside, create, start, health test, discard, roll back, audit, purge, preload, clean up | the service survives; one instance runs; what is deployed was judged; the audit row is true; staging leaves nothing behind |
| Security policy | `lifecycle.go:152-278`, `487-508` | settings, overrides, accepted risks | resolve, count, decide | an accepted risk never blocks; a stricter threshold never lets more through |
| Registry client | `internal/registry/client.go` | registry credentials | resolve a reference, fetch a digest, get a token | every reference a container can carry resolves |
| Docker client | `internal/docker/client.go` | connections | list, audit, connect to a host | connections are closed |
| Scan cache | `api/handlers.go:33-36, 518-685`, `db/db.go:915-1119` | memory map, `scan_reports` | read through, save, purge | a report shown belongs to the image that runs |
| Scheduler | `internal/scheduler/scheduler.go` | last report per image, history | cycle, scan of new containers, drift, purge, backup | every drift is reported once; history is complete |
| Accounts | `auth/auth.go`, `api/setup.go`, `api/invites.go`, `api/users.go`, `db/db.go:1425-1938` | users, roles, MFA, backup codes, invitations, setup token, sessions | first-run setup, login, verify, setup password/MFA, invite, accept, delete, role, reset | always an administrator once there is one; MFA before any session; single-use tokens are used once |
| Login limiter | `auth/limiter.go` | count, window, lock, lock count per key | locked, fail, reset, lazy purge | bounded guesses per window; locks only grow until a success |
| Scopes and tags | `api/users.go:38-62, 260-`, `db/db.go:1959-2134` | tags, assignments, scopes | create, delete, assign, replace a scope | a user never sees outside every scope that was set |
| Container settings, exceptions | `api/handlers.go:961-1093`, `db/db.go:762-915, 1137-1226` | overrides, accepted CVEs | save, delete, read | what is stored is what the verdict reads |
| Configuration | `internal/config/config.go`, `api/handlers.go:259-352`, `db/db.go:404-480, 2266-2440` | settings in memory, settings in the database, retention | load, save | memory and database agree |
| Backups | `internal/backup/backup.go`, `api/backups.go` | archive files, backup settings | create, list, prune, delete | the newest ones are kept |
| Hosts, SSH identity | `api/handlers.go:836-960`, `api/provision.go`, `db/db.go:1247-1420, 2495-2562` | hosts, key pair | add, delete, test, provision | one identity |
| Scanners | `internal/secops/*.go` | none | run a CLI, parse its report | counts equal findings |
| Cryptography | `internal/crypto/*.go` | master key | hash, encrypt, sign, TOTP | outside the reach of these models |
| HTTP server, e-mail, certificate, start-up | `api/server.go`, `notifier/email.go`, `tlsx/tlsx.go`, `cmd/safedock/main.go` | none | routing, sending, files | no state of their own |
| Web interface | `internal/web/frontend/src` | React state | views over the API | a late response never overwrites a newer one |

### Where it is hard

* **Atomicity.** The pivot of a container is ten engine calls, presented as a
  transaction. Account operations check, then act, in separate statements.
* **Interleaving.** Two updates of a service share its name, its backup's name
  and its staging image. Scope replacement is row by row.
* **Failure.** Any call may fail or lose its reply; a process may die between
  two calls; a client may leave. Some errors are deliberately ignored.
* **Staleness.** Tags move between lookup and creation. Settings may be
  unreadable. Caches are purged in one place and kept in another.
* **Sequences.** A second update starts from what the first one left.
* **Time.** The limiter combines a window, a lock and a backoff.

`PROJECT.json` lists every such point with its line and the properties about it.

## 2. Modules

| module | models | status |
|---|---|---|
| `SecOpsPolicy` | the verdict on an image: settings in force, accepted risks, thresholds | written |
| `ServiceContract` | the promise of an update, without Docker or requests | written |
| `Rollout` | requests, engine, registry, client, crashes | written |
| `RolloutProofs` | theorems about `Rollout`: types, firewall | written |
| `TransactionProofs` | theorems about `Rollout`: transaction, staging, refinement of `ServiceContract` | written |
| `MCRollout` | instances of `Rollout` for TLC | written |
| `Accounts` | the tables of accounts, backup codes and setup token, one operator per SQL statement | written |
| `SignIn` | the login, setup and invitation wizards, the administration of accounts, and the handlers behind them, over `Accounts` | written |
| `SignInProofs` | theorems about `SignIn`: backup codes, administrators, first-run setup | written |
| `EntryProofs` | theorems about `SignIn`: types, the way into an account | written |
| `MCSignIn` | the instance of `SignIn` | written |
| `LoginLimiter`, `MCLoginLimiter` | counts, windows, locks, backoff, lazy purge, and the handlers that consult them; the instance | written |
| `LimiterProofs` | theorems about `LoginLimiter` | written |
| `WebApp` | one tab of the interface: session, polling, settings, backups, rollout button, and the server they talk to | written |
| `WebAppProofs`, `MCWebApp` | theorems about `WebApp`; its instance | written |
| `Reports` | scan reports: table, memory, scheduler, end of a rollout, page of a container | written |
| `ReportsProofs` | theorems about `Reports`: alerts | written |
| `PageProofs`, `MCReports` | theorems about `Reports`: types, the page; its instances | written |

`Reports` composes what shares the reports: handlers, scheduler, rollout and
interface. `SignIn` composes the interface and the server over the tables.
`WebApp` treats sign-in as one step; `SignIn` leaves polling out.

### SecOpsPolicy

`Resolve` is the overriding of the global settings by those of a container
(`lifecycle.go:164-185`), `Effective` is `effectiveCounts`, `Blocking` the switch
over thresholds (`202-232`), `Complies` the three rules. A report is a set of
findings: the verdict only tests whether a counter is positive. The threshold is
a free text column, and a value the switch does not know blocks nothing:
`Blocking` says so.

### ServiceContract

A service goes down, comes back with its old version or with an admitted one,
and never stays down. This is pillar 3 of `docs/architecture.md` in five lines.

### Rollout

A request is a process with a program counter `pc[r]`, and every call to the
engine is one action.

| state | code |
|---|---|
| `box`, `images` | containers and image store of the engine, by what the code relies on: a name has one holder, an image in use is not removed without force |
| `latest` | what a tag resolves to on the registry; `Publish` moves it at any time |
| `live` | `r.Context()` is not cancelled; `Disconnect` cancels it, at any step |
| `job` | the inspection of line 76 and the digest of line 93: what the goroutine remembers |
| `audit`, `reports` | rows of `audit_logs` and `scan_reports` |
| `faults` | faults injected so far, bounded by `MaxFaults` |

| actions | lines of `lifecycle.go` |
|---|---|
| `Begin`, `Lookup`, `Pull`, `Scan`, `Judge` | 74-91, 93-106 (with `registry/client.go:38-194`), 111-127, 139-144, 152-278 |
| `StopOld`, `DropLeftover`, `SetAside`, `UndoStop` | 393-399, 403-404, 405-410 |
| `Create`, `StartNew`, `Health`, `Discard`, `DropOld` | 412-434, 436-441, 443-457, 459-468 |
| `RestoreName`, `RestartOld` | `triggerRollback`, 471-485 |
| `Fail`, `Commit`, `Preload`, `Cleanup` | 283-299, 301-333, 335-366, 510-529 |
| `Publish`, `Disconnect`, `Crash` | the registry, the client, the process |

`EngineCall` is what every call of the pivot has in common: carried out and
answered; or failed, before or after it was carried out (a fault); or refused by
the engine; or, the context being cancelled, never sent. The code's treatment of
the answer decides the next step: an error the code ignores leads to the same
label as success.

A container name is a service's own name followed by `-rollback` a number of
times, which is what lines 388-389 can make of it. `Targets` says which
containers a request may be aimed at and `Waits` says whose answer its sender
waits for, so that a run can have requests on different services, in a row, or
on the same container at once.

Left out: attaching networks (errors ignored), notifications and e-mails
(outcomes ignored), the before/after comparison in the text of an audit row, the
history of counts. The configuration and the overrides do not change during a
run. A request is given a full container identifier.

### Accounts and SignIn

`Accounts` holds the three tables as SQLite does and gives each statement of
`db.go:1425-1938` as the value a table takes (`PasswordSet`, `SecretStored`,
`Deleted`...). An update of a deleted row does nothing. An address, a name in
`User`, serves for one row.

| state of `SignIn` | code |
|---|---|
| `view[b]` | the page a browser shows: the `step`/`phase` of `LoginView.jsx`, `SetupView.jsx`, `InviteView.jsx`, the forced change of `App.jsx` |
| `jar[b]` | its cookies: the pre-authentication one and the session (`auth/auth.go`) |
| `req[b]` | its request, and the statement its handler is at; one at most, since the buttons are disabled meanwhile |
| `phone`, `sheet`, `links`, `owner` | what people hold: secrets in authenticators, codes written down, invitation links |
| `expired` | the links whose 72 hours are over (`invite_expires`, `db.go:1607`); the invitation stays in its row |
| `spent`, `respent` | history: the codes a login accepted, once and twice |
| `lost` | history: the links that were lost with the answer that held them |

A form is one action (`SubmitPassword`, `SubmitCode`, `AcceptInvite`...), which
also does what the handler decides before its first write; then each write of the
handler is one (`PasswordWrite`, `SecretWrite`, `CodeConsume`, `EnableMfa`,
`DropCodes`, `InsertCodes`, `ClearInvite`, `CreateAdmin`, `SpendToken`,
`RoleWrite`, `EraseCodes`, `Reinvite`); then its answer (`LoginAnswered`...), or
`AnswerLost`. `Restart` ends every handler where it is and makes a new setup token
if there is no administrator (`setup.go`); `RestartResettingMfa` is the recovery
of an administrator at the start. `Expire` ends a link: it opens no page any more
(`LinkOpens`), while the login goes on counting the invitation as pending
(`HasPendingInvite`, `db.go:1619-1629`). `Troubles` says which of the requests of
administrators, the expirations and the restarts a run has, `MaxTrouble` how many.

Abstracted: the ten backup codes of an account are one, with a number; people type
their own password and the codes of their phone (wrong guesses are the business of
`LoginLimiter`); a request that its handler's first statement refuses changes
nothing and is left out. Profiles and scopes are not read by these handlers. The
link of an invitation comes in the answer to the administrator; the e-mail that repeats it
where SMTP is configured is left out, since the code ignores whether it was sent.

The properties exempt, and name, what the statements really allow:
* `clash`: a request writes an account while the enrolment or the reset of that
  account by another is in flight. Their statements then alternate, and secret,
  password and invitation may be of different hands. An enrolment through
  the login page that a reset overtakes is such a case (section 3, departures).
* `rivals`: removals of two administrators are past their counts at once
  (`users.go:144, 246`): the last two can remove each other, as `signin_rivals`
  shows. Only `SetupClosed` and the theorem `AdminRemains` exempt it.
* `lost`, `expired`: an invitation nobody was told the link of, or whose link does not
  open any more. An account without MFA whose invitation is in wait has no other way
  in, until an administrator invites again; `OwnerCanGetIn` says that these are the
  only lock-outs.
* `cut`: a crash between `DropCodes` and `InsertCodes` (`db.go:1874`) leaves an
  account without backup codes.

### LoginLimiter

`m` is the map of `auth/limiter.go` with times relative to now: `age` of the window
and what is `left` of the lock, both in ticks. An absent entry is `Blank`, which
behaves as one; therefore the purge, which needs more than 4096 names, is a choice
of each failure (`crowded`) in the model. `locks` stops counting where the cap of
the shift absorbs it. The mutex makes each call atomic; a request makes four calls
and requests interleave between them (`CheckUser`, `CheckAddress`, `Pass`,
`FailUser`, `FailAddress`, `AcceptUser`, `AcceptAddress`).

`wrong[k]` holds the wrong answers about `k` younger than a window, since the last
success: each a pair of its age and a number that tells it from the others of that
age. The bound of `GuessesBounded` says what the code gives, and no less: the windows do not slide,
hence twice the threshold less one, and requests past the check are still judged,
hence one more for each other request.

### WebApp

| state | code |
|---|---|
| `cookie`, `must`, `cfg`, `backup`, `world` | the server: session, imposed passwords, settings, backup switch, containers |
| `me`, `page`, `loading` | `authed`, `me`, `activePage`, `isRolloutLoading` of `App.jsx` |
| `config`, `lists` | slices of `App.jsx`: the settings; containers and audit log, which are polled together |
| `form`, `toggle` | the form of `SettingsView.jsx`, and its switch of the backups |
| `answers`, `posts` | reads on their way, by kind; writes, sent or answered |

Each arrival is one action and ends with what React does then: `handleJson`, the
effect that seeds the form, the render. A read is computed when it is asked for and
arrives at any time, or is lost; a write is executed, then answered, then received.
`Becomes`, `Kept` and `Mount` say what survives when a page is left: an answer to a
page that is gone reaches no state.

Abstracted: the settings are one value (`low`, `high`, and `default` for the
constants the form starts from); the tab is the only one that writes them. A
`visit` is for one thing (watching, settings, backups), which keeps unrelated slices from
multiplying; the end of a session, which touches them all, is in every visit.

Exempt: `blind`, a save from a form that no settings had filled, because the person was
faster than the first answer or that answer was a refusal: `SettingsView.jsx` lets
them, and `SettingsKept` says that nothing else ever does so; `unsure`, a read and
a write that overlapped, or a lost answer: then a late answer to an early read may
replace what the save brought.

### Reports

| state | code |
|---|---|
| `disk`, `latest` | `scan_reports` by image and scanner, and the last one written (`db.go:915-1119`) |
| `mem` | `trivyCache` (`handlers.go:33-36`) |
| `sched` | the goroutine of `scheduler.go`: the pass, what is left of it, the image, what it compares with, what it found |
| `roll` | the end of a rollout: `lifecycle.go:301-366` |
| `page`, `write`, `question` | `ContainerDetailView.jsx`, its save of the override, its scans and where `getTrivyReport` is with each (`handlers.go:518-685`) |
| `told` | history: by image, the last day whose findings somebody saw or was sent |
| `missed` | history: by image, the worst report whose alert was lost |

A report is the day of its scan; more days, more vulnerabilities. That is what an
alert compares. `Scenarios` are combinations of bounds, one of which a behaviour
keeps to: all of them at once are too many states, and each asks a question of
its own (`MCReports` names them).

Saves fail as well as scans: the handler logs it and fills the memory all the same
(`StoreFails`, `handlers.go:600-609`), the scheduler does not look
(`SaveRescanFails`, `scheduler.go:176`). What becomes of the image then is
what `EveryImageScanned` is about.

Abstracted: the scanner a person chooses is any, at each press of a button; a quick
pass that would find nothing to do is left out; a container is replaced once.

Exempt: `missed`, the alerts that the code loses. One is lost when the process dies
between the report and the alert (`scheduler.go:176-211`); one when the image had no
report as its scan began and has one at the save, because a page asked meanwhile
(`scheduler.go:123-132, 164-184`). `AlertsNotLost` says that nothing else is ever lost, and
that a later report that is worse than all of these is told. Nothing purges the memory:
`reports_memory` shows it. `crossed`, a page with two scans
in flight, which saving the override makes possible: the answers may then arrive in
either order.

## 3. Runs

Twelve runs: five over `MCRollout`, seven over the other modules.

### Rollout

Images: `old` runs at first, `fresh` passes for the
first service only (it has a critical finding that service accepts), `broken`
exits at once, `rejected` does not start. The services differ by an override, by
accepted risks, and one runs as root because its override allows it: the rule on root,
the rule on vulnerabilities, the override and the accepted risks all decide
somewhere. No service is privileged and Dockle finds nothing fatal (`Fatal` is empty): these
two rules let everything pass in the runs, and are covered by the theorem `Gate`.

| run | bounds | what it shows |
|---|---|---|
| `rollout_serial` | 2 services, 3 requests (the third follows the first, on the same service: a retry after a refusal or a rollback, or a second update), `old`, `fresh`, `broken`; no fault, patient clients | `TypeOK`; `ServiceSurvivesUpdate`: no update in progress, the service runs under its name; `OneInstance`: never two at once; `AuditTellsTheTruth`: the row a request writes is true when it answers; `ImplementsContract`: the rollout refines `ServiceContract` with its liveness |
| `rollout_faults` | 2 services, 2 requests, `old`, `fresh`, `rejected`; one fault or crash anywhere, settings may be unreadable, one client disconnects | `DeployedImagesComply`, `StagingReclaimed`, `BackupOutlivesTrial` |
| `rollout_startfail` | 1 service, 1 request, `rejected` | counterexample to `ServiceSurvivesUpdate` |
| `rollout_concurrent` | 1 service, 2 requests on any container, `broken` | counterexample to `BackupOutlivesTrial` |
| `rollout_disconnect` | 1 service, 1 request that may disconnect | counterexample to `ServiceSurvivesUpdate` |

`rollout_serial` has no image that refuses to start, no two requests on one
service at once and no disconnection, because with any of them the service is
really lost; within those conditions every claim holds, crash of the new
container included. `rollout_faults` keeps the claims that must hold
whatever fails.

**Why the bounds are enough.** Requests interact through a service's name, its
backup's name and its staging image: two requests on a service, or on two
services with one image, show every pairwise interaction; a third adds the
retry after a failed update. After a successful one it ends at the lookup (see the
departures below). One fault reaches every single-failure path of the
code, including the double failures a cancelled context causes (each later call
fails). Two images besides the running one give a tag room to move between
lookup and creation.

Deadlock is not checked: when every request has ended and nothing is published,
the system rightly stops.

**Fairness.** `Fairness` says that a goroutine that can take a step takes it: the
engine, the registry and the scanners answer every call. The code sets no
deadline on engine calls, so this is an assumption on those services and not a
guarantee of SafeDock. Nobody is assumed to send a request, publish, disconnect
or crash.

### Accounts, limiter, interface, reports

| run | bounds | what it shows |
|---|---|---|
| `signin` | 2 people, 2 browsers owned by either, `MaxMade` 4 secrets, code sets or links for the operator and 3 for the other, `MaxTrouble` 2 of all `Troubles` (requests of administrators, expirations, restarts); browsers symmetric; 3.1 million states | `BackupCodeOnce`, `OwnerCanGetIn`, `ShownCodesWork`, `SetupClosed`, and the action property `LinkOnlyFinalisation`: an invited account gets its secret through the invitation only |
| `signin_rivals` | the same people and browsers, an invitation and two removals, `MaxTrouble` 3 | counterexample to `SomebodyAdministers` |
| `limiter` | 1 account, 1 address, 2 requests, thresholds 2 and 3, window of 2 ticks, a cap of 1 doubling | `GuessesBounded`; the action properties `LockHolds` (only time and success end a lock) and `LocksEscalate` (doubling up to the cap); `LockEnds`. Deadlock is checked |
| `webapp` | 1 change of the containers, 2 answers of a kind and 2 writes in flight, `MaxTrouble` 2 expirations, imposed passwords, losses, sign-ins and saves; 300 000 states | `SettingsKept`, `QuietSettingsTrue`, `QuietSwitchTrue`; `ExpiredSessionReturns`, `PollingConverges`, `RolloutReleased` |
| `viewer_dashboard` | the same | counterexample to `PagesRender` |
| `reports` | 2 containers, 2 images, 2 scanners, 2 scans in flight, 7 scenarios with up to 2 nights; 410 000 states | `NoFalseAllClear`, `ShownIsAsked`, `AlertsNotLost`; `ScanEnds`, `EveryImageScanned` |
| `reports_memory` | the same containers, images and scanners, one update and two scans of a page, nothing fails | counterexample to `PurgedIsGone` |

**Why the bounds are enough.** *signin*: the races are of pairs of handlers, and
two browsers may be of two people, or of one; four generated values are an
enrolment (secret and codes), a reset (link) and the start of the next enrolment; three,
an invitation and its enrolment, or an invitation given twice. Two of trouble are a
reset with a crash, an expiration or another reset; overlapping removals take three (an
invitation first) and have a run of their own, `signin_rivals`. *limiter*: a lock, its
end, and a second lock at the cap all occur, as do two requests past the check of one key; account
and address with different thresholds show that keys do not disturb each other.
*webapp*: two answers of one kind are what may be received in the wrong order. *reports*: two
images are the replaced and the new one; two containers share one or not; two scans
in flight can overtake each other; three days are a first report, one that an alert may
miss, and one whose alert must come.

Deadlock is not checked in `signin`, `webapp` and `reports`: when a bounded counter has
run out and everybody has gone, nothing more happens.

**Fairness.** *limiter*: time passes and a started handler ends. *webapp*: the
interval of `App.jsx:149` fires, a polled answer that is on its way is delivered, a
write is executed and answered; nothing is owed by a person, and no answer to another
read is owed. *reports*: the goroutine of the scheduler goes on, a request that was
received is served and its answer arrives; no rollout, person or poll owes
anything. `signin` states none: what it claims is safety, and people may stop.
The scanners have no deadline in the code, so `ScanEnds` rests on their answering
or failing, as with the engine above.

### What the code does and its documentation denies

1. `rollout_startfail`. When the engine refuses to start the new container,
   `lifecycle.go:438-441` rolls back without removing it. It keeps the name, the
   renaming of line 475 fails unnoticed, and the old container runs as
   `<name>-rollback`.
2. `rollout_concurrent`. Two updates of one service: the second takes the
   container the first has set aside for a leftover, and removes it (line 404).
3. `rollout_disconnect`. The rollback uses the context of the request: a client
   that leaves after the stop leaves the service down, and the mail says it was
   restored (line 293).
4. `reports_memory`. An update purges the reports of the replaced image
   (`lifecycle.go:331`) although another service may run it; line 328 says that it is no
   longer in service. And it purges the table only: the page of that other service is
   answered from the memory, of which `handlers.go:816-818` says that the deployer
   purges it. `PurgedIsGone` fails only where both are so.
5. `signin_rivals`. The last administrator is protected by a count before the statement
   that removes (`users.go:144, 246`): two who remove each other at once are both past
   it. Lines 129 and 223 say that the last one is refused.
6. `viewer_dashboard`. `handleJson` (`App.jsx:166-172`) raises nothing on a refusal
   other than 401, so the body of a 403 becomes the audit log of a viewer, and the
   dashboard, their first page, calls `map` on it. `lib/session.js:1-4` describes
   fetches that raise on 4xx, and `README.md:145` offers the role.

Departures without a run of their own, which the models have and their properties
allow for:

* a service that SafeDock has updated runs under a pinned reference, which
  `ResolveImageName` (`registry/client.go:38-70`) cannot split: line 93 of `lifecycle.go` looks that
  reference up and not the name computed at 87-90, so a second update always ends at
  the lookup (`Resolves`, in `Lookup`);
* `ResetAdminMFA` (`auth.go:86-92`) leaves a pending invitation in place, and the login refuses
  an account that has one (line 239). When its link expired or was lost, the emergency
  procedure of lines 83-85 opens nothing (`lost` and `expired` in `OwnerCanGetIn`);
* `HandleSetupMFA` checks and then stores a secret (`auth.go:342, 361`): of an account that
  is reset in between, the secret comes from the login page while an invitation is in
  wait, although `auth.go:233-235` says "EXCLUSIVEMENT" (`clash` in `LinkOnlyFinalisation`);
* the scheduler asks for the former report before it scans (`scheduler.go:123, 164`). One
  that a page stores during the scan is replaced by a worse one in silence, which lines
  111 and 184 reserve for the first scan of an image (`missed` in `AlertsNotLost`).

## 4. Proofs

### Rollout

`RolloutProofs` proves, for every value of the constants (any number of services,
requests, images and faults, concurrent requests on one service included):

* `TypeCorrect`: `Spec => []TypeOK`;
* `Gate`: `Spec => []DeployedImagesComply`. No container SafeDock created ever
  runs an image its service's rules refuse, whatever is published between lookup
  and creation, whatever fails, whoever else updates.

`DeployedImagesComply` is not inductive: it says nothing of a request that has
not created its container. `IInv` adds what the argument needs: a request past
the lookup has a target, a name and a digest (`JobKnown`); containers that exist
have a name and an image (`BoxKnown`); between the verdict and the creation the
staged image is admissible (`GateHeld`); a container of a request runs what the
request staged, and the request is past the lookup (`CreatedFromGate`, the
strengthened form). `InitIInv` and `NextIInv` are the two inductive facts, with
one step per action: the calls of the pivot share `CallStep`, since each only
renames, starts, stops or removes (`Sound`), and `CreateStep` treats the one that
brings a container into being, lost reply included. `VerdictAdmits` is why the
verdict is enough even when the accepted risks could not be read:
`NoExceptionIsStricter`.

The only assumption is `RolloutAssumption`: the types of the constants, the
disjointness of operator's and SafeDock's containers, and that no audit row is not
a status; TLC evaluates it in every run.

`TransactionProofs` goes on from there, for updates that do not meet (`Separate`: no
two requests are aimed at one container, and each is aimed at an operator's). That
hypothesis is what the code lacks: `rollout_concurrent` is the counterexample without
it. The instance of `rollout_faults` satisfies it. For any number of services, requests
and images:

| theorem | conditions besides `Separate` | what it proves |
|---|---|---|
| `BackupKept` | none: any faults, lost replies, crashes, disconnections | `BackupOutlivesTrial` |
| `StagingEmptied` | none | `StagingReclaimed` |
| `OneAtATime` | no engine fault | `OneInstance` |
| `FollowsContract` | no engine fault | the initial states and every step of `Rollout` map to those of `ServiceContract`, or leave it alone |
| `NeverLeftDown` | `Calm`: no engine fault, clients wait, no image refuses to start, the first images run | `ServiceSurvivesUpdate` |
| `AuditTrue` | `Calm` | `AuditTellsTheTruth` |

The conditions of `Calm` are the smallest under which the last two hold:
`rollout_disconnect` and `rollout_startfail` refute `ServiceSurvivesUpdate` without
one of them, and a lost reply to the stop leaves the container stopped.

The invariant, `TInv` (`Transaction`), says for each label what became of the two
containers of a request: `AimOf`, which container and name it works on; `OldOf`,
whether the old one runs or is stopped, and under which of its two names; `NewOf`,
when the new one exists and when it must run; `ApartOf`, that without faults the two
do not run together, because a new container that still runs in a rollback was left
there by a client that went away, after which the rollback does nothing. It holds
with faults too: a lost reply leads to a label at which `OldOf` claims less.
`LocalStep` is the argument that requests do not disturb each other: a step changes
its own container and its target (`OthersKept`), and `NoLeftover` shows that the
forced removal of a leftover finds none, since names of different services differ
(`Named`, `NamesApart`). One lemma per action then looks at one request.
`StoreKnown` adds who still answers for each image of the store. The refinement rests
on `Moves`, who serves what before and after a step, and on `ServedVersion` being that
of the only request that can serve (`Serving`). `CalmInv` adds that a rollback gets to
its end, and which row is written.

### SignIn

`SignInProofs` proves, for any finite set of addresses, any browsers and any bounds:

* `Reliance`: the inductive invariant `IInv`;
* `CodesOnce`: `Spec => []BackupCodeOnce`;
* `AdminRemains`: `Spec => []LastAdminKept`, an administrator remains unless removals of
  two of them overlapped. No run checks it: `signin_rivals` refutes what lies beyond
  the exemption, and shows that it is needed;
* `SetupCloses`: `Spec => []SetupClosed`.

None of the three is inductive. `CodesOK` adds that codes are numbered in the order
they are made and that none is both used and unused; a step leaves the codes alone
or drops some, uses one, or adds one with a number of its own (`CodesCalm`,
`CodesUsed`, `CodesAdded`), and `CodesKept` treats these three. `AnotherRemains`
says that a removal past its count leaves another administrator, as long as it is
alone; `AccountsKnown` that sessions belong to accounts that were made; `TokenSpent`
that with an administrator the token is gone or the handler that made them is about to
clear it. Steps that change no row and no page in what these say are dealt with
once (`RowsCalm`, `PagesCalm`). `AccountsAssumption`, that the addresses are
finitely many, is what makes the next identifier a number.

`EntryProofs` proves, in the same generality:

| theorem | what it proves |
|---|---|
| `SignInTypes` | `Spec => []TypeOK` |
| `NobodyIsLockedOut` | `Spec => []OwnerCanGetIn` |
| `CodesShownStand` | `Spec => []ShownCodesWork` |
| `OnlyTheLinkFinalises` | `Spec => LinkOnlyFinalisation` |

These compare the tables with what a person holds: a phone, a sheet of codes, a link.
None is inductive, because what a handler is about to write depends on what it read,
on what was shown before, and on the page that will receive the answer. `EntryInv` says
of each browser (`BrowserOK`) from which page its request was sent and whom it is about
(`OnPage`), that an enrolment past its password is of an account that has one
(`EnrolmentKnown`), that the secret about to be activated is the one in the row and in
the phone of the owner (`ActivationKnown`), that the login page gives a secret to nobody
who is invited (`FinalisationKnown`), and that what erases codes does so when nothing
depends on them (`ErasureKnown`). It says of each account (`AccountOK`) that who has no
password is invited (`RowSound`), that an active secret is in the owner's phone
(`ActiveKnown`), and that each code the owner was shown, or that an answer is about to
show, opens the account, or a later one does, or is about to be inserted (`OwedStand`).
TLC checked `EntryInv` on the instance of `signin` before it was proved.

That an account is invited says little of its owner. `NobodyIsLockedOut` needs
`LinksInv` besides: the link of every invitation in wait is in the hands of its owner, or
in an answer that is on its way, or was lost with one (`LinkKnown`). A step that
invites puts the link into an answer (`LinkGiven`); the others invite nobody and forget
no answer without saying so (`LinksStay`).

`clash` and `cut` stay what the properties exempt: `ActivationKnown`, `FinalisationKnown`
and `ActiveKnown` are claimed outside `clash`, `OwedStand` outside both, and nothing else
is exempt. The argument has one lemma per action (`KeptBy...`), of the browser that acts and
the account it writes. The rest is said once: `Frame` is what a step leaves of the other
browsers, `RowsMove` that an account loses neither identifier nor password and that who
writes a secret or invites clashes with the requests that read it, and `OthersKept` that
the others then stay sound; `Calm` is that nothing that covers a code goes away, and
`AccountKept` that the other accounts then stay sound. `WhoWritesSecrets` is what
`LinkOnlyFinalisation` adds: of the actions only `SecretWrite` gives an existing
account another secret.

### LoginLimiter

`LimiterProofs` proves, for any accounts, addresses and requests, any thresholds,
window and cap (`LimiterAssumption`: positive numbers, accounts apart from addresses,
finitely many requests at once; the first lock is as long as the window, as in the
code):

| theorem | what it proves |
|---|---|
| `EntriesAreSound` | `Spec => []TypeOK` |
| `GuessingIsSlow` | `Spec => []GuessesBounded` |
| `LocksHold` | `Spec => LockHolds` |
| `LocksGrow` | `Spec => LocksEscalate` |

An entry forgets what it counted when its window or its lock ends, so a bound on the
answers of any window needs what the entry no longer says. `IndInv` keeps it: of the
wrong answers that will still be young when the lock ends, those of the
current window are at most what it counts, and those of the one before are fewer than
the threshold (`WindowsOK`); while the key is locked, the answers given and those still
in hand are within the bound together (`LockedOK`), since nobody else is let in; and the
number of locks determines the length of the last (`LocksKnown`).
`KeySteps` reduces each of the actions to what it does to one key: nothing (`Quiet`), a
failure (`Struck`), a success (`Cleared`) or time (`Ticked`). `LocksGrow` needs that
powers of two grow and double, usually an induction, which the installed provers
cannot instantiate: the number of subsets of `1 .. n` stands for the power instead
(`SubsetsOf`, `PowersGrow`, `PowerDoubles`).

### WebApp

`WebAppProofs` proves `Provenance`, `Spec => []IInv`, and `SettingsSurvive`,
`Spec => []SettingsKept`, for any number of answers and writes in flight, visits and
failures. `IInv` says that neither the server, nor an answer, nor the slice, nor a
save on its way, nor a form on the screen once the settings are there, holds the
defaults. `Flow` is what a step may do to them (settings come from an answer, answers from the
server, the server's from a save, a save from the form), `FlowKeeps` that such
steps keep the invariant, and each action is shown to be one.

`TabTypes`, `SettingsAreShown` and `SwitchIsShown` are `Spec => []TypeOK`,
`Spec => []QuietSettingsTrue` and `Spec => []QuietSwitchTrue`. A tab that is quiet shows
what the server has because of what held while it was not: `TabInv` adds to the types (`TabIn`)
that reads and a write of the settings are never on their way together, nor two writes,
that every answer on its way holds what the server has, and that the slice is right but
for a save that was executed and not yet answered (`SettingsKnown`); for the switch,
that without a write it is right, and with one it is the opposite of what the write was
sent from (`SwitchKnown`); and that only the visit to the settings reads or writes them
(`SettingsVisit`). What an overlap of writes or a lost answer leaves in doubt is in
`unsure`, and exempt, as in the properties. TLC checked `TabInv` on the instance of
`webapp` before it was proved.

### Reports

`ReportsProofs` proves, for any containers, images, scanners, pages and scenarios:

* `NobodyMissesAnAlert`: `Spec => []AlertsNotLost`. The invariant says of the alert
  under way that it will make up for the report (`AlertComes`), of what a pass compares
  with that it had been told, or missed, when it was read (`ReferenceHeard`), of what is
  about to be preloaded that it was notified (`PreloadHeard`). What was told or missed
  only grows (`KnownMore`): so an alert that was lost hides no later one.

It rests on `TypedAlways`, the types of the state as far as the arguments need them.

`PageProofs` goes on to the page of a container:

* `ReportTypes`: `Spec => []TypeOK`, counters and their bounds included;
* `AllClearIsTrue`: `Spec => []NoFalseAllClear`. What keeps an image without a report from
  reading as a clean one is that a page that neither waits nor shows an error has received
  a report (`Received`), because an answer without an error has one and waits for a page
  that asked (`Sound`).
* `AskedIsShown`: `Spec => []ShownIsAsked`. `OneAtATime` says of a page that never asked
  twice at once that all its questions are one, by the scanner last asked for. A page
  that did is in `crossed`: its answers arrive in any order, and the property exempts it.

### What is only model-checked

A theorem states every safety property the passing runs check. TLC alone checks:

* of the rollout, two requests in turn on one service (the third of
  `rollout_serial`): the theorems of `TransactionProofs` are of requests that do
  not meet;
* that every outage ends, the liveness of `ImplementsContract` (its safety is
  `FollowsContract`);
* `ExpiredSessionReturns`, `PollingConverges`, `RolloutReleased`, `ScanEnds`,
  `EveryImageScanned`, `LockEnds`: fairness and `ENABLED` are outside the prover's
  reach.

## 5. Not modelled, and what is left

Not modelled:

* **Scopes and tags**, hosts and the SSH identity: rows that filter lists or are
  read back as they were written. Their two races (a scope replaced row by row,
  `db.go:2099`; two first uses of the identity, `db.go:2495`) are listed as hazards.
* **Rotation of backups** (`internal/backup`): a sort of file names and deletions.
* **Configuration in memory against the database** (`handlers.go:306`): `WebApp`
  has settings as one value, below which the order of validation and saving lies.
* **Cryptography, e-mail, certificate, static assets, provisioning scripts, CI**:
  pure functions over bytes or text, or pure output.
* **Scanners**: command-line programs; only their reports and their failure occur.
* **Other pages** of the interface (agents, exceptions, tags, registries, audit):
  each sends a request and asks for its list again, as `ArchivesChanged` does. Noted
  on reading and left out: `AuditView.jsx:200` labels results with the form as it is
  when they are shown and not as it was when they were asked for; the on-demand
  scan names an image by a tag that may have moved (`handlers.go:580`).
* **The periodic purge, the history of counts and the nightly backup** of the
  scheduler, and the audits that are not of vulnerabilities.

Worth doing next: the theorems of the transaction for requests that follow each other
on one service; scopes as a module if a handler comes to decide something by them
between two statements.
