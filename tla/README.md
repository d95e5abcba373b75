# UsageDeck in TLA+

UsageDeck is a desktop application (a Rust backend under `src/src-tauri/src/`, a
Svelte frontend under `src/src/`) that shows how much of each AI subscription's
quota is used. It fetches figures from a dozen providers, keeps them fresh,
raises alerts when a quota runs out too soon, and can send a first prompt
("Session Kickstart") when a rolling window resets. This directory models the
parts of it where steps of several tasks interleave, checks them with TLC, and
proves the central results with TLAPS.

Paths below are relative to `src/src-tauri/src/` unless they say otherwise.

## 1. Inventory

| Component | State it keeps | Operations | Talks to |
|---|---|---|---|
| Usage service (`service.rs`) | `states` (one card per provider), `refresh_flights`, `last_live_refresh`, `last_failed_refresh`, `last_full_refresh_at` | `refresh`, `run_refresh_flight`, `apply_refresh_result`, `register_provider`, `unregister_provider`, `refresh_enabled_with_progress` | registry (runtimes), storage (snapshots) |
| Refresh commands (`commands/usage.rs`) | none | `refresh_with_events` and its tail (kickstart, notifications, tray, events), reset-credit commands | all of the above |
| Refresh loop (`refresh_loop.rs`, `policy.rs`) | the next deadline | one endless task | refresh commands |
| Session kickstart (`kickstart.rs`) | `SCHEDULED` timers, `LAST_ATTEMPTS`, `KICK_OUTCOMES` | `evaluate`, timer task, `run_scheduled_kick`, `spawn_prompt` | refresh commands, settings, CLI programs |
| Pace notifications (`pacing.rs`, `notifications.rs`) | per metric: last reset, fired milestones, last severity, delivery backoff | `prune`, `evaluate`, `partition_delivery`, `record_delivery_*`, `rollback` | desktop notifications |
| Reset reminders (`reset_expiry.rs`) | sent / failed maps, receipts in storage | `notify` | storage, desktop notifications |
| Settings service (`settings.rs`, `commands/settings.rs`, `provider_options.rs`) | settings document, two revisions | guarded save, reconcile with the registry, migration of old documents | storage, registry, frontend |
| Accounts and registry (`commands/provider.rs`, `providers/registry.rs`, `providers/api_key*.rs`) | runtimes, account rows, API keys | add, rename, remove an account; save and delete a key | storage, credential store, service, settings |
| Storage (`storage.rs`) | SQLite file | snapshots, settings, accounts, receipts, schema upgrades | disk |
| Credential store (`providers/credential_store.rs`) | read cache (`CACHE_TTL`), probe results | read, write, delete, probe | keychain / secret service |
| Detection (`providers/detection.rs`) | none | first-launch probe of every provider | providers, settings |
| Migration (`migration.rs`) | files of earlier installs | rename pass, copy pass, backups | disk, before storage opens |
| Codex reset claim (`providers/codex/reset_claim.rs`) | credit id of each request id | `claim` | provider's service |
| Pricing catalogue (`pricing/`) | price tables, disk cache, backoff | load, refresh, look up | network, disk |
| Providers (`providers/*/`) | credentials on disk, token generations | one `refresh` each, token rotation | network, CLI files |
| Log usage (`providers/log_usage.rs`, `daily_usage.rs`, `pi_usage.rs`) | scan caches | sum the CLIs' logs | disk, pricing |
| Updates (`updates.rs`) | operation lock, pending update | check, install with one retry | network, frontend |
| Window, popup, panel (`window.rs`, `popup.rs`, `webview_memory.rs`) | height session, dismissal generation | show, hide, toggle, dismiss, change the mode, resize | window system |
| Desktop integration (`desktop_integration.rs`, `xdg_autostart.rs`, `lib.rs`) | tray available, floating window, autostart entry, shortcuts | detect, fall back without a tray, launch at login | desktop, settings |
| Tray, menu bar (`tray_*.rs`, `menu_bar.rs`, `svg_path.rs`) | last rendered title and icon | update | service state |
| Logging, child processes, startup (`logging.rs`, `child_process.rs`, `provider_environment.rs`, `lib.rs`, ...) | log file; none | redaction, rotation; run with a timeout; wiring | disk, OS |
| Frontend controllers (`src/src/lib/*Controller*`) | optimistic settings with a queue of saves, update state, drags | save, accept a pushed state, reload after a failure | backend commands and events |
| Frontend views | what is shown | rendering | controllers |

What is hard, and what correctness means where it is:

* **Usage service.** Every entry point (loop, button, key saved, timer, prompt)
  calls `refresh` at any time. Calls join a *flight*; an attempt can time out
  while its worker lives on; a provider can be removed and added again while
  runners of the old flight continue. Correct: one fetch at a time per flight,
  forced calls get an attempt that began after them, no generation skipped or
  repeated, waiters released, the card agrees with the cache and the backoff.
* **Kickstart.** Refresh tails overlap and `evaluate` takes three static locks
  in turn; timers wake between them. Correct: one prompt at a time, the breaker
  stops ineffective prompts, an armed timer can always be cancelled.
* **Loop.** The interval, the freshness window and the failure backoff
  interact. Correct: a kept cadence, bounded age, failures retried.
* **Notifications.** Delivery fails after the evaluation has changed the state, and
  another refresh's tail may have evaluated in between. Correct: told once per
  window, never lost.
* **Settings.** The frontend edits optimistically and queues; the backend changes
  the same document under revisions. Correct: both sides converge, edits and
  changes are not lost, the queue never sticks.
* **Accounts.** Commands change the database, the credential store, the registry,
  the service and the settings one after the other, two at a time, and undo what
  they can; probes of the credentials are applied late. Correct: cards, settings
  and keys agree; a key belongs to an account; an id is never given away again.
* **Launch.** Files of earlier programs are moved and copied, keys moved between
  services, tables dropped and created, with a stop or a failure between any two
  steps. Correct: as if the move were one step; no key lost or revived.
* **Claude and Codex.** Their CLIs renew the same logins, the user replaces them,
  and reads are cached. Correct: a write hits the login it was meant for, a login
  stays redeemable, figures are filed under their account.
* **Logs.** Files grow, fork and move while they are read, and results are cached
  by file size. Correct: every turn counts once.
* **Updates.** Checks, installs, reloads and new releases overlap; requests may stall.
  Correct: what is installed was offered; the banner is released.
* **Reminders, claims, prices.** Delivery without a receipt, answers that are
  lost, state written in several files. Correct: told once and never dropped; a
  credit that was used is known; prices never get older.
* **Desktop.** A save changes the shortcut, launch at login and the window before
  it is written, and must take them back when a later step fails, while the main
  thread handles the tray and the focus, and each call to the desktop may fail. Correct: the desktop stays as the saved
  settings say; losing the focus hides a popup only.
* **Panel height.** Heights are saved by a thread after a pause, beside commands
  that decide the mode. Correct: the last decision stays; the mode shown is true.

## 2. Modules

| Module | Models | Checked in |
|---|---|---|
| `ProviderService` | the refresh coordination of one provider card, its membership (add / roll back / remove) | `MCProviderService`, `MCLive` |
| `RefreshLoop` | the loop's deadline arithmetic against the service's windows, one provider | `MCLive` |
| `Kickstart` | refresh batches, their evaluations, timers and prompts for one provider | `MCBackground` |
| `PricingStore` | passes over the price catalogues, cache files, `state.json`, releases | `MCStorage` |
| `Notifications` | the refresh tail's notification half, one metric | `MCAlerts` |
| `ResetReminders` | reminders of expiring reset credits, receipts, failures | `MCAlerts` |
| `ResetClaims` | the dialog, the command and the claim of a reset credit | `MCAlerts` |
| `SettingsSync` | the frontend's settings controller against the backend's commit path | `MCFrontend`, `MCSettingsSync` |
| `PanelHeight` | the panel's height: window session, saving thread, commands, reset, controller | `MCFrontend`, itself |
| `DataAdoption` | abstract: an earlier database is taken over in one step | refined by `DataMigration` |
| `DataMigration` | a launch: renames, copies, saved keys, quarantine, schema | `MCBackground` |
| `UsageLogs` | the scan of Codex's session logs with its cache | `MCStorage` |
| `ClaudeLogs` | the deduplication of Claude's log events | `MCStorage` |
| `ClaudeRefresh` | a fetch of Claude with its login, the credential cache, the CLI | `MCLogins` |
| `CodexRefresh` | a fetch of Codex over its login files, the CLI | `MCLogins` |
| `AccountLifecycle` | commands on named accounts, their keys, the credential detection | `MCLogins`, `MCAccountLifecycle` |
| `DesktopEffects` | what a save does to the desktop and takes back; the window, its dismissal, the tray | `MCAlerts` |
| `Updates` | checks and installs of an update, the pending one, the banner | `MCLive`, itself |
| `LiveProofs`, `AlertsProofs`, `BackgroundProofs`, `FrontendProofs`, `LoginsProofs`, `ProviderServiceProofs`, `ProviderServiceSafety`, `StorageProofs` | the theorems (section 6) | |

In every module definitions carry the source's names and a comment; the
definitions named "Faulty variant of X" are never used by a specification. They
are mutations of `X` that a plausible bug would produce; each property is
violated by one of them, so each says something about the code.

`MCLive`, `MCBackground`, `MCAlerts`, `MCFrontend`, `MCStorage` and `MCLogins`
check components that share no state in one run. The variable `part` is chosen
at the start and says which component's behaviour this is; the others keep their
initial values. The state space is the sum of the components' spaces, and no
interleaving is lost, because components that share nothing cannot disturb each
other. Where components do share state (the service's membership and the account
commands, the reminders and the card's credits) the state is in one module.

One provider (or one metric) per module is no loss: the maps of the code are
keyed by the provider id and every operation touches one key, under a lock that
it holds for that operation only. What the modules do not show is contention
between providers for the blocking thread pool.

### 2.1 ProviderService

One action is one lock section, or one stretch between two awaits.

| Code | Model |
|---|---|
| `refresh` | `Call`, `CheckFresh`, `CheckBackoff`, `Lookup`, `Join` (= `StartRunner`, `ReturnWhileDraining`, `QueueFollowUp` or `ShareAttempt`), `Wake` |
| `run_refresh_flight` | `FindRuntime` / `SettleWithoutRuntime`, `BeginAttempt`, `WorkerReturns` / `TimeOut`, ..., `SettleInTime`, `Publish`, `SettleLate`, `PublishLate`, `Drained`, `Abandon` |
| `apply_refresh_result` | `SaveSnapshot`, `ApplyResult`, `ReadBack` |
| freshness bookkeeping | `CheckTracked`, `MarkLive`, `ClearFailed`, `MarkFailed`, `FreshExpires`, `BackoffExpires` |
| `add_api_key_account`, `remove_api_key_account`, `register_provider`, `unregister_provider` | `RegistryAdd`, `LoadCached`, `InsertState`, `InsertFlight`, `Reconcile`, `RegistryRemove`, `DropState`, `DropFlight`, `DropFresh`, `DropFailed`, `Deregister` |

`RefreshFlightState` is the record `flight[f]` (`active` = `runner_active`,
`attempt` = `attempt_generation` with 0 for `None`, `requested`, `completed`,
`abandons`), `published[f]` the value of its watch channel. A snapshot is the serial
number of the attempt that fetched it; timers may fire at any time, so every
order of a timeout and a late answer is a behaviour.

### 2.2 Kickstart

`task[t]` is a slot for any async task that ends in the refresh tail: a batch, a
sleeping timer, or a prompt. `armed` is the provider's `SCHEDULED` entry,
`cooling` its attempt cooldown, `failures` its count in `KICK_OUTCOMES`. The
locks of `evaluate` are separate actions: `ReadSettings`, `Retain`,
`CancelOrphan`, `LookAtTarget`, `ObserveAlive`, `ScheduleAtReset`,
`CancelScheduled`, `Refuses`, `RecordAttempt`, `Charge`. An aborted task is
dropped at its next await and not before, as tokio does.

### 2.3 RefreshLoop

Time is counted in ticks of the monotonic clock: `left` is the time to
`next_refresh`, `liveAge` and `failAge` are the ages of the provider's marks.
The two ages and the age of the figures (`shown`) stop at the value beyond which
nothing distinguishes them. Refreshes from elsewhere (a button, a saved key) may
succeed (`RefreshElsewhere`) or fail (`RefreshFailsElsewhere`) at any time.

### 2.4 Notifications

A window has a reset time (an integer; it can be nudged forward), a severity and
a flag for less than a tenth left. The module follows `finish_refresh` through
its lock sections: `Begin`, `Prune` or `Evaluate`, `Partition`, `Deliver`,
`RecordFailures`, `RecordSuccesses`, `RollbackFailed`, `RollbackDeferred`. `tail[t]`
is the end of a refresh; tails overlap, so `Begin` keeps the card and the
preferences that the tail has, which may be older than those of a tail that
evaluated before. A step of the bookkeeping that would go through an empty list
changes nothing and is left out.

`told`, `owed`, `buried`, `bygone` and `term` are history variables that only the
properties read. `owed` are the milestones raised and not delivered that still
apply; `bygone[t]` those in tail `t`'s hand whose crossing another tail has seen
end; `buried` those of `owed` over which an outdated rollback has written: the
rollback of a bygone alert, or of one that the first reading of a window raised,
which puts back what was found before. `term` is the latest reset evaluated.

### 2.5 SettingsSync

The settings document is split by who wrote it: `mine` is the number of the
user's last edit, `theirs` the set of changes that come from elsewhere (a
detected provider that is enabled, the update-check stamp). A `View` is a
document with the revision under which it was read.

| Code | Model |
|---|---|
| `SettingsController` fields | `ui` (`state` = `shown`, `#serverState` = `server`, `#pendingExternalState` = `parked`, `#externalRefreshPending` = `refresh`, `#draftExternalState` = `external`), `sequence`, `generation`; `#pendingMutations` is `Len(queue)` |
| `save`, `runMutation`, `#enqueueMutation` | `Save`, `Reset`, `Stamp` with `Enqueue`; `Answer`, `Failure`, `Reloaded` with `Proceed` |
| `acceptExternalState`, `refreshIfIdle` | `SettingsEvent`, `Focus`, `FocusAnswer` |
| `beginCustomizationGesture`, `setDraftSettings`, `endCustomizationGesture` (`App.svelte`) | `BeginGesture`, `Drag`, `DropGesture`, `CancelGesture` |
| `save_app_settings_inner`, `record_update_check`, resets, `update_internal` | `Commit` / `CommitFails`, `NextRevision`, `Emit`, `AnswerSave` by the head's `call.phase` |
| `apply_credential_detection`, `reconcile_provider_credential_state` and their callers | `Change`, `ChangeRevision`, `ChangeEmitted` |

A JavaScript handler runs up to its next await, microtasks included, so the end
of one mutation and the start of the next are one step. The document becomes
visible to readers before its revision does. Events and answers arrive in any
order. The account revision follows the same path and is left out;
`get_app_settings` answers always, as its command does. `made`, `wanted`,
`refused`, `restored` and a task's `alone` are history.

### 2.6 DataAdoption and DataMigration

`fs[place][kind]` is a database file, its log or its shared-memory file, under
one of three names; a file carries what it came `of`, the transactions in it and
the columns of its schema. `pc` walks through `rename_legacy_database`, the copy
of the earlier application's directory, `migrate_legacy_keys`, `Storage::open`
with its quarantine of a corrupt database, and the schema upgrades. `Crash` can
happen between any two file operations, and each can fail. `keys[service][a]` is
the credential store; the user sets keys while the program runs.

`DataAdoption` states what that should amount to without files: the
application's own old database becomes the current one in one step with every
transaction; a foreign one is copied whole, or the copy was cut short and is
known to be (`torn`); nothing else makes transactions appear or disappear.
`Adoption == INSTANCE DataAdoption WITH ...` maps the files to databases: a
database is what SQLite would read from file and log together, and `stale` says
that a log without its database is waiting. `AdoptsAtomically` is the refinement.

Assumed of SQLite: a corrupt or foreign log is reported at open; a stray log
beside an empty database is deleted.

### 2.7 ClaudeRefresh

A login is the number of a pair of tokens. `run` is the fetch, one action per
stretch between two accesses of the store, the cache or the network: load
(`ReadFile`, `CacheHit`, `CacheMiss`, `ReadStore`, `InsertRead`), activation of
the login (`Activate`, `ClearGood`, `ClearLimit`), `Fetch`, renewal (`Redeem`,
`Guarded`, `WriteFile` / `WriteStore`, `Replace`), rate limit and `Leave`. The cache
entry is filled outside its lock by the fetch and by probes. Claude Code renews
its login and the user signs in and out at any time; a sign-in changes login and
identity together. `since` (what the store held since this program last wrote),
`shown` and `raced` (a read overlapped an invalidation) are history.

### 2.8 CodexRefresh

`file[p]` is the login in the p-th file of `auth_paths`. The fetch follows
`refresh_candidate`: `Load` reads every file, `Pick` takes the next candidate,
`Reload` reads it anew before a redemption, `Redeem`, then `Guard` and `Write` of
`update_and_save_if_current` (two steps: nothing is held between them), `Fetch`,
and `Check`, after which the figures count. A refresh token can be redeemed once.
`alive` is the server's view; the CLI redeems in `CliRedeems` and stores in `CliStores`.

### 2.9 AccountLifecycle

`add_api_key_account`, `remove_api_key_account`, `save_api_key`,
`delete_api_key`, both resets and the credential detection, each as a sequence of
the steps between its locks (`cmd` is `command_mutation`, `cred` is
`credential_mutation`), over database, credential store, registry, service and
settings. Steps fail and are rolled back; the program can crash and be launched
again. Ids are allocated by `allocate_api_key_account` from a name's base and the
suffixes of later attempts.

### 2.10 ResetReminders and ResetClaims

`Notify`, `Evaluate`, `Save`, `NotifyEnds` follow `reset_expiry::notify`: the
delivery, then the receipt in the database, and after a failure the retry after
five minutes and then an hour (`RetrySoon`, `RetryLate`). `Restart` forgets what
is in memory. `lead` is the user's lead time.

In `ResetClaims` the dialog makes one request id per expiry (`BeginClaim`), the
claim lists the credits of each login, remembers the match and consumes it; the
answer may be lost after the server has acted. `settled` is what the user was told.

### 2.11 PricingStore

`caller[c]` is between `has_due_source` and the exchange of `refresh_in_flight`;
`pass` is the thread that fetches what is due, writes each answer to its cache
file, rebuilds the prices (`LoadPricing`, `Winner`: the newer of file and bundle) and
writes `state.json` last. `Relaunch` may come between any two of these steps and
with a newer bundle. The content of a source is its edition, which is its ETag too.

### 2.12 UsageLogs and ClaudeLogs

`log[s]` is a session's file: metadata, tasks, counts with running totals. The
CLI appends, repeats a total, forks a session (the child begins with its
parent's lines) and moves files to the archive, while `scan[w]` discovers the
files, takes cached events of a file whose size is unchanged (`Hit`) or reads it,
parses it and saves the row (`Miss`, `Reads`, `Saves`) while another scan may run.
`ParseLine` is the parser's state machine. `Reported` is what a scan returns.

`ClaudeLogs` feeds events in any order to `deduplicate`; `Reference(m)` says without
order what should count: the largest of the main events of each request, side
chains only where there is no main event.

### 2.13 PanelHeight

`Resized` sends a height to the thread that `WorkerReceives` and, after a pause,
`WorkerSaves`; `generation` tells it which drag a height belongs to. `Execute`,
`BeginManual`, `Finish` and `BeginReset` / `Rollback` are the commands, each one step under
`persistence`. On the frontend's side `ChangeMode`, `Focus` and their answers
(`GetArrives`, `Settle`) carry the request number that decides who may set the
mode. `decided`, `recorded` and `overtaken` are history.


### 2.14 DesktopEffects

`Save`, `SetLogin`, `BeginMode` to `ShowInMode` and `Persist` are
`save_app_settings_inner` in its order: the shortcut, launch at login, the
window's mode, the document. `job.applied` is `AppliedSideEffects`; when a step
fails, `Undo` and the second pass through the window's mode are
`rollback_settings_side_effects`. The steps of `apply_window_mode` run on the
command's thread, so the main thread may act between any two: `FocusLost` (the
window lost the focus, and is a popup) and `Schedule` (the guard's token is read) are
two of them, `Dismiss` follows 100 ms later and is void once `Cancel` has moved the
guard's generation. The main thread runs one handler at a time (`Free`); `Toggle`, `Open` and `Close` are the
tray, the shortcut, the second launch and the window's controls; `TrayLost` is
the loss of the tray on Linux. `Relaunch` may come at any moment. `ShortcutChanges` gives
the results of `apply_shortcut_change`: the old shortcut may stay registered when it
cannot be given up, which the code ignores. `astray` names the parts that this, a
failed rollback, a crash or somebody else has moved.

### 2.15 Updates

`op` is who holds `UpdateCoordinator.operation` and how far it is, `pending` what
the last check found, `ui` the frontend's `UpdateController`, `answer` the
command's result on its way. `Check` and `Install` begin an operation;
`CheckAnswered`, `CheckFails`, `Requeried`, `RequeryFails` are the server's
answers, which may never come; `Downloaded`, `DownloadRetries`, `PauseEnds`,
`DownloadFails` are `download_with_watchdog`, tried twice. `Releases` publishes a
version at any time; `Reload` and `Relaunch` forget the frontend's or the whole
state. `offered` and `failed` are history.
## 3. Runs that pass

Counts are TLC's, breadth-first and complete.

| Run | Bounds | Distinct states | What it shows |
|---|---|---|---|
| `service` | 3 calls, 2 flights, removable account; at most two calls around an add or a removal | 2,549,742 | one runner per flight; every generation merged once or given up; calls served by an attempt that began after a forced call; card, cache and backoff agree and figures never go back |
| `refresh_live` | loop: interval 5, backoff 1, batches up to 7, refreshes from elsewhere that succeed or fail; service: 2 calls, 1 flight, removable; updates: 3 releases; fairness | 401,254 | cadence, bounded age of the figures, failures retried; flights are released with everything asked of them settled; the update that is installed is the one that was offered |
| `alerts` | reminders: 3 credits, 8 hours, lead times 2 and 8; claims: 2 at once, 2 request ids, 2 logins; pace: 2 overlapping tails with 4 readings, times 0..2, 3 levels, threshold 2, 1 skipped cycle; desktop: 2 shortcuts, 2 saves, 1 failed call, 1 dismissal that waits, 1 launch or change from outside | 2,877,158 | reminded once and not dropped; a used credit is known; pace alerts told once per window and an undelivered one stays pending although the tails overlap; the desktop follows the saved settings; only a popup is dismissed |
| `frontend` | settings: 2 edits, 1 change or stamp, 1 focus read, 1 failure, fairness; panel: 2 heights, 3 gestures, 1 resize, 1 failure | 1,268,881 | at rest the frontend shows what is saved; the last edit is the saved one or was refused; a save that waited behind nothing overwrites no change; the queue drains; the last decision on the height stays; the mode shown is the session's |
| `background` | kickstart: 2 tasks, 2 resets, limit 2; launch: 1 account, 1 file besides the database, one earlier schema | 4,693,951 | one prompt at a time, a breaker that is not overcharged, the armed timer is live; the launch is an atomic move, no key lost or revived, the schema completes |
| `storage` | prices: 2 refreshes, 2 sources, interval 2, retry 1, time 3, 2 editions, 1 release, 2 launches; scans: 1 scanner, 2 sessions, 4 seconds; events: 4 of one message in 3 requests | 4,379,563 | sources asked at their intervals, prices never older, a "not modified" stands for prices in force; every turn counts once; the order of events does not matter |
| `logins` | 2 accounts, 3 logins; Claude: 1 probe; Codex: 2 files, 1 lost answer or failed write; named accounts: 2 commands at a time, 4 commands, 2 failures, 1 relaunch, 2 names of one id | 5,595,874 | figures belong to the card's account; a write is seen by the next read; a login stays redeemable; a snapshot fits its login; cards agree with the settings and the service, keys with their accounts; stale probes are discarded |

Why the bounds suffice.

* *Calls and flights*: each call can also be a runner; with three, one runner
  drains, a second call queues and a third shares or finds it draining, which are
  all the branches of `refresh`. Two flights are an old and a new one; a third
  would be a second old one, and old flights share no state. The constraint
  `FewCallsAroundEdits` leaves out three calls at once *during* an add or a
  removal: the edit is then the third party. The theorems of section 6 need none.
* *Loop*: a tick is a minute, interval and backoff are the code's, and batches may
  exceed the interval.
* *Tasks and resets*: two tasks overlap in every pair of lock sections, two resets
  make a timer's target differ from the next one; the breaker's limit is the code's.
* *Prices*: two ticks between fetches and one after a failure make a source due for
  either reason; three ticks hold a fetch, a failure and the next one. Two
  launches and a release give every order of cache, bundle and `state.json`.
* *Pace*: three times give a window, its nudged reset and its successor. Four readings
  are one that primes the entry, one that raises, one that sees the metric recover or
  raises again, and one after it, shared by the two tails in any way. The three
  levels are enough left, close, and all spent with less than a tenth left. The
  thresholds are smaller than the code's (3 and 12), and larger values only repeat the
  counting steps. The theorems need none of this.
* *Reminders*: eight hours hold both lead times and both retries. *Claims*: two
  ids are a claim and its retry; a cache of one entry is emptied by the second.
* *Settings*: two edits are one under way and one behind it, which a failure of
  the first cancels; the change can come between any two steps of either. The
  safety properties were also checked with three edits.
* *Panel*: three gestures are a drag, a mode change and a reset, in any order.
* *Launch*: accounts are handled one by one and share the marker only; the other
  directory items are copied by the same loop. One crash or failure can follow
  the other without a bound.
* *Scans*: two sessions are a parent and its fork; four seconds hold a turn of
  the parent, the fork, and a turn of each after it.
* *Named accounts*: four commands add an account with its key, remove it and add it
  again, two at a time, with a reset or a detection in the place of any of them. Six
  commands were checked as well, on a larger instance of the same module.
* *Desktop*: the second save begins where the first one's rollback left the desktop;
  one failed call starts a rollback, or leaves the old shortcut registered. Two failures, with which the rollback itself
  fails, were checked as well. A second dismissal that waits would be void with the first.
* *Logins*: three are the one that was loaded, the CLI's renewal and this program's.

* *Updates*: three releases are the one offered, one found by a later check, and one
  that is published while the second is downloaded.

Every bound is a CONSTANT.

`CHECK_DEADLOCK FALSE` is set wherever bounded commands, calls, gestures or
events end and nothing is left to do: in all runs but `alerts`.

Symmetry is used for interchangeable calls, flights, tasks, tails, resets, accounts and shortcuts,
in runs whose properties are invariants or action properties only.

## 4. Runs that find a violation

Each checks one statement that the repository makes and the code does not keep.

| Run | Statement | What happens |
|---|---|---|
| `lost_wakeup` | waiters are released (`service.rs:339-342`) | A runner that settled in time publishes with `send_replace` after releasing the lock. A second runner can settle and publish the next generation in between; the late publication puts the watch value back, and a call waiting for the newer generation, if it had not polled yet, never returns. |
| `overwritten` | "settings changed before they could be saved", a stale snapshot is rejected (`settings.rs:419`, test at `:2029`) | A save takes its document when it is queued and its revision when it is sent, from the answer before it. What that answer contains and the document lacks (an update-check stamp, a provider enabled meanwhile) is overwritten. |
| `pinned_by_reset` | a stored height "never pins the panel to manual mode on its own" (`window.rs:59-61`) | "Reset all settings" makes the panel automatic before it saves. When the save fails the rollback restores manual mode whenever there was a stored height, although the panel was automatic before (`window.rs:214`). |
| `stalled_check` | the banner is not held "in 'Downloading…' forever" (`updates.rs:253-255`) | The download has a time limit, because the updater has none of its own. After a failed install the next one checks anew first (`updates.rs:330`), without a limit, while the banner shows the download; when that request stalls, the operation lock and the banner stay taken. |
| `id_reuse` | a retired id is never given to another account (`storage.rs:745-746`, `commands/provider.rs:440`) | The later suffixes are the same for every name, and retired ids are remembered by name and suffix: after two removals of one name and one of another, the second name gets the first one's id. |

## 5. Fairness

* `ProviderService`: weak fairness of each call's own steps and of each runner's,
  its timers included: the tokio runtime polls ready tasks and fires timers. A
  worker's return (`WorkerReturns`, `Drained`) is *not* fair: a provider may
  hang for ever. Nor are calls and account edits.
* `RefreshLoop`: weak fairness of the loop's steps and of the clock. `FetchFails`
  or `FetchSucceeds` must come because `PROVIDER_REFRESH_TIMEOUT` bounds a fetch.
  `MCLive` has the fairness of these two modules.
* `Updates` (`stalled_check`): weak fairness of the steps of a download, which
  has a time limit, of the pause before its retry, a timer, and of answers on
  their way to the frontend. A request to the server is *not* fair: the updater
  sets no time limit (`updates.rs:253`). Nor is the user.
* `SettingsSync`: weak fairness of the commands under way, of a change that has
  begun, of reads and of the event loop. Users, focus changes and new changes are
  not fair. `MCFrontend` has this fairness; the panel needs none.
* The other modules are checked for safety only: what they promise is that
  something is not lost, repeated or mixed up. Their retries are driven by the
  refresh loop, whose liveness `refresh_live` checks.

## 6. What is proved

Every invariant and every action property that a passing run checks is a theorem
for every value of the constants. A component that is checked in an `MC` module is proved about there
(`BackgroundProofs` extends `MCBackground`, and so on): its theorems speak of
`MCSpec`, or of the specification `Spec` of the component the `MC` module extends.

What the constants are assumed to be is named in the modules, and TLC evaluates it:

* `NoFlightAssumption`, `NoResetAssumption`, `NoTimerAssumption`,
  `OutcomeAssumption`, `KeysAssumption`: the values that stand for "none" are not
  members of the sets they are added to. `RemovableAssumption`: a Boolean.
* `LimitAssumption`, `IntervalAssumption`, `BackoffAssumption`, `BatchAssumption`:
  the breaker's limit and the refresh interval are positive, the others naturals.
* `CreditsExpire`, `WaitsGrow`: credits expire within the horizon, and the wait
  after a third failure is no shorter than the first.
* `ClaimAssumption`, `PendingAssumption`, `PaceAssumption`, `VersionAssumption`,
  `ClaudeAssumption`: bounds are numbers, there is a first release and a first
  login, preferences are sets of milestones, levels are severities with a flag, an account that is not resolved is none
  of the accounts.
* `SchemaAssumption`: earlier schemas are sets of the columns of today's.
* `LogsAssumption`: there is a first session, and the tokens of an event are naturals.

Where a theorem needs more, its statement has it as a hypothesis: `Bounds` (there
is a login file, and a login), `Intervals` (a failed price source is asked again no
later than an answered one) and `Days` (the horizon is a number). `NoAlertLost` and
`NoMilestoneTwice` hold for any set of overlapping tails.

| Component | Theorem: property |
|---|---|
| `ProviderService` | `TypeCorrect`, `CoordinationHolds` (the inductive invariant), `OneRunnerPerFlight`: `SingleRunner`, `MergedAtMostOnce`, `FollowUpsCoalesce`, `GenerationsAccounted`: `EveryGenerationAccounted`, `CallsGetTheirAttempt`: `CallsAreServed`, `CardAndServiceAgree`: `CardAgreesWithService` |
| `RefreshLoop` | `LoopTypeCorrect`, `CadenceHolds`: `CadenceKept`, `FiguresStayYoung`: `FiguresKeptYoung` |
| `Kickstart` | `KickstartTypeCorrect`, `ArmedTimerStaysLive`: `ArmedTimerIsLive`, `PromptsNeverOverlap`: `OnePrompt`, `BreakerIsNeverOvercharged`: `BreakerHolds` |
| `PricingStore` | `SourcesAreAskedRarely`: `FetchesAreSpaced`, `PricesGrow`: `PricesNeverOlder`, `AnswersAreInForce`: `AnswersAreServed` |
| `UsageLogs` | `ScansHold` (the inductive invariant), `TurnsAreCountedOnce`: `TurnsCountOnce` |
| `ClaudeLogs` | `EventsHold` (the inductive invariant), `EventsCountInAnyOrder`: `OrderDoesNotCount` |
| `ResetReminders` | `NoReminderTwice`: `RemindedOnce`, `DueIsTriedAgain`: `StaysDue` |
| `ResetClaims` | `UsesAreKnown`: `UseIsKnown` |
| `Notifications` | `NoAlertLost`: `StaysPending`, `NoMilestoneTwice`: `ToldOnce` |
| `DesktopEffects` | `DesktopFollows`: `DesktopFollowsSettings`, `OnlyPopupsAreDismissed`: `DismissedIsPopup` |
| `DataMigration` | `LaunchAdoptsAtomically`: `AdoptsAtomically` (the refinement of `DataAdoption`), `KeysFollowTheUser`: `KeyFollowsUser`, `SchemaIsComplete`: `SchemaComplete` |
| `SettingsSync` | `FrontendConverges`: `Converged`, `LastEditIsSaved`: `LastEditKept`, `LoneSavesLoseNothing`: `LoneSaveKeepsChanges` |
| `PanelHeight` | `DecisionsStayStored`: `LastDecisionKept`, `ModeIsFollowed`: `ModeIsShown` |
| `ClaudeRefresh` | `FiguresAreTheCards`: `FiguresBelongToCard`, `OwnWritesAreSeen`: `OwnWriteIsSeen` |
| `CodexRefresh` | `RenewingLosesNoLogin`: `LoginsStayUsable`, `SnapshotsAreFiledRight`: `SnapshotFitsLogin` |
| `AccountLifecycle` | `CardsAndSettingsAgree`: `CardsAgree`, `SavedKeysAreOwned`: `KeysAreOwned`, `StaleProbesAreDiscarded`: `StaleProbeDiscarded` |
| `Updates` | `OfferedHolds`: `OfferedIsInstalled` |

The type theorems, `MergedAtMostOnce` and `FollowUpsCoalesce` state invariants that
no run lists: they are steps of the arguments below.

Each argument is an invariant that every step keeps. What it has to say beyond the
property is what the code relies on without saying so.

**The service** (`Coordinated`). `SingleRunner` is not inductive: that a flight is not
active must mean that no runner owns it. `FlightShape` (the attempt is `completed +
1` or none, at most one more is requested, nothing unsettled is published),
`RunnerShape` (where a runner is fixes `attempt`, `completed` and its own
generation), `HistoryShape` (merged generations are completed ones, or the running
one) and `CallShape` (a forced waiter's target has not begun before it joined) are
added. A runner that owns a flight is then the only one that can change
`completed`, which gives `SingleRunner` and `GenerationMergedOnce`; `CallsAreServed`
follows from `published <= completed`. The account edits and the marks leave all of
this alone (`ServiceOnly`), so the results hold through every remove and re-add.

**The card** (`CardInv`). Whoever joins or runs does so on a flight that was handed
out (`FlightsUsed`). While the id has its first flight only one runner can therefore
write card and storage (`SoleRunner`), and its steps can be followed: until it merges,
the card says that it refreshes, which excuses the snapshot saved before it is shown;
its serial number is not below that of the snapshot shown; when it ends without
having lifted the backoff, it has read an error from the card (`RunnerFits`).

**Kickstart.** Check and charge of the breaker are separate lock sections, so
`BreakerHolds` needs `ChargeIsCovered`: one that passed the check may only be
charged while no other attempt is under way, which `OnePrompt` and the cooldown
give. `ArmedTimerIsLive` holds because every step that ends a timer removes or
replaces its entry.

**Loop.** `CadenceKept` needs `Anchored` (deadline plus elapsed time is the gap),
`FiguresKeptYoung` needs `YoungSince` (the mark's age is the figures' age, and
whoever was passed over was younger than an interval).

**Updates** (`UInv`). At rest the banner offers what is pending, unless something
failed; an operation under way works on what was offered when it began
(`WorksOnOffer`), and an answer on its way to the frontend is of the operation the
frontend waits for (`AwaitsCheck`, `AwaitsInstall`).

**Prices** (`StoreInv`). `SnapshotsAge` orders file and bundle by time and by edition
alike, so that the choice by time is the choice of the newer edition
(`WinnerIsNewer`). `PricesFit` bounds the prices from both sides: not ahead of file
and bundle, which makes each load grow them, and not behind the file unless a load
is due (`Loaded`). `StatesKnow` says which states know of the last fetch at each
point of a pass: the shared ones until a source is fetched, then the pass's own.

**Scans** (`ScansInv`). Three things are to be known of any log, whatever the CLI has
written to it. A turn's event has the second of the turn and one token (`Turn`), so
that two events of one turn are equal and two turns' are not. A total that grows either
belongs to a turn that ended, or is a replayed line that no task before it lets
count (`LineFits`, `Frozen`): a fork may not copy a task that would open the child's
gate early, and it cannot, because what it copies began before it. And whoever has begun a
task of its own has an open gate (`LogsFit`); without that, the first turn of a child
could go missing. From this follows that the parser makes of each log the
turns in it, each once (`EventsAreTurns`). What is cached under a size, or held by a
scan between reading and saving, is what the parser made of the file when it had
*at least* that many lines (`ReadFrom`): the file may have grown between the
metadata and the read, or since, and it only grows. A scan that began when some turns had
ended has each of them at a path it is still to read, or has its event, or has missed a
file (`Found`). Copies in the archive and replays in children are then taken away by
`Distinct`, whose sum is the number of the turns found.

**Claude's events** (`EventsInv`). Two events meet if they count as one: same
message, and same request or one of them of a side chain. No two events that are kept
meet (`Apart`), each event that was fed is covered by one that is kept (`Covered`), and
each that is kept was fed (`Drawn`). `Apart` is what could break when a main event replaces
a side chain's: it now has another request and might meet a third event.
`ReplacedMeets` shows that it meets nothing that the replaced one did not meet.
The two maps of the code, by request and by message, find whatever an event
meets (`KeysFit`, `ListsFit`, `CollisionMeets`). What is kept of a message is
then one side chain's event, or the greatest main event of each request, in any order.

**Folds.** Both properties are about what a fold computes: the parser's over the lines of a log,
and the sums. The library's induction theorems take the statement as a parameter and
are out of reach, so the statement is made a set: the numbers (`NatSets`) or subsets
(`SetsOfSubsets`) for which it holds. A least number outside it (`LeastNat`, from
`WFMin` and `NatLessThanWellFounded`) would be a counterexample with none below.
With that, the recursive functions behind `FoldLeft` and `SumFunction` are shown to exist and to
be unique, a sum loses any chosen element (`SumTakesAny`), sums that correspond are
equal (`SumsCorrespond`), and the parser's state after a line is its step from the state
before (`StateSteps`), the same in two logs with a common beginning (`SamePrefix`).

**Reminders** (`ReminderInv`). `Remembered` says that what was shown is in `sent` or
has its receipt until it has expired *and* no round will come to it: time may pass
the expiry while a round is under way, and what is pruned is pruned when a round
begins. `WaitsFit` bounds the retry times by the round that set them, and
`Accounted` collects what the round has passed over; together they give `StaysDue`.

**Claims** (`ClaimInv`). A request id is of one dialog, and a dialog of one expiry. A
claim under way works on the credit that was matched for its id (`WorksOnMatch`), so
that what was used under an id is in the cache of matches until it is emptied
(`UsedIsMatched`).

**Notifications** (`PaceInv`). An alert in a tail's hand is *open* until it is delivered
or its crossing is over. Tails never have the same alert open (`Apart`): what is open
has fired (`OpenFits`), and what has fired is not raised. Taking an open alert back
puts the entry below its milestone, unless it was raised by the first reading of a
window (`Found`). What is owed and not written over is open or can be raised
(`Kept`). A rollback of one tail must not disturb what another one's alert needs:
`Close` and `RunningOut` exclude each other, so an open `WillRunOut` means that no
`CuttingItClose` is owed, and the two others are independent. What was told has
fired, and so is in nobody's hand; `ResetsFit` ties the stored reset to the latest one
evaluated, below which only an older reading puts it.

**Desktop** (`DInv`). A save in progress has applied what its phase says
(`JobFits`); shortcuts, launch at login and mode follow the saved settings except
where that save is at work (`ShortcutFollows`, `LoginFollows`, `ModeFollows`). What
`ShortcutChanges` returns is exact, or `astray` says so. A dismissal whose token is a
popup's is void, or waits for the second cancellation, once the window is standalone
(`Dismissing`).

**Launch.** The refinement (`FileInv`): a write-ahead log without its database is
half written, or moved ahead of it (`StrayLog`); a log fits the database beside it
(`LogFits`); and each phase of the launch says where the user's data are. Every
file operation, crash and failure is then one step of `DataAdoption` or none
(`Adopts`). The keys (`KeyInv`): the marker is set before the first key is read,
until the pass is over an account's last key is one the pass can find (`Findable`), and
what the pass deletes it has written before (`Replaced`). The schema: each statement finds the columns it needs, because
the earlier ones made them.

**Settings** (`SyncInv`). Every state on its way or kept is genuine: of an older
revision, or what is saved, unless its revision is being written (`ViewsFit`). The
last revision has reached the frontend or something under way will bring it
(`Reaches`); an idle frontend shows the server's state (`IdleFits`). Cancelled tasks
are in front of the queue, because a failure cancels everything behind it and later
tasks are of the new generation (`QueueFits`); the edit the user wants is therefore
that of the last task ahead, or the saved one (`EditFits`). A save that found the
queue empty has the revision and the changes of one and the same state (`AloneFits`).

**Panel.** `HeightInv`: a queued height outlives the drag it belongs to, and is
written when its pause is over. `PendingFits` says of everything in the channel and in the
thread's hand that it is of an earlier generation, or of this one with a height
the window has had in it. Every decision begins a generation, so what it finds
waiting is never written. `ModeInv`: something under way ends by asking for the mode
(`Asking`), or the mode is shown or the answer that counts will bring it
(`Following`). The change that settles last has the newest request, unless the end
of a drag asks after it (`ChangesAsk`).

**Claude** (`ClaudeInv`). Unless a read overlapped a write, what the cache or a read has
is of what the store held since the program's last own write (`Observing`). The login
that a fetch holds is the active one (`Held`), and of the card's account unless the
user has switched twice (`Switched`); figures that are kept are of the account in use
(`LastGood`). The code does not exclude that a renewal by the program, compared with
the store before the user signed in anew and written after it, takes the place of the
user's login: `FiguresBelongToCard` names this exception (section 8), which the
proof's invariant showed and the run's three logins do not reach.

**Codex** (`CodexInv`). `LoginsStayUsable` needs to know where copies of a login can
be: a login is in one file at most (`FilesDiffer`), what the fetch has loaded or holds
comes from that file (`LoadedFits`, `HeldFits`), a minted login is nowhere yet
(`MintedFits`), and the CLI renews one file's login (`CliFits`). Whoever redeems
a login then takes it from the only file that has it, and the excuse "on its way
to the file" names that file. `SnapshotFitsLogin` follows from `HeldFits`.

**Accounts** (`AccountsInv`). The command lock is held by whoever adds, removes or
renames (`CommandHeld`); service and layouts differ from the cards only for the
account of that command (`EntriesFit`, `LayoutsFit`). A removal deletes the key
before the record (`KeysInv`). While a key is changed, every plan made before is
outdated or is known to have been made during a change; what the others have not found
is not there (`ProbesInv`).
## 7. What is only model-checked

* Liveness (`FlightsComeToRest`, `FailuresAreRetried`, `QueueDrains`): TLAPS has no
  rules for fairness here.

No operator of the models is recursive. The modules without theorems define
`TypeOK` for their readers; the runs spend their properties on the others.

## 8. Observations without a run

Service and loop:

* An account removed between `CheckTracked` and `MarkLive` leaves a freshness
  mark for its id (`service.rs:419-427`); the mark is read only if the id comes back.
* `consecutive_abandons` is reset by a worker that drains in its grace
  (`service.rs:483`), not by an attempt that ends in time.
* The freshness mark is younger than the interval at the next pass, so a healthy
  provider may be fetched by every other pass only, although `kickstart.rs:18`
  speaks of "every 5-minute refresh".
* A forced refresh that fails restarts the failure backoff (`service.rs:431-435`), so
  forced refreshes that keep failing, one before each pass, keep the loop from
  trying by itself. `FailuresAreRetried` names that case; each of them is a try.
* The suspend check of the loop runs after the whole wait
  (`refresh_loop.rs:49-55`), so it sets the deadline to the present, which it
  already is; it does not collapse the wait as the comment at `:43-46` says.

Kickstart:

* A woken timer removes the entry of the timer that has replaced it
  (`kickstart.rs:558`), and the next evaluation arms another: two sleep although
  `kickstart.rs:33` says "one armed reset timer per provider".
* `evaluate` returns at once when the kickstart list is empty
  (`kickstart.rs:386`): the provider that was taken off it last keeps its timer,
  which then finds it opted out, and its breaker count.
* The tail of a batch that did not refetch a provider sees that provider's reset
  pass by time alone, and may prompt, although `kickstart.rs:609-611` wants a
  session that is not yet refreshed not to look eligible.

Notifications:

* The rollback of an alert that the first reading of a fresh window raised restores the
  severity of the window before (`pacing.rs:320`), and the alert is not raised again,
  although failed alerts are to "stay pending" (`pacing.rs:208`). One tail is
  enough. `buried` has these; without that exception the property is violated.
* With two overlapping tails a rollback comes after another tail's evaluation
  (`pacing.rs:259-273`). If that evaluation has seen the metric recover, the rollback
  arms the milestone for the next crossing although it may have been shown already,
  and puts an old severity over the one that was found. `bygone` and `buried` have
  these: `ToldOnce` and `StaysPending` hold for everything else.
* A tail with an older card sets the stored reset back (`pacing.rs:363`). The next
  reading of the same window then counts as the first of a fresh one and arms
  every milestone again. `SeemsBegun` has this case.
* An alert in a tail's hand is shown even if another tail has meanwhile seen the metric
  recover; it is not counted as told for the next crossing.
* Each *alert* of a metric that sits out uses up one of its skipped cycles
  (`pacing.rs:218-223`), so two alerts in a cycle use two.
* On macOS a notification that is shown after the ten-second wait
  (`notifications.rs:166`) counts as failed and is shown again.

Settings and panel:

* A settings answer, a reload or a late focus read replaces the state during a
  drag (`src/src/lib/settingsController.svelte.ts:76-78`, `:132`, `:179`): the
  draft is lost, and cancelling the drag then puts back the document it began
  with, which may be one whose save has failed. `restored` marks that case.
* A failed update-check stamp cancels the saves queued behind it without an error
  message, because only the mutation that failed decides about reporting
  (`settingsController.svelte.ts:137-139`).
* A focus refresh sent while a change of the height mode is pending takes its
  request number, and the answer of the change is ignored: the old mode stays
  shown until the next refresh. `overtaken` excuses that case.

Desktop:

* When the tray cannot be installed at launch the program becomes standalone
  after the window's mode has been applied (`lib.rs:384`, `:433`): the window stays
  hidden, without a taskbar entry, until a second launch or the shortcut shows it.
* `apply_window_mode` computes the chrome and the flag separately (`window.rs:358`,
  `:370`). A tray that goes away in between leaves a standalone window with a
  popup's chrome, and a `show` that fails then restores the flag read before.
  `astray` has `"mode"` in these cases.
* A switch to popup mode that cannot be shown restores the flag and cancels no
  dismissal (`window.rs:391-394`): the window that stays standalone may be hidden
  by the focus it lost in between. `"show"` in `astray` excuses that case.
* After launch at login was changed outside, the settings page shows the new value;
  switching it to the saved one changes nothing, because the save compares with the
  saved value (`commands/settings.rs:139`).
* A save that sets launch at login to what it already is, because it was switched
  outside, and then fails, is rolled back to the value saved before
  (`commands/settings.rs:103`), although the rollback is to undo "exactly what
  happened" (`:84-85`).
* The old global shortcut is given up without a look at the result (`lib.rs:528`). When
  that fails and the new one is registered, the save succeeds and both shortcuts stay
  registered until the next launch. `"shortcut"` in `astray` has this case.
* `is_floating` is asked when the focus is lost (`window.rs:905`) and the dismissal's
  token is read after it (`window.rs:852`). When the command's thread sets the mode and
  cancels what waits (`window.rs:370-374`) between the two, the token is a current one
  and the standalone window is hidden. `DismissedIsPopup` is about tokens that a popup
  gave out; the others are `late` and their dismissal is "raced".
* A hidden window is told to save memory after `hide` has returned
  (`window.rs:398-406`); a `show` from another thread in between leaves the memory
  target low on a visible window. This mark is not modelled.

Accounts:

* "Reset all settings" writes every account record back without its custom name;
  the next launch skips an API-key account without one. A record deleted between
  its reading and its writing comes back.
* An account is allocated outside the command lock: a removal in between leaves a
  card without a record. A removal takes no credential lock: a key saved
  meanwhile belongs to no account. Two removals with a reused id can delete the
  other account's key. `raced` excuses these, and no others.
* `record_provider_credential_mutation` counts a change before the key is written,
  so a plan made in between may override it; a removal deletes the key without counting.

Providers:

* A probe can put an old read of Claude's login back into the cache between the
  invalidation and the guard's read, although `claude/auth.rs:282` says the guard
  "has to read the store as it is now"; and the guard compares and then writes with
  nothing held in between, so a renewal by the CLI at that moment is overwritten, and so
  is the login of a user who signs in to another account then: the next fetch shows the
  account that was left under the name of the new one. Two changes of the account during
  one fetch defeat both identity checks.
* When the guard's read fails after a redemption the new tokens are not kept,
  although the message says they are active for this session.
* Codex's guard compares and then writes with nothing in between held; on a 401
  it redeems without reading the file again, so a login that the CLI has just
  renewed is reported as expired. After a failed save a second renewal ends in
  `AccountChanged`.

Others:

* Where two earlier programs left a key for one account, the pass takes that of the older
  program (`migration.rs:368-373`), whichever the user had last, and leaves the other
  in its service. `GivenFor` names that case. A key that the user deleted in an
  earlier program, while the program before it still held one, comes back too; the
  model counts what is left then as what the user had.
* A copy that was cut short counts as done at the next launch
  (`migration.rs:160`); a failed rename in place ends the launch.
* A retried claim starts from the first login again; closing the dialog drops its
  request id, and the 257th request empties the cache of matches
  (`reset_claim.rs`): a lost answer is then not recognised. `settled` excuses these.
* A "not modified" does not restore prices whose cache file became unreadable,
  and a clock that is set back delays refreshes.
* `updates.rs:21-22` says that installing does not query again, but an install
  takes the pending update, and after a failed one the next asks afresh. It may
  then install another version than the banner shows; `failed` excuses that case.

## 9. Not modelled, and the plan

Left out for good: request and response formats, rendering, drawing,
localisation, log redaction, the arithmetic of pace projections and prices
(floating-point functions of their inputs), window geometry and platform calls
(most of `window.rs`, `tray_*.rs`, `menu_bar.rs`), data types (`models.rs`), child
processes. The other providers (`grok`, `devin`, `kimi`, ...)
are a fetch with an outcome in `ProviderService`.

Left out of modelled parts: builds that cannot update themselves, with the errors and
the progress shown; the fan-out of `refresh_enabled_with_progress`;
environment tokens, scopes and further candidates of Claude; the macOS keychain
and documents without an account id of Codex; Pi's logs, daily sums and the
cached usage of `scan_or_cached_usage`; the panel's width; API-key accounts'
enabled flags. These repeat the control that is modelled, or are data.

Worth doing next, in this order:

1. the fan-out over several providers and the tail's order of updates;
2. the token rotation of the other providers (`grok/mod.rs`, `devin/mod.rs`), by the
   pattern of `CodexRefresh`;
3. an abstract specification of the settings (one document, its edits and its changes)
   that `SettingsSync` implements, with the refinement as a theorem.
