# A TLA+ development of drag

`drag` logs work to Tempo from a terminal; its companion `drag-tracking` collects local evidence
of a day (git commits, calendar files, Claude Code sessions), turns a provider's proposals into
approved worklogs and submits them unattended, through child `drag log` processes. A worklog is a
timesheet entry: submitted twice, it is somebody's invoice. The heart of this development is the
companion, because that is where processes, crashes, locks, a ledger and a remote service meet;
around it are the commands a user types, which meet a remote service that refuses, loses and
delays, and the local algorithms both rest on.

The modules are TLA+ (no PlusCal), checked with TLC on small instances (`MC*.tla`, `MC*.cfg`) and
proved with TLAPS for every value of the constants (`*Proofs.tla`). Paths below
are relative to the repository's root, `companion/` standing for `crates/drag-companion/src/`,
`cli/` for `crates/drag-cli/src/` and `drag/` for `crates/drag/src/`.

| Module | What it is |
| --- | --- |
| `WorklogExecution`, `WorklogExecutionProofs` | the submission path of one date: audit, coordinated run, execution, ledger, children, Tempo |
| `AtMostOnceSubmission` | what that path promises, as an abstract specification |
| `ReviewedRuns` | what must be agreed before work is logged: modes, proposals, resolutions, decisions, approvals |
| `Rollout` | stages, gates, incidents: when live mutation is allowed |
| `OperatorRetention` | what retention and purge may forget of a date while its requests are under way |
| `TrackingLifecycle`, `TrackingLifecycleProofs` | setup, pause, resume, uninstall, the scheduler, scheduled runs and catch-up |
| `TrackingSetup` | what the user chooses for tracking, and what becomes of it |
| `ClaudeHooks` | hooks in the settings of Claude Code, edited by two programs and the user; captured sessions |
| `AtomicRelocation` | what that move promises, as an abstract specification |
| `DataDirMigration`, `DataDirMigrationProofs` | how concurrent first invocations move a legacy store |
| `EvidenceJournal`, `EvidenceJournalProofs` | the journal, its import, supersession, retention and purge |
| `LocalSources` | calendar files and git repositories, collected while others change them |
| `WorkDay`, over `LocalTime` | a day of worklogs between the user, Tempo, the list and the companion's audit, in zones that change their offset |
| `Onboarding`, `OnboardingProofs`, over `SetupState` | the setup wizard, the unattended setup beside it, the configuration file |
| `ListSession`, `ListSessionProofs` | an interactive `drag list`: dates, reads ahead, cache, keys, terminal |
| `TempoCommands`, `TempoCommandsProofs` | the commands that talk to Tempo and Jira: listings, streams, deletions, retries, continuations |
| `DocumentCache` | Tempo's OpenAPI document in its two files |
| `TempoReference` | the commands generated from the document |
| `ListProjection` | field masks of `drag list` |
| `ReplayCorpus` | the replay harness |
| `Components`, `ComponentsProofs` | eleven components that share no state, composed; what is proved of each and of the composition |
| `MC...` | constants and symmetry for TLC |

Run TLC with `tlc -config X.cfg M` for the module and configuration of a run below, and TLAPS with
`tlapm M.tla`. `PROJECT.json` maps each definition that models code to its lines.

---

## 1. Inventory

Every process of the companion is short-lived: it runs one command and exits. What it knows
between commands is in its data directory: `companion.sqlite3` (evidence, proposals, policy
decisions, the mutation ledger, runs, leases), `journal.jsonl`, `config.json`, `scheduler.json`,
`rollout-state.json`, `scheduler.kill`, `approvals/DATE.json`, `runs/DATE.json`, `locks/`.

### Companion

| Component | State | Operations | Talks to | Hard behaviour | What makes it correct | Module |
| --- | --- | --- | --- | --- | --- | --- |
| Worklog execution (`execution.rs`) | `mutation_operations`, `mutation_attempts` | gate, bind, reconcile, reread, record intent, spawn, classify, confirm | gateway, locks, Tempo through children | a crash on either side of a POST; an answer that is late, lost or unreadable; a lease that expires under its owner | a worklog is submitted at most once; nothing is submitted past one in doubt; `failed` is never retried, so it must be true | `WorklogExecution` |
| Run coordination (`run_coordination.rs`) | advisory lock files, `run_leases`, `coordinated_runs`, `run_phases` | state lock, advisory lock, lease, phases, completion, run file | execution, gateway | the locks of processes with different environments do not meet | one owner at a time; a completed run leaves nothing in doubt | `WorklogExecution`, phases in `OperatorRetention` |
| Drag gateway (`drag_gateway.rs`) | `policy_decisions`, resolutions, policy fields | read a day, audit, decide, spawn `drag` | `drag` children | a decision made on a day that then changes; four notions of time on one path | a duplicate or overlapping proposal is not approved; one's own worklog is recognised | `WorkDay`, `WorklogExecution`, `ReviewedRuns` |
| Public tracking run (`public_tracking.rs`) | run file, approvals | collect, import, propose, audit, coordinate, execute, retain; `review` | all of the above | every step may be the last; what a review approved must be what is submitted | resumable; nothing is submitted that the user did not agree to | `ReviewedRuns`, `WorklogExecution` |
| Rollout (`rollout.rs`) | `rollout-state.json` | record evidence, promote, incident, kill switch | execution's gate | demotion downstream of an incident; evidence recorded ahead of its stage | no stage stands on a gate that was reset under it | `Rollout` |
| Lifecycle (`public_tracking.rs`) and scheduler (`scheduler.rs`) | `config.json`, `scheduler.json`, unit files, host scheduler | setup, schedule update, pause, resume, uninstall, scheduled run, catch-up | systemd or launchd, user's files | five stores written one after another, refusals in the middle; dates missed while off | a stop lasts; a success is recorded after a run; a missed date is found; the user's files are untouched | `TrackingLifecycle`, `TrackingSetup` |
| Data directory (`tracking_config.rs`) | legacy stores, target, marker, source record | resolve, migrate, finalize | other first invocations | rename or copy across devices, interrupted, before any lock | no file is lost; nobody works beside the old ledger | `DataDirMigration` |
| Evidence (`evidence_bundles.rs`) | `journal.jsonl`, `evidence_events`, issue candidates | append, import, supersede, bundle | collectors, hooks, proposals | torn writes, events captured again, revisions out of order | idempotent import; the latest revision counts | `EvidenceJournal` |
| Retention, purge, reports (`operator_retention.rs`) | journal, store, ledger, run files, sentinel | compact, redact, delete, purge, heal a report | execution's ledger, proposals | protection of pending work; two files compacted one after the other; a request that outlives its record | what is pending is kept; what expired does not come back; what is forgotten is not submitted again | `EvidenceJournal`, `OperatorRetention` |
| Collectors (`collectors.rs`) | none of their own | read git, ICS, hook input | journal, user's files | sources change between inspection and collection; rules, zones, revisions | what is collected is what the sources say | `LocalSources`, `EvidenceJournal` |
| Claude Code hooks (`collectors.rs`, `public_tracking.rs`) | hooks in the user's settings | add, remove, inspect | settings shared with `drag` and the user | read and rename without a lock | the user's hooks stay; none of its own is left | `ClaudeHooks` |
| Provider proposals (`provider_proposals.rs`) | `proposals`, `provider_requests` | validate a response, persist | bundle | repetition after a crash | only what cites live evidence of the date | `WorkDay`, `ReviewedRuns`, `EvidenceJournal` |
| Replay (`replay.rs`) | a report | read fixtures, execute seams, compare | the companion's own policy | a harness that passes what it did not look at | a corpus that passed is whole and clean | `ReplayCorpus` |
| Contract, errors, command line | none | machine contract, parsing | | | | |

### Command line

| Component | State | Operations | Hard behaviour | What makes it correct | Module |
| --- | --- | --- | --- | --- | --- |
| `drag log` (`cli/log.rs`, `cli/error.rs`, `cli/transport.rs`) | none | validate, resolve, POST once, exit code | the exit code is all its parent knows | code 2 only if nothing was posted | `WorklogExecution`, `WorkDay`, `TempoCommands` |
| API client (`cli/api.rs`, `cli/transport.rs`) | none | request, retry reads, page, classify | lost answers, timeouts, pages that repeat | a mutation is sent once; reads end | `TempoCommands` |
| List (`cli/list.rs`, `drag/pagination.rs`, `drag/list_policy.rs`) | pages read so far, continuation | read pages, merge with the schedule, report, stream, resume | a page that fails, a next link that repeats, a bounded listing resumed later | complete, or says that it is not | `TempoCommands`, `ListProjection` |
| List session (`cli/list_tui.rs`, `cli/terminal.rs`) | selection, cache, reads ahead | keys, loads, reload, suspension | late answers, reports that may not be shown again | what is shown is what was asked for | `ListSession` |
| Setup (`drag/setup.rs`, `cli/setup.rs`, `cli/setup_tui.rs`) | wizard state, configuration file | keys, verification, save | an answer to a question no longer asked; two setups save at once | nothing is written unless confirmed | `SetupState`, `Onboarding` |
| Tracking delegation (`cli/tracking.rs`, `cli/generalized_tracking_setup_tui.rs`, `cli/claude_tracking.rs`) | questions and answers, capture hooks | ask, verify the contract, pass on, capture | a companion of another version; a plan that leaves something out | what is configured is what was chosen | `TrackingSetup`, `ClaudeHooks` |
| Delete (`cli/delete.rs`) | none | ordered batch | failure in the middle | what was deleted is a prefix | `TempoCommands` |
| OpenAPI reference (`cli/tempo_openapi.rs`) | cached document, entity tag | fetch, derive commands, prepare requests | two files, several processes; names that collide | "not modified" means the current document; a request is what the document declares | `DocumentCache`, `TempoReference` |
| Time, schedule (`drag/time.rs`, `drag/schedule.rs`) | none | parse, sum, calendar arithmetic | boundaries, midnight, DST | what is logged is what is listed | `LocalTime`, `WorkDay` |
| Field masks (`cli/field_selection.rs`) | none | select, project | masks of masks, a report and a stream | both print the same | `ListProjection` |
| Configuration, output, schema, skills, updates, npm installer | files, terminal | I/O around one request | | | partly, see `PROJECT.json` |

### How they meet

- A tracking run calls the collectors, `import_journal`, `propose_from_fixture`, `audit_drag_day`,
  `coordinated_run_with_submission`, `execute_drag_worklogs_bound` and `enforce_retention` in this
  order, in one process and under one exclusive state lock. `ReviewedRuns` has the whole of it,
  with a submission as one step; `WorklogExecution` has the part from the audit to the result, a
  step for everything that is durable or observable; `EvidenceJournal` and `OperatorRetention`
  what precedes and follows it. Their common state is the proposals of a date: given in the
  second, made in the first, settled by a nondeterministic step (`Decide`) in the third.
- The gate of `WorklogExecution` is one flag, `live`. When it may be up is `Rollout`.
- What an audit approves in `WorklogExecution` depends on which worklogs overlap; whether they do,
  after a proposal went through `drag log`, Tempo and `drag list`, is `WorkDay`.
- The timer and the catch-up unit of `TrackingLifecycle` start such runs; there a run is a step
  that completes or fails. What `setup` was asked to install is `TrackingSetup`; what it does to
  the settings of Claude Code, `ClaudeHooks`.
- Every one of these processes first resolves its data directory, `DataDirMigration`, before it
  can take a lock there.
- The state lock keeps exclusive commands apart. It is a file under `XDG_RUNTIME_DIR` or the
  temporary directory (`run_coordination.rs:303-396`), so a timer and a terminal with different
  environments do not exclude each other. `WorklogExecution` models it (`LockDir`) and its runs
  take it away altogether; `Rollout` and `ReviewedRuns` model it as one lock; `TrackingLifecycle`,
  `EvidenceJournal`, `OperatorRetention` and `TrackingSetup` assume that it works.

---
## 2. The modules

### WorklogExecution

One local date, any number of companion processes over one data directory, any number of
proposals. A proposal has one payload, hence one operation key: its number stands for its
operation, its worklog and its child.

| Variable | Code |
| --- | --- |
| `pc`, `kind`, `resumed`, `acct`, `seen`, `sel`, `todo`, `cur`, `outcome` | the locals of a process between two durable or observable steps |
| `approved` | `policy_decisions` with decision `approved` |
| `ops` | `mutation_operations.state` (`none` when there is no row) |
| `coordRun`, `runFile` | `coordinated_runs.state`, the status in `runs/DATE.json` |
| `flock`, `lease`, `expired` | the advisory lock file, the row of `run_leases`, and whether its expiry has passed |
| `live` | rollout stage, environment and kill switches together |
| `child`, `post`, `day` | each child process, its request, Tempo's worklogs now |
| `ever`, `spawns`, `sinceKill` | history |

`Start` and `AuditRead`/`PersistPolicyDecisions` model the command's entry and the audit; `Coord*`
the coordinated run (lock, reconciliation, lease, completion, release, run file); `Select` to
`ExecRelease` the execution, one action per durable or observable step: the gate, the lock, the
lease, the checks of the binding, the reconciliation, the loading of payloads, and per proposal the
skip of what the ledger knows, the reread of the day, adoption of a worklog found there, the second
gate, the durable intent, the spawn and the three classes of exit. `Crash` may follow any step: the
kernel drops the lock file, the lease stays until it expires. `Child*` and `Tempo*` go on without
the parent.

Abstractions. One real account, `tempo`, besides the fallback `default`: the account of all
proposals is resolved once, at the audit. The phases of a coordinated run only write `run_phases`
rows and are one step. The reading and confirming in a reconciliation is one step. An authorized
review and automatic submission are both the kind `run`; `draft` is a run without authorization. A
store error is a crash or an exit at that point. Which worklogs overlap is an input (`Clashes`; what
decides it is in `WorkDay`). No counter needs a bound: `spawns` and `sinceKill` stay small by the
properties themselves, and a mutant that breaks them is found before they grow.

### AtMostOnceSubmission

The promise in four variables: an item is recorded as the one item in doubt, attempted once, its
attempt may arrive at any later time or never, it is settled only after its worklog was seen and
refused only if it never left. `WorklogExecution` implements it under `LedgerView` (submitting and
uncertain are one state: *open*), the property `ImplementsPromise`.

### TrackingLifecycle

`cfg`, `sch`, `units`, `timerOn` are `config.json`, `scheduler.json`, the unit files of each
directory and what the host has enabled; `pc` and `job` are the one command under way. `Setup`
(with a directory or without), `Update` and `Toggle` start a command; `Preflight`, `CheckUnit` and
`ReplaceUnit` (one file at a time), `InstallHost`, `InstallRecord`, `SetupFinish` are an installation;
`ToggleHost`, `ToggleRecord`, `ToggleSave` a pause or a resumption; `DropHost`, `CheckDrop` and
`RemoveUnit` (one file at a time), `DropRecord`, `DropSave` an uninstallation; `TimerFires`, `CatchUp`,
`RunCompletes`, `RunFails`, `RecordSuccess` a scheduled run. Looking at a unit and replacing or removing
it are two steps, as in the code, and the user may put a file in a unit's place or take it away between
any two (`UserFile`); `job.late` remembers that he did so to the unit in hand. The reads of `Preflight`
are one step: a file put at a unit after its turn is one put after them all. A step that calls the host
may be refused; `Crash` is an interruption anywhere, or an operation on a file that fails. Left out: `internal scheduler` commands (they bypass
the configuration), the time of day, the submission mode and its consent (`TrackingSetup`,
`ReviewedRuns`), the hooks (`ClaudeHooks`), launchd's second plist, legacy unit names. The kill
switch is a trigger that takes no step.

### DataDirMigration

`legacy`, `target`, `record` are the legacy store of each working directory, the target with its
marker `migration.json`, and the source record beside it; each process has its working directory,
the source it chose and its staging copy. The actions follow `resolve_data_dir`,
`finalize_migration_record` and `migrate_legacy_data_dir` step by step, a file at a time where the
code copies or removes a tree. A failing step ends the process, as `Stop` does. Staging leftovers
have names no later process uses and are dropped. A process that arrives (`ready`) may create an
empty target; whatever it does afterwards is another module's.

### AtomicRelocation

The promise in three variables: `home`, whether the target is there and whose store it is; `contents`, the
files of each store wherever it is; `using`, the directory a process has been admitted for. A store comes
home in one step, if nothing is there, and is never taken for another; its contents never change; whoever
comes from a directory with a store is admitted only when that store is the one at home.
`DataDirMigration` implements it, `ImplementsRelocation`: a store is at home from the rename of `Move` or
`Commit` on, though `RemoveFile` has yet to take what it leaves behind; a process is admitted at `ready` and
leaves with `End`; every other step shows nothing.

### EvidenceJournal

`journal` and `openTail` are the lines of `journal.jsonl` and whether the last lacks its newline;
`store` the rows of `evidence_events`; `work` and `cites` what a date's proposals and ledger say;
`pc`, `target`, `cursor`, `tx`, `prot`, `asOf` the exclusive command under way, its transaction and
what its retention has read. `Capture` is a hook or `internal capture`, `Collect` a source of a run;
`Write` and `WriteInterrupted` the append, whole or cut short: what is appended next continues a
torn line. `ImportLine` goes through the journal in one transaction that `ImportFails` rolls back
and `ImportCommits` commits. `ReadProtected`, `CompactJournal`, `CompactStore` are
`enforce_retention`, `PurgeStore` and `PurgeFiles` a purge. `Tick` may happen inside a command.

Abstractions. An event is its origin, sequence number, date and "whatever else the hash covers";
which contents a collector produces is open. A removed line stays as `Blank`, which every reader
skips, so that positions do not shift. What audit and execution do to a date is `Decide`. A run may
come back from retention to the audit, which over-approximates the two enforcements of a run. A run
that was interrupted does not protect its date here although its unfinished phases do in the code:
the model deletes more than the code, the properties say that what must stay stays. Not here:
run files, the ledger's own expiry and `--acknowledge-lost-recovery` (`OperatorRetention`); schema versions.
`DaysAssumption` (raw no longer than normalized, as the defaults have it) is needed: the
environment variables allow the opposite, and then a row is deleted while its line stays and is
imported again.

### ReviewedRuns

What has to be agreed before work is logged on a date. `mode` and `live` are the configuration and
the rollout, `evidence` how much the provider is shown, `proposals`, `resolved`, `decision` and
`approval` the tables and the approval file, `tempo` what is logged already, `run` the long command
of each process. `Capture`, `Propose`, `Preview`, `Audit`, `Approve`, `Setup` and `OpenOrClose` are
the short commands and one step each; a run goes from `StartRun` over `Collect` (import and
proposals), `AuditInRun`, `Bind` (the authorization, the digest of the selection), `Check`,
`LoadPayloads` and `Submit`, one proposal at a time, to `FinishExecution`; `StartExecute` is
`internal execute`. `BreakOff` may follow any step, `ResolveAndBreakOff` is a death between the
rows of a resolution. `lock` is the state lock of all exclusive commands. A submission lands or does
not; what happens to one that is in doubt is `WorklogExecution`. `Outages` says whether the
services may be down: `unresolved_runs` has none, so that what it shows is nobody's outage.

### Rollout

`file` is `rollout-state.json`; every command loads it into its own `copy`, changes that and saves
it, under the lock. `RecordEvidence`, `RecordIncident`, `Promote` are the commands that change it,
`EndUnchanged` a refused one. A gate's numbers are kept up to the threshold they are compared with
(`UpTo`), its counters that must be zero and its precisions are one flag, `spoiled`. `earned`
is the evidence given for the restricted gate since the last incident of any process, kept outside
of the file: the file must not claim more.

### OperatorRetention

What a date has in the ledger, the tables, the coordinated run, the phases and the run file, and
the commands that write and forget them: a run from its start to its run file with the two
retentions in it, an execution, both purges, `status`, the healing of a report. `flying` counts
the requests Tempo has received and not answered, which outlive their process, `worklogs` what they
became. One date has one proposal. `NextDay` makes everything older. After a forced purge
(`--acknowledge-lost-recovery`, `Lost`) nothing else is looked at: it is the one command that
announces that it forgets.

### TrackingSetup

`session` is the dialog of `drag tracking setup`, question by question, which ends in a plan;
`Delegate` verifies the contract of the companion and passes the plan on as arguments; `Setup` is
what the companion's setup does with arguments of either origin, step by step (`InstallScheduler`,
`InstallHooks`, `OwnHooks`, `FinishSetup`), `ConfigureSources`, `UpdateSchedule`, `Uninstall` its
other commands. `chosen` remembers what the user said last of each choice. `Change` breaks or mends a
source, `Reinstall` replaces the companion by one of another contract, `BreakOff` ends any command
between two writes. It is coarser than `TrackingLifecycle` about units and the host and finer about
what the configuration says.

### ClaudeHooks

`settings` is the user's settings file, a list of entries per event; `drag`'s capture hook and the
companion's hook are two commands in it, a third is the one an older companion wrote. `command` is
what each program is doing: it reads the file and later renames another over it (`WriteHooks`), and
the user may edit meanwhile (`AddEntry`, `AddBeside`), which is remembered in `overlapped`.
`Capture`, `LockAndRead`, `CreateTemporary`, `RenameTemporary` are the steps of a capture by `drag`,
which share a lock file; `Die` ends one anywhere. `quoted` says whether the companion's path has a
single quote, on which its recognition of its own hook depends.

### LocalSources

A calendar file of one event, edited in every field, cut off and written again, and commits of which
each has an author date, an offset and a committer date. `Setup` inspects the calendar,
`Collect(date)` scans calendar and repository and appends rows with the identity and number the
collector gives them. Local time is `LocalTime`. What the journal makes of the rows is
`EvidenceJournal`.

### WorkDay

The four notions of time on the way of a worklog: the clock a user types, instants and offset of a
proposal, date, clock and seconds on Tempo, the two clocks of the list. `LogByHand` is `drag log`
(durations, intervals, relative dates, a start), `Propose` accepts a provider's response under the
rules of `validate_response`, `Audit` reads the day and decides each proposal, `Submit` sends one
through `drag log`, `Reconfigure` changes the attribute variables of the environment. Everything
between is an operator that translates the function of the same name.

### SetupState and Onboarding

`SetupState` is the pure state machine of `drag/setup.rs`; the condition under which an operation
does not answer `InvalidState` is its `May...` operator. `Onboarding` is the wizard over it, with the
model of `setup_tui.rs` beside the workflow, and every call it makes although the workflow may refuse
is a step that sets `broken`. `env` is an unattended setup. A save is four steps (`create`, `write`,
`rename`, `hook`) over one temporary name; `handle` is what the opened file is by now, `Torn` what two
writers leave.

### ListSession

The interactive list: `at` is where `run_command` is, `requested` and `displayed` its dates, `shown`
the report on the screen, `reports` the cache, `prefetches` the reads ahead, `load` the read the
session waits for behind the report it shows. `Keys` are those that move the selection, change the
date or leave; `QuietEnds` starts the read after the keys have stopped, `LoadEnds` ends
it; `TempoChanges` happens at any time. `pending` and `failing` are the terminal's clean-up steps.

### TempoCommands

One command at a time, `cmd`, waiting at `step` for a request that may be answered, refused, time out
or be lost after it took effect; `tries` counts what `transport.rs` retries. A listing traverses the
pages (`pages`, `link`, `decided` by `consume_page`), reads the schedule beside it, writes a report or
a stream row by row, and prints a continuation (`token`) that a later one resumes. A page may break its
promises: repeat a link, be longer than asked, end early. `intact` and `faulty` say whether it did. A
deletion goes through a batch, reading before each.

### DocumentCache and TempoReference

In `DocumentCache`, `cache` and `etag` are the two files of Tempo's OpenAPI document, written one after the
other by any number of processes (`UseFresh`, `Ask`, `NotModified`, `Fetched`, `WriteCache`, `WriteTag`), each
of which may die at any step and leave what its platform leaves: on Windows no document, everywhere an empty
tag. `TempoReference` is a command on a document: `Run` derives the operations, resolves a name to one of them
and prepares its request. `Resolving` follows references, level by level as the code's `depth` counts them, and
is `NotSet` for a reference to nothing and at `MaxRefDepth`; a body is resolved as a whole and its schema again,
as `request_body` does. `ValidateJsonSchema` gives the values a schema accepts. Beside them stands what OpenAPI
means, `Conforming`, which follows references as it meets them and knows neither depth nor stack. All three are
recursive functions on `Schemas`, the schemas of the documents with their parts and what they are resolved to.
`Settled` names the schemas the two should agree on: below a recursion, and for keywords beside `oneOf` or
beside a reference, the code differs (section 6). A parameter whose declared type is none of
string, integer, number, boolean and array is refused here, where the code takes any scalar for it
(`tempo_openapi.rs:924`).

### ListProjection and ReplayCorpus

`ListProjection` prints one listing, as a document or event by event, under a mask; the property says
that both are the complete result cut down. `ReplayCorpus` is the replay of recorded days, of which each
departs from a good one in its own way.

---
## 3. Runs

| Run | Instance | Distinct states | Question |
| --- | --- | --- | --- |
| `tracking_runs` | one process that may be started again and again, one proposal that the user may log or delete by hand, crashes, late children; fairness | 999,726 | does any sequence of interrupted runs and audits call a posted operation failed, or confirm one that never existed? does every command end? |
| `two_executors` | two processes executing, reconciling, resuming two approved proposals, without a common state lock | 1,038,228 | is a proposal ever submitted twice, or past one in doubt? how many children start after the kill switch? does it implement the promise? |
| `lifecycle` | two days after two weekdays, a host directory and another, catch-up over two days, a disputed unit file | 4,514,420 | does a stop last, does catch-up pick the last weekday exactly if it is due, which of the user's files are lost? |
| `migration` | three processes in three directories: a store to rename, one to copy, none; two files | 676,477 | is a store ever lost, used beside another, or taken for another? is the migration one atomic move? |
| `evidence_journal` | a session and two revisions of a calendar occurrence, on two of three dates, journals of two lines, raw retention 0 days, normalized 1 | 1,878,428 | is pending evidence kept, does expired evidence stay away, do supersessions point to earlier rows, is a row ever rewritten? |
| `list_session` | six dates in two months, work on three of them, at most one worklog each, months read one worklog at a time; fairness | 195,864 | is the day shown the day asked for, is there always a report to wait behind, and is it ever over? |
| `tempo_commands` | three worklogs on three pages, two of them the user's, limits of 1 and 2 records and pages, two attempts; fairness | 125,831 | is a mutation sent once, do resumed listings add up, does the stream agree with the report, does every command end? |
| `onboarding` | two sites and accounts, two Tempo tokens, the wizard and an unattended setup, each again and again | 2,763,027 | can a key or a late answer bring wizard and workflow apart? is anything stored that was not accepted? |
| `components` | eleven instances, below | 412,563 | one question per component |
| `completed_runs`, `unresolved_runs`, `rerun_setup` | small | 21,332; 261; 2,802 | counterexamples, section 6 |

The eleven parts of `components` share no state; `part` is chosen at the start, and only the variables of
that part move.

| Part | Instance | Distinct states |
| --- | --- | --- |
| `rollout` | two processes, thresholds that one or two records reach | 8,448 |
| `worklogs` | a day of four hours of two minutes; a zone that skips an hour of it, one that repeats one; five provider responses | 38,856 |
| `sources` | four events of each kind of rule and zone, seven edits, two commits at the limit of `git log` | 89,378 |
| `documents` | two processes; four documents, one not YAML, two with a tag | 6,603 |
| `reference` | three documents with colliding names, unsupported operations, references, recursion, resolved to a depth of 8; thirteen calls | 14 |
| `masks` | all masks of one path and of two of nine; three days to list | 1,207 |
| `replays` | two files, nine recordings | 2,981 |
| `retention` | one date, a run of two phases, three days | 60,671 |
| `runs` | two processes, one proposal from the first evidence and two that clash from the second | 20,208 |
| `hooks` | no settings, or settings shared with an old hook; two capturing processes; `MaxStarts` 3, `MaxEdits` 1 | 101,262 |
| `choices` | two repositories, a calendar, two times, fifteen ways to call `setup`; `MaxStarts` 2, `MaxChanges` 1 | 82,935 |

`ClaudeHooks` was also checked with `MaxStarts` 4 (1,171,115 states) and `TrackingSetup` alone with every
combination of answers (7,048,292 states), without an error.

Why the bounds are enough. *Two proposals*: the only relation between proposals is "one in doubt
blocks the next", a relation of two; `two_executors` has it, `tracking_runs` asks about one
operation's fate. *Two processes*: the locks are tried, never waited for, so a third process adds
a second loser; the proofs cover any number. *One process with restarts* reaches what a queue of
processes with the state lock reaches. *Two of three dates tracked*: every comparison of retention
is with the current day, minus 0 and minus 1, so a date can be live, redacted and deleted. *Two
lines*: two appends can conflict, supersede, tear and join; a third process of the migration is
there because a source record may outlive the process that wrote it and the one that used it.
*Catch-up over two days* has, today or tomorrow, a weekday on either edge of its window, a later weekday
before an earlier, and a weekend in it; seven is its value in the code. *Six dates in two months*: a walk can leave the dates that are read ahead, cross a month
and come back; *three pages of one worklog*: a first, a middle and a last page, and a page cap below
and above the limits. *Two seconds to the minute, two minutes to the hour*: every carry happens, and
the change of offset is an hour as in the zones it stands for. *One date in retention*: nothing in it
compares two dates. These are the bounds by name: `NumProposals`, `Procs`, `Kinds`, `LastDate`,
`CatchUpDays`, `MaxDate`, `MaxLines`, `Dates`, `MaxLogged`, `Limit`, `HardPageLimit`, `MaxAttempts`,
`PageCap`, `MaxByHand`, `MaxResponses`, `MaxEdits`, `MaxStarts`, `MaxChanges`, `LastDay`.

Symmetry is used for processes (with their lock directories), for the files of a store and for tokens
and accounts, in configurations without liveness. Deadlock is checked but where an instance stops for
good: `MCEvidenceJournal` when calendar and journal are used up and retention has nothing left,
`MCListSession` when the session is over, `MCOnboarding` when two saves that overlapped have left a
configuration file that cannot be read, `MCComponents` and `MCRerunSetup` when the bounded starts and edits are used up.

### Properties

- *At most once.* `AtMostOneSubmission`: whatever crashes, no proposal is handed to `drag log`
  twice. `OneInDoubt`: an operation whose outcome is unknown blocks every other. `FailedNeverLands`:
  `failed`, the one state that gives up for good, is true. `ConfirmedHasWorklog`: a confirmation was
  seen. `ImplementsPromise`: all of them in one refinement, with the order of the steps.
  `OneWorklogPerOperation`: nor when the ledger is old enough to be forgotten.
- *Consent.* `SubmitsOnlyConsented`: what is submitted was agreed to, in the configuration as it is when
  the payload leaves. `KillBoundsSubmissions`: after the kill switch is thrown at most one more child
  starts. One, not zero: the last gate precedes the intent and the spawn. `StageIsBacked`,
  `LiveIsEarned`: live mutation rests on evidence no incident has reset. `ChoicesKept`: what is configured
  and installed is what the user said last.
- *Lifecycle.* `StoppedUntilResumed`, `EnabledIsScheduled`, `ForeignUntouched`, and `CatchUpSelectsMissed`:
  catch-up picks the last weekday before today, if it is in the window and neither it nor a later date has
  succeeded, and no other date (an earlier miss is not made up for, `scheduler.rs:521`); a date counts as a
  success only if a run of it completed. `ForeignUntouched` has one exception, the window between the look at
  a unit and its replacement or removal.
- *Stores.* `ImplementsRelocation`: the migration, in its many steps, is one that moves a whole store at once, and
  with it `StoreIsWhole`, which no run needs to check. `BesideOnlyRecorded`: two stores are
  refused, but for the one case of a process that a source record sent elsewhere; `PendingEvidenceKept`,
  `SupersedesEarlier`, `ExpiredStaysGone`, `RowsNeverRewritten`; `OnlyVouchedIsStored` for the configuration file.
- *Agreement.* `ListedAsLogged`, `OwnIsRecognised`, `ApprovedIsFree`, `CollectedIsCurrent`,
  `PrintedAsSelected`, `PassedIsClean`, `StreamAgrees`, `ListingsAddUp`, `MonthTotalsAgree`; `DocumentsInv`
  (only what parses is kept, and the document on disk is the tagged one), `PreparedAsDeclared` (a request is
  what its operation declares).
- *Sessions.* `Inv` of `ListSession` (focus within the rows, a report read once, the terminal undone, always a
  report to wait behind), `WizardNeverStuck`; `Inv` of `TempoCommands` (a mutation is sent once, a batch is
  deleted in order); `HooksInv` (the user's hooks stay, none is left behind, what was reported as captured
  is stored).
- *Termination.* `EveryCommandEnds` (twice), `EventuallyShown`.

### Fairness

`tracking_runs` assumes weak fairness of the steps of a started process, because it waits for nothing but
its child (advisory lock, lease and store are tried once and the command gives up), and of each child,
because the HTTP client of `drag log` has a timeout of 30 seconds (`cli/transport.rs`) after which it exits
with code 1. `tempo_commands` assumes weak fairness of the steps of the one command there is, for the same
timeout: an answer, good or bad, comes. `list_session` assumes it of the end of the quiet period, a timer,
and of the end of a load; `EventuallyShown` needs in addition that the user stops changing the date, which is
a premise of the property and not assumed. Nothing is assumed of crashes, of the user, of Tempo, of the expiry
of a lease, of reads ahead, or of anybody starting another command. The other runs assume none.

---

## 4. Proofs

Every safety and action property a passing run checks is a theorem for every value of the constants that the
named assumptions allow; tlapm checks every leaf. Each theorem follows from an
inductive invariant, which TLC checked on the instance of the run before it was proved. A component of
`Components` has two theorems: one of its own specification, and one of `ComponentsSpec`, which the run
checks, where it follows because the component's part is all that moves, or does not move (`RunsAlone` and
the like).

**`WorklogExecutionProofs`.** `AtMostOneSubmission` is not inductive: it needs that no child exists
for what the ledger does not know (`LedgerInv`), that this stays true of the proposal in hand between
the query and the intent (`InHandInv`), and hence that no other process writes the ledger meanwhile,
which the advisory lock guarantees (`LockInv`): the lock, not the lease, which can expire under its
owner. `ChildInv` ties child, request and worklog together, `KillInv` says that at most one process
is past its last gate. The proof is organised by footprint: lemmas say which part of the state an
action may touch (`FootprintCoordinate`, `FootprintExecute`, `EnvironmentFrame`), `Exclusion` and
`LedgerWriter` that only the lock holder writes the ledger, and each conjunct of `Inv` then has a
lemma of its own (`LockNext`, `InHandNext`, `LedgerNext`, `ChildNext`, `KillNext`).
`ImplementsPromiseCorrect` maps the nine steps that write the ledger or start a child, and the steps
of children, Tempo and the user, to steps of the promise. A reconciliation of the whole ledger is one
step of one item there: `OneInDoubt` says that it confirms at most one.

**`TrackingLifecycleProofs`.** `StopInv` (what a stop leaves is a state that exists and is not
enabled, so that a later installation keeps it so) and `RunInv` (the date of a run is under a key,
not before the last one; successes are completed, keyed and not after the last, which is one of them)
carry `StoppedUntilResumed` and `CatchUpSelectsMissed`: the code compares with the last success, the
property with all of them. `LateInv` (a unit in hand that is the user's became so after it was checked)
carries `ForeignUntouched`. `EnabledIsScheduled` needs `ScheduledInv`, which
follows what the host was asked for until the state records it. `SuccessIsKept`, which no run checks,
says that only an uninstallation forgets a success.

**`DataDirMigrationProofs`.** `StoresInv` (nothing is taken from a legacy store before the target is
all of it) and `ProcInv` (what a process relies on between two steps, though others move too) carry
`StoreIsWhole` and `BesideOnlyRecorded`; `TargetKeepsOrigin`, which no run checks, is a step property of
the same invariant: a target is never taken over for another store. `ImplementsRelocation` rests on it too:
by `StoresInv` the contents of a store are all of its files in every state (`ContentsKept`), so that most
steps show nothing (`Unseen`, `OnlyGoing`); `Move` and `Commit` are `Relocate` (`Relocated`), the two steps
to `ready` are `Admit` (`Admitted`: whoever finds his store gone finds it at home), `Work` and `Stop` of an
admitted process are `Leave` (`Left`).

**`EvidenceJournalProofs`.** The table is keyed, its references point to earlier rows that are there,
and expired events have no payload (`TableInv`), both outside and inside the import's transaction;
retention still knows the protected dates when it deletes (`CommandInv`), and when the store is
compacted no line of the journal is past its date: that is why the order of the two compactions
matters. `RowsNeverRewritten` is a step property of this invariant.

**`OnboardingProofs`.** `IInv == TypeOK /\ Wizard /\ Others`. The wizard calls an operation of the workflow
at many keys and relies on its own model to be in step: which pages are loaded (`PagesLoaded`), that beyond
the first screen there are details (`DetailsGiven`), what an answer that is under way was asked for
(`WizardPhase`). For the file, a save has its temporary file to itself as long as no two overlap
(`SavesApart`), and what is saved was accepted (`SavesAccepted`).

**`ListSessionProofs`.** `IInv` adds to the checked `Inv` what the session leaves behind: a cached report is one
that a read has brought for the date it is kept under (`CacheOf`), and so is a finished read ahead (`TasksOf`);
the report on the screen is that of the displayed date. `BackgroundKept`, a conjunct of `Inv`, needs that the
displayed date is in the cache whenever the session waits, whichever dates the keys have led through before.
`MonthTotalsAgree` needs that every complete report that is cached or shown has the totals remembered for its
month (`Settled`): the first read of a month fixes them and every later one is given them.

**`TempoCommandsProofs`.** `TempoIInv` has a typed state for every step of every command and three arguments.
A mutation is on the way only where the command's history has none of its kind (`MutationsHappenOnce`), so
that no retry and no lost answer repeats it. What a listing has fetched, with what its link will bring, is the
month, from the first page of the first listing to the last of those that were resumed (`NoPageIsLost`). What
a stream has written, with what it has still to write, is the selection of what was fetched
(`StreamIsTheReport`): selecting commutes with concatenation, which `OnlyAppend` and its like prove.

**`ComponentsProofs`.** One section per component.

- *Rollout.* `StageIsBacked` needs that what stands under a stage stays when a gate above it is reset
  (`StandsOnEvidence`), for both ways of demotion, and that a command's copy is the file while it holds the
  lock (`Inv`). `LiveIsEarned` needs that the file never claims more than `earned` (`Agrees`) and that `passed`
  is only kept with its evidence (`PassedMeets`): the shortcut "passed" is the whole gate.
- *OperatorRetention.* `OneWorklogPerOperation` needs that requests and worklogs of a date are one together,
  and that whatever is under way has a row in the ledger that is open (`DoubtRemembered`), through every
  command's steps: what retention deletes of the ledger is closed, and the date of what is not stays protected.
- *ReviewedRuns.* A run or an execution is alone with the state (`Inv`); between its check and its last payload
  nothing that consent depends on is written by another process, its mode is still the configured one and its
  queue is of the proposals there are (`RunsIInv`). `OnlyConsented` is a step property of that.
- *TrackingSetup.* `SetupIInv` has what each step of a command may count on (`CommandKnows`: before the scheduler
  is installed the configuration has its directory, before the hooks are written they were chosen), that what
  the configuration says is installed was asked for (`ChosenCovers`), and that the timer is at the configured
  time but between the two halves of a change, or where a command has set them apart (`TimerAgrees`).
- *ReplayCorpus.* `ReplayIInv`: a current report is of the corpus as it is. That nothing is counted twice is
  that a list without duplicates has as many members as places; that no day has a failure is that all its sums
  are zero.
- *ListProjection.* `MaskIInv` says what has been printed so far: of a report nothing or all, of a stream the
  selections of the worklogs it is past, and the frame at its end; and that an issue's key is asked for once. That
  a mask selects what it names, and a parent all of its children, is a lemma about paths of one to three fields.
- *ClaudeHooks.* `HooksIInv` counts the commands of the user and of each program in the settings by their places
  in the two nested lists, so long as no edit has overwritten another (`AllTidy`); it knows for each step of a
  command whether its hooks are there (`HooksTracked`), and that what the capture with the lock is about to
  write is the store as it is but for its own event (`CapturesInv`). A list whose own command is replaced in
  place has the user's where they were; an appended entry adds one place.
- *WorkDay.* `WorkIInv`: what is on Tempo is what was typed, or a proposal as it was resolved when it was
  submitted; what is stored as a proposal lies within the day. Three lemmas carry the rest: a clock taken from
  a date and put back is the same (`ClockOfAt`), a local time that is shown is resolved to an instant that
  shows it (`ResolvedShows`), and a worklog that no change of offset falls into is read at the clock it was
  logged with (`SteadyIsRead`). An audit's decision and the times on Tempo can then be compared as clock times.
- *LocalSources.* `SourcesIInv`: no row is of a version newer than the calendar's, and the rows of its version
  were made of it as it is; a date collected since has all of them. That a rule's arithmetic on elapsed days
  gives the dates of its definition is `RuleCounts`; that a daily rule with an exception, a limit and a skipped
  time has an occurrence exactly on its dates, `OccursByRule`; that the newest version is live, however many were
  skipped, and no other but a version 0 that version 1 followed, `NewestIsLive`, which takes the least of the
  later numbers.
- *DocumentCache.* `DocsIInv`: a tag is never ahead of the document on disk (`NotAfter`), nor of the document
  the process under way is about to write (`LoadAhead`); both only grow, since Tempo's numbers do. It holds
  while loads do not overlap (`Ordered`), and with any number of deaths.
- *TempoReference.* The state says little here, the operators all: `PreparedIsDeclared` takes a request apart
  into what is proved of each, and the body is the hard part (`AcceptedConforms`). `ValidateJsonSchema` and
  `Conforming` are recursive functions, of which nothing is known before one exists: `Solution` finds it, as
  the least one that meets its equations, which only ever ask for more of the schemas within. `Resolving` is
  taken level by level: `Faithful` says that what a settled schema is resolved to refers to nothing (`Plain`)
  and allows nothing but what the schema means, provided the stack has nothing on it that the schema reaches,
  as is so wherever the resolution of a settled schema comes. As what is plain is settled, the same holds of
  the second resolution.

Some of these facts are about all naturals. The library's induction theorems are stated for operators, which
cannot be instantiated here; where induction is needed it is done on sets, from the well-foundedness of the
order of the naturals (`NatInduct`, `LeastNumber`, `AllNumbers`).

Only model-checked: liveness (`EveryCommandEnds`, `EventuallyShown`), which with `ENABLED` is out of this
prover's reach. That other modules are right about text, files and services is an assumption of the model and
nobody's theorem.

---

## 5. Assumptions

Constants. Most assumptions say only what the constants are: `ProcsAssumption` (of `WorklogExecution` and of
`Rollout`), `NumProposalsAssumption`, `KindsAssumption`, `ClashesAssumption`, `DecidedAssumption`,
`EditedAssumption`; `DatesAssumption` (also of `TrackingLifecycle`), `WorkdaysAssumption`, `CatchUpAssumption`, `TargetsAssumption`,
`DisputedAssumption`; `DirsAssumption`, `LegacyAssumption`; `SequenceAssumption`, `OriginAssumption`,
`DateAssumption`; `NeedsAssumption`; `NoneAssumption`, `ContentsAssumption`; `DatesAssumption`,
`LimitAssumption`, `ContinuedAssumption`; `OrderAssumption`, `LimitsAssumption`, `BoundsAssumption`,
`BatchesAssumption`; `AnswersAssumption`, `CorpusAssumption`, `MaskAssumption`,
`DocumentsAssumption`. Five say more:

- `DaysAssumption`: an event's text is not kept longer than the event. The environment could reverse that.
- `WorkAssumption`: zones are offset by whole minutes, and what is typed is hours and minutes. Only the time of
  day a worklog without one starts at has seconds: Tempo keeps them and the list does not show them, so that
  `ApprovedIsFree` compares clock times to the minute.
- `HooksAssumption`: before the first installation the settings have at most one hook of an older companion and
  at most one of `drag` for an event.
- `SourcesAssumption`: an edit of a calendar event keeps its identity and raises its number, as RFC 5545 asks of
  calendar programs. What follows when one does not is among the observations below.
- `ReferenceAssumption`: `Schemas` has, with a schema, the schemas in it, and of the body of an operation also what
  it is resolved to, once and twice. That is a condition on the instance and not on the documents: whatever
  documents there are, such a set exists.

Of the world: SQLite transactions and renames are atomic and durable; the kernel drops the file locks
of a dead process; `flock` works on the file system of the data directory; Tempo lists a worklog
from the moment it exists. Of processes: the state lock excludes, in `Rollout`, `ReviewedRuns`,
`OperatorRetention`, `TrackingSetup`, `TrackingLifecycle` and `EvidenceJournal`.

---
## 6. Where the code disagrees with itself

Each of these has a run whose counterexample shows it.

1. **A completed run may leave an operation in doubt** (`completed_runs`). After a crash behind the
   spawn, the next run's audit rejects the proposal as a duplicate of the worklog its own child has
   created; with nothing approved, `execution_tempo_account` falls back to `default`
   (`execution.rs:467-499`), the reconciliation looks there, finds nothing, and the run reports
   `completed`. The operation stays `submitting`. `architecture.md:182-184` asks for reconciliation.
2. **A review run fails after it has proposed** (`unresolved_runs`). In review mode a run reads the
   proposals for their approval before the audit that would resolve them, and fails on the first one
   without a resolution, though every service is up. The architecture says that it audits them.
3. **A setup may be refused because setup is incomplete** (`rerun_setup`). Uninstalling removes the hooks
   and keeps Claude Code as a configured source; the next setup validates the sources before it would
   install hooks and answers "run tracking setup first" (`public_tracking.rs:51`, `:798`).

Observations without a run, met while modelling. Each is what the code does; some are excluded by a
premise of a property, which then says so.

*Execution, runs, approvals.*

- The selection digest and the payloads of an execution are read by separate queries: without a common
  state lock an audit between the two changes what is submitted, to something also approved.
- Processes with different `XDG_RUNTIME_DIR` have different state locks. Captures and reports take the
  shared lock and are refused while an exclusive command runs.
- A crash between the phase "terminal" and the final run file makes the report say `completed` while an
  operation is in doubt.
- An automatic live run whose first audit failed leaves unresolved proposals behind it
  (`public_tracking.rs:249`). `review approve` approves the proposals there are, which need not be those
  `review` has shown. `internal execute --authorize-live` is bound to no approval.
- One misdated or misaligned proposal fails the whole date's audit. An audit overwrites `proposals.state`
  of confirmed proposals.

*Rollout.*

- Evidence may be recorded ahead of its stage. A bad record clears `passed` without a demotion. What the
  general gate counts gates nothing. Three fixture flags cannot be given as false.

*Lifecycle, setup, hooks.*

- An interrupted setup can leave the host's timer on over a configuration that is not installed, and
  `scheduler_run_date` does not look at `installed`, although `public_tracking.rs:71-72` calls that state
  explicitly uninstalled. `public_tracking.rs:700` refuses to resume without unit files but tests only
  that a directory is configured, so that a refused resumption activates nothing and the next setup says
  active.
- Uninstalling drops `successfulOperationKeys`: a date that succeeded runs again after a new setup
  (the ledger still keeps its worklogs from being submitted twice).
- Retargeting setup from the host's directory to another leaves the former unit files and timer.
- An interrupted uninstallation cannot be repeated if the host refuses units that are gone; one that cannot
  remove a file ends with the timer off and `scheduler.json` still saying enabled.
- "Install and uninstall are non-destructive" (`architecture.md:214-218`), but for a window: `write_owned_file`
  and the removal look at a unit (`scheduler.rs:618`, `:241`) and then rename over it or remove it (`:624`,
  `:242`), and a file the user puts there in between is lost (the exception of `ForeignUntouched`).
- Of several missed workdays catch-up makes up for the last one only, and for none before a success
  (`scheduler.rs:521`).
- A setup with `--at` but without a scheduler changes the configured time and leaves the unit files as
  they are; `schedule show` then prints a time at which nothing runs. So does "no" to the scheduler in a
  terminal, and an interrupted update.
- A setup with hooks selects Claude Code again after `sources configure --no-claude-code`
  (`public_tracking.rs:96-101`). Enter at the question for calendars clears those configured, a lone comma
  keeps them. "cancel" is understood at yes-or-no questions only.
- `hooks_installed` is saved after the hooks are written (`public_tracking.rs:91-95`): a setup that breaks
  off between leaves hooks that uninstalling does not remove, though it prints `hooksRemoved: true`.
- In a data directory whose path has a single quote the companion never recognises its own hook:
  `shell_quote` and `is_managed_claude_hook_command` disagree on how it is quoted. Removing hooks leaves
  an empty entry. Two programs and the user edit the settings without a lock; the last writer wins.
- `drag`'s own capture hook is removed by no command, and nothing reads the `events.json` it writes. A
  capture that dies leaves a temporary file named after its process, on which a later process of that
  number fails.
- `README.md:87` says that `drag setup` offers the tracking wizard; the code installs Claude capture only.
  `README.md:97` names `--provider-fixture`, which `drag tracking setup` does not take.
- `Config::save` uses one temporary name (`drag-cli/src/config.rs:89`): saves that overlap can leave the
  configuration empty or torn. "Reload afterward to preserve concurrent updates" (`app.rs:180`) preserves
  none.

*Stores, evidence, retention.*

- With a source record of another directory's interrupted move the legacy store of the working directory
  is not looked at: two stores are not refused, against `architecture.md:232-233` (the exception of
  `BesideOnlyRecorded`, which the `migration` run reaches).
- A crash while the copied legacy store is being removed leaves its rest behind a marker that
  says completed; each later run from that directory refuses.
- The hash of a calendar event without `LAST-MODIFIED` and without an interval covers the time of its
  collection (`collectors.rs:700-706`); a second run of the date appends a line that conflicts with the
  first, and every import fails until the lines expire, which only a retention brings about that a failing
  run does not reach. A torn line never expires. Either has to be removed by hand.
- Claude Code events are captured as already redacted, so raw retention never removes their payload.
- A provider's answer without proposals leaves a bundle that protects its date from retention for good.
  Proposals stay `approved` after their confirmation, which protects their date too, while the confirmed
  row of the ledger is deleted after its period: from then on only the reread of the day keeps the proposal
  from being submitted again.
- An ordinary purge removes `runs/`, so that the next run is not a resumed one and does not reconcile
  first. It removes `rollout.json`, but the state file is `rollout-state.json`. A purge interrupted between
  its tables and its files is undone by the next import.
- The environment variables of retention may reverse its periods (`DaysAssumption`).

*Collection and time.*

- The first update of a calendar event (sequence 0 to 1) never supersedes: a predecessor is asked for
  from sequence 2 on (`collectors.rs:698`), so that both are live (the exception of `CollectedIsCurrent`, which
  the `components` run reaches); an event without `SEQUENCE` is version 0 (`collectors.rs:348`). A meeting moved to another day has another identity and
  stays live on the old one. The same sequence with another content has the same identity and another
  hash. An override of one occurrence has an identity of its own. Weekly rules yield their first
  occurrence only; an `UNTIL` in a skipped local time is ignored. One bad event fails the whole date's
  calendar, and setup tests today only.
- `git log` is filtered by committer date, events are filed under the author's. Exactly 200 commits are
  reported as truncated.
- A worklog of zero length occupies the whole day for the gateway; worklogs of 24 hours and more wrap. A
  worklog across a change of offset is not recognised as one's own. `2:30-3:15` on a day that skips 2:30
  becomes about 24 hours. Proposals are sent with the clock of their own offset.

*Command line.*

- With a page cap below the limit, a listing of two pages or more fails when the second page has more
  than what is left of the limit (`api.rs:249-289`).
- The error of a `drag delete` that fails in the middle reports none of the deletions before it; an
  unsafe id makes it exit with 2 after earlier deletions.
- The OpenAPI document and its tag are written separately (`tempo_openapi.rs:305-372`): two loads that
  overlap can leave the old document under the new tag, and a document that cannot be read under a valid tag
  fails until it expires at Tempo. Header parameters are accepted and not sent, an array for a path
  parameter is cut to its first value, enums of anything but strings never match, `oneOf` hides the
  keywords beside it, and below a recursive schema anything conforms.
- A masked listing prints `attributes: []` where the complete one omits it.
- In a replay, precisions are always 1.0, the metrics of overlaps, duplicates and privacy always 0, and the
  policy is called without the ids of duplicates and overlaps the gateway would give it; a day that expects
  fabrications passes with them; a corpus that cannot be read leaves the older report.

---

## 7. Not modelled

- *The companion's command line, its contract and errors*; the *npm installer*: parsing, constants and
  messages, and the download of a file.
- *Text*: tables, layout, colours, animations, hints, generated skills, the static tables of the schema,
  rendering of unit files and reports. No property is about them.
- *Characters*: durations, dates, calendars and JSON are parsed to the values the properties distinguish;
  reading them character by character is left out.
- *The line-by-line setup session, doctor, the update check*, redaction of secrets: one request or one
  print each.
- *Schema versions and migrations of the store*, limits on sizes and depths, attempts and timeouts of the
  provider, phases of a coordinated run beyond two.
- *`internal scheduler`*: it bypasses the configuration the lifecycle is about.
- *More than one date in one execution, more than one Tempo account*: an execution names one of each.

`PROJECT.json` has the status of every component with what is left out of it.

---

## 8. What is left

The modules of the submission path, the stores, setup, the session and the commands are there. What would
add most, in this order:

1. Composition of `WorklogExecution` with `ReviewedRuns`: one specification in which the audit, the approval
   and the ledger of a proposal move together, with the second as a refinement of what the first assumes.
2. `drag/schedule.rs`: totals of a month over workdays and holidays, against a reference definition.
3. The scheduler's second plist on launchd and the `internal scheduler` commands beside the lifecycle.
4. Provider attempts and timeouts in `ReviewedRuns`.
