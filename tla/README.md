# HAPatchY: models, checks and proofs

HAPatchY is a Home Assistant integration that keeps small patches (unified
diffs) applied to text files below the configuration directory. It watches the
files, re-applies a patch when something rewrote its target, reverts it on
request, and refuses to touch anything it cannot place exactly. This directory
holds TLA+ models of it, the TLC runs that check them and the theorems TLAPS
proves. File names without a directory are in `custom_components/hapatchy/`.

## 1. The system

| component | source | state it keeps | operations |
|---|---|---|---|
| Patch runtime | `coordinator.py`, `state_store.py` | definitions, per-rule state, admitted tasks, `_busy`, `_suppress_reapply`, the operation lock in `hass.data`, the stored errors | admit and run an action, read a patch, guard a configuration change, report a watch, load, close |
| File transaction | `reconciler.py`, `atomic_writer.py`, `backup.py`, `safe_io.py` | the target, temporary file, backups, the progress record of a job | inspect, confirm durability, back up, replace, flush, read back, prune, retry |
| Watcher | `watcher.py` | kernel watches with the identity of each root, timers, dirty notes, running checks | event, debounce, check, refresh of a root, close |
| Entry life cycle | `__init__.py` | which runtime is published, its listeners, services and sensors | set up, unload (may be refused), reload on change, remove, stop |
| Patch engine, models | `patch_engine.py`, `patch_builder.py`, `models.py` | none | parse, place hunks in both directions, build a diff from an edit |
| Sources | `managed_source.py`, `patch_source.py`, `source_upload.py`, `network_policy.py` | published revisions of managed patches | save, load, download, check a hash |
| Configuration flow | `config_flow.py`, `validation.py`, `target_picker.py` | draft, original definition, snapshot of the edited file | the steps of a flow, the guarded save |
| Path and YAML policy | `path_policy.py`, `yaml_policy.py`, `yaml_source_graph.py` | grants frozen at setup with the files they came from | check a path, check a definition |
| Services, projections | `services.py`, `sensor.py`, `binary_sensor.py`, `repairs.py`, `diagnostics.py` | none of their own | call the runtime, show its state |
| Release and update scripts | `script/` | a draft release, pull requests, what a run has read | judge Sonar's analysis, upload, publish, opt a pull request into auto-merge |

How they interact. Events, the 60 s interval, services and the end of a refused
unload all end in `PatchManagerRuntime.async_action`, which validates the rule
against the saved entry, waits for the one `operation_lock`, validates again,
and runs the file transaction in an executor thread. Back on the loop it does
the bookkeeping of a Revert, records the result and awaits the write of its
state. A configuration flow publishes a rule under the same lock, and the save
makes Home Assistant reload the entry, which closes one runtime and builds
another. The watcher calls the runtime when a root appears or is lost, the
runtime calls the watcher when an action ended (`action_complete`).

What is hard here, and what has to hold in spite of it:

* the event loop is cooperative, so a step is what runs between two awaits, and
  everything read before an await may be out of date after it: a rule can be
  edited, disabled or deleted while an action waits for the lock, or while its
  executor job runs;
* the target and Home Assistant's storage do not share a transaction: the
  process can die, or a flush or a save can fail, between any two steps;
* other programs write the target and its directory at any time;
* a close has to wait for what was admitted, for a flow and for a lock they share;
* a check's own write is an event, events arrive while a check runs, and a watch
  can end without an event;
* runtimes are built and closed while rules are saved, and what refers to an old
  one (listeners, tasks, watches, Repairs) must not outlive it;
* the release scripts read GitHub call by call while everything there moves, and
  their last step cannot be undone;
* results must be honest: an unconfirmed replacement stays reported until it is
  confirmed, and what a Revert undid stays undone.

The hazards this leads to are listed, each at its line, in `PROJECT.json`.

## 2. Modules

| module | models | size against the code |
|---|---|---|
| `PatchRuntime` | the runtime, its store, the configuration guard, reload, crash | one action per stretch between two awaits |
| `RuleContract` | what the runtime promises, without locks, queues or failures | abstract specification |
| `PatchRuntimeMC` | instance of `PatchRuntime` for TLC | symmetry, a specification without outside writes |
| `PatchRuntimeProofs` | theorems about `PatchRuntime`, that it implements `RuleContract` and that its jobs are those of `JobOutcome` | checked by TLAPS |
| `EntryLifecycle` | the config entry with all its runtimes | one action per stretch between two awaits |
| `EntryLifecycleMC` | instance of `EntryLifecycle` for TLC | what each rule may be set to |
| `EntryLifecycleProofs` | theorems about `EntryLifecycle` | checked by TLAPS |
| `ReleaseAutomation` | the merge coordinator and the publisher | one action per call to GitHub or Sonar, the draft and its tag read as one |
| `ReleaseAutomationProofs` | theorems about `ReleaseAutomation` | checked by TLAPS |
| `FileTransaction` | one executor job after the other on one target | one action per system call that can fail or be interrupted |
| `JobContract` | what the runtime takes an executor job to be, without attempts, temporary files or backups | abstract specification |
| `JobOutcome` | what one job can come to, as a relation of request, content and answer | operators |
| `JobHistory` | `FileTransaction` with a record of what a job began with and read | two history variables |
| `FileTransactionProofs` | theorems about `FileTransaction`, that it implements `JobContract` and that its jobs come to a `JobOutcome` | checked by TLAPS |
| `Watcher` | one watched directory and its rules | one action per callback, task step or executor job |
| `WatcherProofs` | theorems about `Watcher` | checked by TLAPS |
| `ManagedStore` | publication of a patch text under its digest | one action per system call that can fail or be interrupted |
| `ConfigFlow` | the flows that create and change rules, on top of `ManagedStore` | one action per form, one per await of the guarded save |
| `ConfigFlowMC` | instance of `ConfigFlow` for TLC | three sources on two targets, symmetry |
| `ConfigFlowProofs` | theorems about `ConfigFlow` | checked by TLAPS |
| `YamlFiles` | Home Assistant's YAML on disk and what Home Assistant reads from it | operators, external but for the parts HAPatchY repeats |
| `YamlAuthority` | the grants frozen at setup and the check before each use | one action per file or folder a scan reads |
| `YamlAuthorityMC` | instance of `YamlAuthority` for TLC | six files, a folder of packages, a `secrets.yaml` |
| `YamlAuthorityProofs` | theorems about `YamlAuthority` | checked by TLAPS |
| `PatchEngine` | exact matching, the diff builder, and what repeated use of a rule does to a text | operators, and one action per use of a rule |
| `PatchEngineProofs` | theorems about `PatchEngine` | checked by TLAPS |

### PatchRuntime

`entry` and `entryRet` are what Home Assistant has saved, `defs` and `ret` what
the runtime was built with; `matches_entry` compares the two. `pc` and `job` are
the admitted `_execute_action` tasks: `queued` at the lock, `working` in the
executor, `settling` back on the loop, `refreshing` while the watched roots are
refreshed, `saving` while the state is written. `lock` names the owner of the
operation lock, among them a flow and the final save of a close. `err`, `avail`
and `recheck` are the fields of `PatchRuntimeState` that later decisions read;
`snap` is the image given to the store, `saved` what is stored.

The file's content is reduced to what the rule's diff makes of it (`orig`,
`patched`, `other`), and the transaction to one step with every result that
`Reconciler.run` can report: denied before anything is replaced, unavailable,
inspected only, refused, replaced, replaced without a flush. Two ghosts record
what the user was promised: `debt` (replaced, not flushed since) and `reverted`
(undone by an explicit Revert and not applied or saved since).

Environments are selected by `Faults`: `fsync_fails`, `readback_denied` (the
read after a replacement is denied), `meta_fails` (saving `auto_apply` after a
Revert fails), `save_lost` (a write of the state fails; Home Assistant logs it),
`load_fails` (what is stored, or a rule's part of it, cannot be read or is not what
was written: `StateStore.load` logs it and starts without these gates), `crash`,
`reload`.

A crash loses one thing that nothing in the code can know of: the missing flush of
the action in flight, if that action left it out itself and has not stored its
outcome (`unstored`). A flush that was missing before, and every Revert whose
bookkeeping was done, has to survive the death of whatever action comes later,
whichever rule it has in hand (`Crash`). Home Assistant's own write of the entry,
which it delays by about a second, is taken as done at once.

### RuleContract

Three variables: the saved rule, the target, and on whose account a write is
open. One target is written at a time, through the rule saved at that moment,
unasked only while the rule says so, and nothing is configured while a write is
open. `ImplementsContract` maps the runtime to it: a rule deleted under an
action counts as present until that action's outcome is taken into account, and
a write is open from the replacement to the record of its result.

### EntryLifecycle

`PatchRuntime` looks into a runtime, `EntryLifecycle` at runtimes as a whole.
Each has an identity; `published` is `hass.data[DOMAIN]["runtime"]`, `listener`
the runtime of the update and stop listeners, `entities` that of the sensors, and
an identity is used again when nothing refers to it any more (`Garbage`). `step`
and `cur` are where the lifecycle task is in `async_setup_entry` or
`async_unload_entry` and with which runtime, `goal` what it was called for; Home
Assistant runs one at a time (`setup_lock`) and keeps the state `ha`. `close` is
how far `async_close` of a runtime has come: the lifecycle task and the stop
event may both have called it. `signals` are calls of `updated()` that have not
run yet, `wanted` a reload that waits for the lock.

A runtime's own state is what its surroundings depend on: `work` is a rule's
action from `schedule` to its end, `failing` the rules with an error, a check still to
be made or a missing hash, `unseen` the enabled ones whose status is still UNKNOWN,
`blind` those whose directory is not watched, `repairs` the issues in the registry.
`Sensor` is what the problem sensor shows of these: nothing for a disabled or never
checked rule. A rule is saved with or without a hash and enabled or not, each by
itself (`Settings`): the issue of a missing hash does not depend on the rule being
enabled. Setup can fail at every await, and so can an unload before it is
accepted. Modelled as Home Assistant does them: a failed or refused unload is
final until a restart, a failed setup may be tried again, a removal goes on
although the unload was refused, subentries are deleted without asking the
integration.

Three faults, all excluded from the passing run, are section 6's: `edit_in_setup`,
`cleared_unloaded`, `refused_at_stop`.

### ReleaseAutomation

`main` is the history of the branch, `pr` the update's and the release's pull
request with its base, whether somebody added to it (`extra`), its checks and
GitHub's auto-merge flag. `co` is a run of `ha_update_github.py`: the pull requests
it found, the main commit and the head it read, and the position between its
calls; in the second round the same facts must come back. It judges what it
reads at once, where the code collects first and decides at the end: a run that
refuses does nothing else. `Verify` and `Reread` read the draft and its tag in one
step, two calls in the code; an edit between them counts as made after the look
(fault `edited_late`). `OptIn` is `gh pr merge --auto --match-head-commit`,
which merges at once when checks are green and the base is current, and leaves
the flag otherwise.

`draft`, `tag` and `published` are the releases on GitHub, `run` the Release
workflow from the draft it found through Sonar's gate (`scanned` is the latest
analysis of main) to the publication. An asset is the commit it was built from:
`build_archive` is deterministic and `SHA-256` is taken as the identity of bytes.
People merge, push to a bot's branch, edit the draft and make its tag at any
time, and a runner may die between any two calls, or during an upload, which
leaves an asset without digest.

Modelled from how GitHub documents it and external: squash merges need green
checks and a current base, a push with write access leaves auto-merge on, a
second asset of one name is refused, a publication makes the tag. A sha never
returns to a pull request, and Release Please makes one draft for a merged
release before it proposes the next. Title, author and repository of a pull
request are constant.

### FileTransaction

`job` is the local state of `Reconciler.run`: the position, the request, the
attempt, `pending` and `mutated` of `_Progress`, the snapshot, the temporary
file, the backup in the making and the result. `live` is what the target's name
leads to, `disk` what it may lead to after a power loss. `Raise` is the except
clause of `Reconciler.run`: an outstanding confirmation stays the reported error
unless policy denies, a changed target is inspected again at most twice and
never after a replacement. `backups` are complete backups in the order of their
names, `ancestors` the directories above them; after a power loss those that were
flushed are there and any of the others (`Surviving`). `owed` (ghost) is the
content the last backed-up replacement overwrote.

The code documents that it relies on quiescence between its last check and
`os.replace`: outside writes are excluded there unless the fault
`no_quiescence` is given.

### JobContract

A job as `Reconciler.run` is called and answers: it looks at the target, confirms
an earlier replacement that is unconfirmed before anything else, replaces the
target at most once, as a whole and as it was seen, and reports. `ImplementsJob`
reads these from `FileTransaction` by the position of the job (`AskedOf`, `SeenOf`,
`WroteOf`, `AnswerOf`): between its last check of the target and `os.replace` a job
holds what it saw, an exception makes it forget.

### JobOutcome and JobHistory

`FileTransaction` takes a job apart into system calls; `PatchRuntime` takes it as one
step. `JobOutcome` is where they meet: `Outcome(r, content, owed, o)` relates what was
asked, the content that was acted on, whether a replacement was unconfirmed before,
and the outcome (denied or not, error, replaced or not, earlier replacement
confirmed, a replacement unconfirmed now). There are six kinds, in the order the
code rules them out: denied, unconfirmed, unavailable, inspected, replaced, unsynced.

`JobHistory` adds to `FileTransaction` what the last look before the replacement
showed (`drawn`) and whether the job inherited an unconfirmed replacement
(`inherited`); neither is read by an action. `JobsAnswer` proves that a job that ended
came to an `Outcome` of what it drew. `WorkIsOutcome` proves the other side: for a
slot that is working, the `Work...` actions are the outcomes on what the target
holds (or on nothing, when it was not read), no more and no less. `ComesTo` says how
the runtime reads an outcome: it names errors by what it does with them (`Names`:
`not_applied` is an error of the service call that leaves the recorded one alone,
every failure is `other`), and a denial after a replacement, or a replacement that
is not flushed, needs the fault that `Faults` has for it (`Possible`).

Both theorems hold for every fault and every interference. What they leave to the
reader is the order of events: `PatchRuntime` does a job at the moment of its last
look, or of its replacement, and a write of another program between that and the
job's end is one after the job there.

### Watcher

One watched directory stands for each: roots do not share state except the
refresh lock. Directories are numbered in the order they appear under the path;
`place` is the one there now, `armed` the one the kernel watch is attached to,
`watch` the identity recorded for it. `pending`, `dirty` and `check` are
`_pending`, `_dirty` and `_running`; `other` is an action somebody else asked
for, `asked` one that is scheduled and not admitted. The ghosts are `stale`
(changed since an action last read it) and `needs` (the content is one the rule
applies to).

### PatchEngine

The pure part of the code. A text is a sequence of bytes in which `NL` ends a
line and one glyph is the rest of it, so that a missing final newline and two
lines glued together are different texts, which is where a line-based patch can
go wrong. A hunk is its old and its new side. `Places` is `_unique_location`,
`Placed` is `_direction`, `Inspect` is `inspect`; the nominal line numbers of a
diff never decide a placement in the code and are left out. `Candidate(n)` is
what `unified_diff` makes of an edit with `n` lines of context; how `difflib`
aligns two texts is not modelled, `script` ranges over every alignment, so what
holds does not depend on it. `Widen`, `Accept` and `Refuse` are the loop of
`build_patch`; `Apply` and `Revert` are `_output_for_action`. `Readings` is the
reference: all the ways a text can be read as the hunks' old sides between
unchanged bytes.

### ManagedStore

`saver` is the running `ManagedPatchStore.save` and goes from one system call to
the next: open the directories, look the revision up, flush what was found or
write, link, unlink the temporary name, flush, read again. `revision` says of
each text whether its name is there and whether a power loss can take it,
`doubled` which revisions still have their temporary name (the checked read of
`safe_io.py` refuses a file with two links). A revision that somebody else linked
first is read twice in the code (`managed_source.py:86` and `:91`), and once here, at
the end (`CheckRevision`). A text is identified with its
digest; the callers hold the operation lock, so one save runs at a time. Others
can remove or restore a revision (`lost_revision`).

### ConfigFlow

`flow` is the state of each open `PatchSubentryFlow`: the form or the await of
`_save` it is at, the definition it was filled with (`original`), the one it will
save (`data`) and, in the file editor, the target whose snapshot is shown. Every
check a form makes is made again by `_save`, which holds the lock from `Enter` to
`Commit`, so a form's submission is one step and `_save` is one step per await.
`content` is the source whose diff is applied to a target, or `plain`, or
`other`. The runtime appears as `RuleContract` describes it (`Apply`, `Revert`,
under the lock and through the saved rule); deletions, writes by other programs
and crashes come at any time. `lost` (ghost) holds revisions somebody removed
after they were saved.

A source is a patch text with its address: the text behind an address is taken
not to change, and both headers of a diff name its target, so a source
determines its target. Flows do not survive a restart and Home Assistant's own
write of the entry is taken as done when the commit is. Outside writes between
the second verification and the commit are left out unless `no_quiescence` is
given, as in `FileTransaction`; `unflushed_ancestor` is the parent flush that
fails, as there.

### YamlFiles and YamlAuthority

`YamlFiles` is a reference: a file holds leaves (values, includes of files or of
folders, secrets) under the keys that lead to them, `Reached` follows the
includes, `Document` says which files and directories Home Assistant takes to be
granted. `YamlAuthority` is the program: `scan` is `_Scanner` with its stack of
what is still to visit (`todo`) and the graph found so far (`got`), and each file
or folder it reads is an action, so that others write in between. `graph` and
`raw` become the frozen `YamlPolicy` when `load_yaml_policy` passes `first`
(scan), `raw` (reading), `main` (comparison with `boot`, what Home Assistant
booted with) and `second` (scan); a failure is `denied` until the next start.
`checking` is a `check_current`, `passed` and `refused` its outcome. The
`version` of a file stands for its identity, times and hash. The scanner never
looks at values. Four ghosts say with the operators of `YamlFiles` what Home
Assistant would have read: `agreed` whether at some moment of the check it would
have been granted what it booted with, `stood` the leaves that were there all
through the check (`Standing`), `calm` that nothing was written during it, and
`mattered` that something that bears on authority was written since the first scan: a
write that changes the includes or secrets of a file Home Assistant reads, or any write
of one that grants may stand in (`Bears`). `SourcesProtected` speaks of `stood` and not
of what is on disk when a check ends: a file that is included first from one file
and then from another, while the scan is past the one and not yet at the other, is
included at every moment and seen at none (section 6).

Abstracted: the bounds of a scan but for the depth of includes; the reading of
one file is one step (its identity is compared before and after); so is the
reading by Home Assistant's loader, which stands between two scans that must
agree in every version. `allowlist_external_dirs` covers a target or does not
(`DirOf`), and `check_non_yaml_file` is left out so that `SourcesProtected` rests
on the graph alone. `secrets.yaml` holds plain values.

## 3. Runs

| run | instance | shows |
|---|---|---|
| `runtime_safety` | one rule, two tasks of three kinds, failed flushes, crashes | the lock serialises, unconfirmed replacements and explicit Reverts are remembered, every step is one of `RuleContract` |
| `runtime_liveness` | one rule, two tasks, reloads, failing bookkeeping, lost saves, unreadable states, denied read-back | actions end, a close ends and leaves nothing running, suspensions come back from storage with their error, targets are written only for the saved rule |
| `transaction` | retention 1, room for 3 backups, I/O errors at every step, kills, power losses, outside writes | the target is never torn, is replaced only as inspected and backed up, the preimage stays recoverable, results are honest, a job ends, every job is one of `JobContract` |
| `watcher` | one rule checked at startup, three outside events, a watch the kernel may refuse | one owner per change, no lost wake-up, every change is checked in the end, a lost watch is reported, the watcher comes to rest |
| `patch_engine` | every explicit patch of at most 5 lines on every target of at most 5, every edit of at most 5 lines, followed by any use | what is written is the only reading of the diff, a Revert restores the bytes, an edit can always be reverted, the editor refuses only ambiguous edits |
| `config_flow` | two flows, two rules, three sources on two targets, three events (flows opened, deletions, outside writes, crashes) | no flow undoes what it did not see, takes the rule of an applied patch away, puts two rules on a target, names a text that cannot be read, saves an edit of other bytes, or keeps the lock |
| `yaml_authority` | grants in `configuration.yaml` or included, a literal or secret allowlist, a package that may come, automations anybody edits, a cycle and an include too deep; two writes | the pinned files decide the grants, a check that passes was right while it ran, sources are not authorized, ordinary edits revoke nothing |
| `entry_lifecycle` | one rule anybody changes, one from an older version that lacks its hash, enabled or not, or cannot be read at all, two runtimes | nothing works behind the published runtime's back, Repairs belong to rules that need them and agree with their sensors, what is saved is taken up |
| `release_automation` | four commits of main, one mishap (an added push, an unsafe commit, an edit of the draft, a kill) | only the isolated update and its release are merged unattended (with main standing from its second reading on, and a head once opted in), what is published is one verified commit, an interrupted publication is completed |
| `lost_gate`, `missed_save`, `reapplied` | the smallest instance of each | the findings of section 6 |

Why the bounds are enough. Two tasks are the least that contend for the lock,
queue behind one another and see each other's results; a third waits like the
second, and the theorems of section 5 hold for any number. A rule's own state is
only touched by actions of that rule, by the watch and by a flow; the lock is
the only thing rules share, and the proofs cover several rules. One source and
one retention value are enough because `matches_entry` compares whole
definitions: changes of `enabled` and `auto_apply` already make it fail. Three
backups with a retention of one reach pruning, pruning with more than one
excess, and the full disk. Two glyphs are enough for repeated and distinct
lines; five patch lines make a hunk with context on a side, two hunks, two
hunks that overlap in one direction, and one whose new side is glued to the next line; context begins at one line instead of three
so that a second, doubled attempt fits, and `MaxTarget` lets some results grow
past it. For the watcher, three events are a change, a replaced directory and
a second change or an unload between them, in every order. For the flows, three
events open both flows and leave one for what disturbs them, or let one flow fail,
a crash follow and a second flow save the same text again; two flows and two rules
are the least that compete for a target, and the theorems hold for any number.
For the YAML files, two writes put one behind and one ahead of a scan, which is
what a torn reading takes, or change one file during setup and another during a
check; the six files are one of each kind the scanner distinguishes. Files do not
appear or vanish while a scan runs (`Steady`, fault `flicker`, section 6).
For the entry, two identities are a runtime that ends while the next begins, and a
third cannot exist beside them because a setup waits for the unload before it;
one changing rule beside an old one is enough because a save is announced for the
entry as a whole. For the releases, four commits are a release, an update and its
release with one commit of other work in any place, or two of other work; the
last commit of the bound closes the open pull requests (`Left`), which could not be
merged any more. One mishap per history keeps apart what each of them does alone.
The two specifications
of the runtime differ in one point: `QuietSpec` leaves out writes by others
and reports of lost or returned watches (covered by `runtime_safety`), so that the run with reloads and liveness stays small.

The watcher's runs switch deadlock checking off because its events are bounded
and it is supposed to come to rest, the engine's because a conflict is left
alone, the flows' because a user may leave a form open, the YAML run's because a failed setup denies until the next start, the entry's because it may be removed and a failed unload is final, the releases' because the
history is bounded; in the others every stop is an error.

Fairness. `asyncio.Lock` is first come, first served, so a queued task is not
overtaken for ever (strong fairness of its start); executor jobs, storage writes
and the steps of a guarded save end (weak fairness). Nothing is assumed of users,
other programs, faults, or of Home Assistant accepting an unload. For the watcher,
callbacks and timers run, the interval keeps refreshing, and the kernel does not
refuse a watch for ever (strong fairness of a successful `observer.schedule`).
For the entry, every step of the lifecycle task, of a close and of an admitted
action ends, `updated()` runs when called (weak fairness), and a reload that
waits for `setup_lock` gets it (strong: the lock is first come, first served). For
releases, a run goes on or fails, a failed one is started again and a scan of the
draft's commit is requested, as `docs/releasing.md:176-190` tells maintainers to;
nothing is assumed of the coordinator.

## 4. What is only model-checked

Liveness, because the prover does not handle fairness or ENABLED (of `JobReturns` the
half that needs neither is the theorem `JobsAreBounded`), and the refutations of
section 6. Every invariant and every action property of a passing run is a theorem,
under the faults its theorem names.

Induction is out of the prover's reach in the form the library offers it, with an
operator as parameter. Where the proofs need it (over the hunks of a patch, the
lines of a text, the folders of a listing) they take it from the
well-foundedness of < on the naturals: the least number at which a claim fails
(`Least`, `Induction`), with the claim as a set of numbers. Recursive functions
are turned into their equations first (`FlattensAt`, `SpreadsAt`).

## 5. Theorems

Where a module states `TypeOK`, it is proved here, by itself or as part of `IInv`,
under the hypotheses given for the module; no run repeats it.

`PatchRuntimeProofs` proves for every set of rules, tasks, requests, sources,
retentions and faults, under `RuntimeAssumption` alone (there is a rule, lock
owners and tasks differ, the two ids of absent rules are not definitions):

* `Invariance`: the invariant `IInv` below;
* `TypeCorrect`: `TypeOK`;
* `Serialization`: `SerializedActions`, only the owner of the lock is between its
  revalidation and the end of its state write;
* `DrainedTeardown`: `ClosedIsQuiet`, no admitted action survives a close;
* `GateIsBacked`: `GateBacked`, the stored error that gates reapplication always
  comes with the suspension;
* `WritesFollow`: `WritesFollowSavedRule`, a target is written only for the rule
  that is saved, enabled and, unasked, applied automatically.

* `ContractKept`: `ImplementsContract`, initial states map to initial states of
  `RuleContract` and every step to one of its steps or a stutter;
* `DebtIsRemembered`: `DebtRemembered`, a missing flush stays reported, unless
  `meta_fails` is among the faults, or `save_lost` or `load_fails` is together with
  `crash` or `reload`. With the first it is false (section 6); a lost write of the
  state costs nothing until a later runtime reads what is stored, and what cannot
  be read then is forgotten, which `tests/test_runtime.py:397-436` takes as intended;
* `RevertStands`: `RevertNotUndone`, what an explicit Revert undid is not applied
  again unasked, without `meta_fails` and `readback_denied`. With either it is
  false (section 6). It rests on the setting saved in the entry, so states that are
  lost or cannot be read do not matter to it;
* `WorkIsOutcome`: in any well-typed state and for all faults, what an action at work
  may do to the files and report is exactly what a job can come to (`JobOutcome`,
  section 2). One lemma goes through the outcomes, one through the actions.

`IInv` strengthens them with three facts. `CaptureCurrent`: what an action
captured when it got the lock equals what the runtime holds and what is saved
(up to a deletion) until its outcome is recorded. This is what makes
`WritesFollowSavedRule` inductive, and it rests on flows needing the lock.
`CloseInDrain`: only a draining runtime does the final save, which is what keeps
`ClosedIsQuiet` true when a task is admitted. `ResultsUngated`: the transaction
never reports `revert_metadata_unavailable` itself, needed for `GateBacked`. The
proof has one lemma per group of actions and one step per action in it.

Of the contract: what it sees is `entry` while no outcome is open (`ViewAtRest`), and the
rule as captured, with the write if there was one, while one is (`ViewInFlight`);
`OneOwner` says that there is at most one. `CaptureCurrent` then turns the record of
an outcome into the end of a write or a removal (`OutcomeEnds`), and one invariant
joins `IInv`: `Unreported`, no action carries a replacement into its locked section,
so that nothing but the executor job opens a write. The `Seen...` lemmas state the
contract's actions in terms of the views, so that the instance is expanded nowhere
else.

`DebtInv` follows a missing flush around. While an action has it in hand
(`DebtInHand`), the action knows of it from its start (`pending`), and reports it
again unless it was made up for; a denial reports nothing and leaves the stored
error alone. At rest (`DebtAtRest`) it is in the runtime's state and in storage, in
any image of the state on its way there, and in storage alone while no runtime is
loaded, which is where a crash, a reload, a lost write and a failed load meet
(`NoReload`, `FirstLoad`). Only an action that has yet to store its outcome can have
a flush that nothing stored knows of (`UnstoredInHand`): what a crash may lose is no
more than that.
`RevertInv` says of a rule whose Revert stands that it is not saved as applied
automatically, except between the replacement and the end of that Revert
(`RevertedIsManual`), and that no automatic action at work took its capture before
(`CheckedNotReverted`). What keeps the second is the lock: a Revert and a check
are never both in their locked section, and a check takes its capture inside it.

`ConfigFlowProofs` proves for every set of rules, flows, sources and faults, and
any number of events, under `FlowAssumption` (the kinds of sources and the
constants that stand for absent things are distinct):

* `FlowInvariance`: the invariant `IInv` of that module;
* `FlowTypeCorrect`: `TypeOK` of flows and store;
* `LockOwnership`: `LockIsOwned`, however a save ends;
* `UniqueTargets`: `OneRulePerTarget`;
* `NothingLost`: `NoLostUpdate`;
* `PatchKept`: `PatchKeepsItsRule`;
* `EditsOfShown`: `EditOfShownBytes`, unless `no_quiescence` is among the faults;
* `SavedReadable`: `SavedIsReadable`, unless `unflushed_ancestor` is.

Here `IInv` says that what a save found out under the lock stays true until it
leaves it: the target has no other rule (`LockedUnique`), the rule is the one the
forms were filled with or deleted (`OriginalHeld`), and once checked the old
patch is not applied (`ChangeHeld`). It holds because whatever could disturb
these facts needs the lock, except deletions and other programs, which only make
rules absent and never write a patched text. Each lemma of a group of actions is
in two parts: what the step does to its flow and the lock (`FormEffect`,
`SaveEffect`), and that such steps keep the invariant.

The last two theorems add an invariant each. `EditKept`: the diff of an edit in
progress is one against the bytes its file still holds, unless the edit is marked
as overtaken, and none that is comes to the commit; it needs the lock's ownership,
which keeps the runtime from writing while a flow commits. `SavesKept` follows a
text through the system calls of its publication (`SaverKept`), from there to the
commit (`FlowKept`) and into the rule (`RulesKept`): at each of these places it is
durable under a single name, or somebody removed it. What makes it inductive is
that a revision with two names is still only linked (`StoreSound`), so that no
failure or crash of a later publication reaches a durable one.

`EntryLifecycleProofs` proves for every set of rules, what they may be set to and
any number of runtimes, under `LifecycleAssumption` and the absence of faults each
theorem names:

* `Invariance` and `TypeCorrect`: `IInv` of that module and `TypeOK`, if no unload
  fails while Home Assistant stops (without `refused_at_stop`);
* `NothingStranded`: `OnlyPublishedWorks`, under the same condition. With the
  fault it is false: section 6;
* `RepairsCorrect`: `RepairsBelong`, if besides no rule is cleared with no runtime
  there (without `cleared_unloaded`). `edit_in_setup` may happen: it costs the
  reload, not the issues.

`IInv` says why a runtime that was replaced cannot work although old tasks still
refer to it. `PublishedOnly`: every other runtime has no definitions, so that it
admits nothing; `TaskKnown` and `TaskClosing`: setup and unload work on the published
runtime and give it up only when its close has ended; `CloseInOrder`: a close first
ends admission, then the watches, then the work; `OpenAdmits` and `LoadedIsOpen`: a
published runtime whose admission is open has not begun to close. A refused unload
opens admission again, which is sound only because no close has begun by then,
and a stop begins one: the fault. For the issues, `RepairsHeld` adds that what is
reported concerns rules of the runtime that are enabled or lack a hash, that the
close leaves only issues of rules that are saved as enabled, and `DisabledHeld` that
a setup, once loaded, has reported all there is to report of disabled rules, since
starting the watcher looks at enabled ones only. `WorkEnabled` says why an action
reports of no other rule either.

`FileTransactionProofs` proves, under `TransactionAssumption` (at least one backup is
retained and there is room for more), for every retention and room:

* `Invariance` and `TypeCorrect`: `IInv` of that module and `TypeOK`, for all faults;
* `NoTornTarget`: `TargetWhole`, for all faults;
* `ResultsHonest`: `HonestResult`, for all faults;
* `InspectedReplaced`: `ReplacesInspected`, without `no_quiescence`, which the code
  names as its limit;
* `PreimageKept`: `PreimageRecoverable`, without `clock_back` and
  `unflushed_ancestor`; with either it is false (section 6);
* `JobsKeepContract`: `ImplementsJob`, without `no_quiescence`: initial states map to
  those of `JobContract` and every step to one of its steps or a stutter;
* `JobsAreBounded`, for all faults: a job takes at most 42 steps of its own, and no
  write of another program adds one. With the fairness of `LiveSpec` this is
  `JobReturns`, but for the claim that an unfinished job always has a next step;
* `JobsAnswer`: `JobsComeToOutcome` of `JobHistory`, for all faults and with others
  writing at any time: what a job comes to is an outcome of `JobOutcome`.

`IInv` follows a commit. `Decided`: the snapshot that was decided on is what is on
disk unless somebody wrote since, and the temporary file was flushed before
anything that leads to `os.replace`; `Quiescent`: the last check saw to the former;
`ReplacedOnce`: a job that replaced never starts over, because a retry is refused
once `mutated` is set; `BackedUp`: the flushed backup holds the snapshot, not merely
what is there now; `Remembered`: an unconfirmed replacement is in `pending` until the
directory was flushed, which is why every exit but a denial reports it. `Kept` adds
for the preimage that the last backup in the order of names is the one of the
replacement until the job has pruned, and pruning spares the last. A backup is made
before it is known that the replacement succeeds, so later failed attempts only
add to them.

Most of the refinement follows from `IInv`: `Decided`, `Quiescent` and `ReplacedOnce`
say that the contract's one replacement is enabled when the job's is, `Remembered`
which answer an exception gives. `AtHand` adds what the contract sees beyond it: a
job that is to flush owes the flush, one that confirms was asked to, one that
prunes has read the target back, a job at its beginning or end holds nothing it
saw, and only an ended one has an error. Every except clause is another look
(a retry, never after a replacement) or an answer. `StepsLeft`, for `JobsAreBounded`,
counts the steps ahead of an attempt and fourteen for each attempt that may still
begin; an exception uses up one of these or ends the job. `Tracked`, for `JobsAnswer`,
follows the history: until a job replaces, the debt is what it inherited and has not
confirmed; what it drew is its snapshot; and from the decision on, also when it
starts over after a confirmation, it drew something it wants to write, which is why
an earlier replacement that was confirmed is never followed by an unavailable
outcome of another content.

`PatchEngineProofs` proves, under `EngineAssumption`:

* `OnlyReadingHolds`: `OnlyReading`, what a rule writes comes from the only way to
  read the text as its diff;
* `AppliedReverts`: `RevertRestores`, a Revert gives back the bytes there were;
* `EditsRevert`: `EditReverts` for edits of any length, however they are aligned;
* `RefusalsHaveCause`: `RefusedForCause`, an edit is refused only if it changes
  one of the two whole texts is found, once, in the other.

They hold for patches of any number of hunks, texts of any length and any
alphabet. The first rests on `OneReading`: a hunk that has one place leaves a
reading no choice (`UniquePlace`), and the order that `_direction` checks is the
order a reading has to keep (`OnlyMeaning`). `RuleInv` adds that texts stay texts:
what `Rewritten` makes of sequences of bytes is one (`RewrittenType`).

`AppliedReverts` is the long one. `Lies` says where each hunk's new side and each
gap between hunks lies in the rewritten text, by induction over the hunks
(`RewrittenLies`). `NewPlaces` shows that every new side lies on whole lines there,
because what is before it ends a line and so does the side itself, or the text
ends with it: this is the step that fails when lines are glued, and why
`RevertRestores` excepts that. A new side that has one place has it where it
lies, so that the inspection of the result finds each hunk where it was put
(`FoundBack`), and putting the old sides back between the same gaps gives the text
there was (`Restored`).

`EditsRevert` needs no more of the diff than that `build_patch` tried it in
both directions: from then on the target is one of the two texts of that trial
(`RoundTripHeld`). `RefusalsHaveCause` looks at the last attempt of that loop: with
as many context lines as the texts have, every line is kept (`AllKept`), so that
there is one hunk and it is the whole of both texts (`OneHunk`), and it applies
in both directions unless one text can also be read as the other (`WholeTrip`).

`YamlAuthorityProofs` proves, under `FilesAssumption` and `AuthorityAssumption`, for
files, includes and folders of any shape and depth, any drafts and any number of
writes at any point of a scan:

* `TypeCorrect`: `TypeOK`, and `NoSourceAuthorized`: `SourcesProtected`, for all
  faults;
* `OrdinaryEditsPass`: `OrdinaryEditsTolerated`, for all faults;
* `PinsDecide`: `PinsSuffice`, and `PassedChecksAgreed`: `PassedCheckAgreed`, without
  `flicker`, with which both are false (section 6).

Four of them rest on what a scan knows when it has nothing left to visit. `Explored`
says of a set of visited items that what each leads to on disk is in the set or
still to be visited, and that the graph has what was found; a step keeps it
(`Explore`), by induction over a folder's files where it lists one. When nothing is
left, the graph holds every file that Home Assistant reaches, at each place where it
reaches it, by induction over the includes on the way (`ReachedWithin`, `ReachedFound`). A scan during which others
write is a scan of what stood all through it (`StoodInv`, `ExploredWithin`), which is
`NoSourceAuthorized`.

`Decides` says that the files above the grants, the listings and the places for
secrets decide what Home Assistant is granted. `FreezeInv` says what was frozen:
with the disk and the versions of the moment the document was read, the second
scan either met something newer, and setup fails, or read that very disk
(`FromRaw`). `AgreeInv` is why torn checks do not pass: as long as the check has not
agreed with the boot, something pinned is gone and the running scan will not find
it again (`Lost`), because versions only grow and files neither come nor go while
it runs.

`OrdinaryEditsPass` needs the other direction, that a scan finds nothing but what Home
Assistant reads. `Met` is the least set of items that holds the first and all that its
items lead to; what is in it Home Assistant reads (`MetIsRead`), and where the scanner
sees a grant, one may stand (`MetMayGrant`). So a write that does not bear on authority
changes neither the set nor what is there at its items (`OrdinaryWrite`). `HasVisited`
says that the running scan found exactly what there is to find at the items it has
visited (`Drawn`); a scan that ends has visited all of `Met` (`AllVisited`), hence the
second scan of a setup and an undisturbed check find graphs of the same authority
(`WholesAgree`), and nothing that the former admitted is denied in the latter
(`NotDenied`).

`WatcherProofs` proves for any rules, any number of events and any faults, under
`WatcherAssumption` (finitely many rules, those checked at startup among them):

* `Invariance`: the invariant `IInv` of that module;
* `OwnedOnce`: `OneOwner`;
* `ChangesHeard`: `NoLostWakeup`, if no unload raises (without `unload_raises`); a
  refused unload then schedules the checks that make up for the dropped events.

`NoLostWakeup` speaks of changes seen by a watch on the current directory, so its
proof needs to know when there is none. `WatchArmed`: the recorded identity and
the kernel watch are set and cleared together, and a refresh that set them has yet
to be published, which debounces every rule. `Numbered`: a directory put in
place of another is new to the watch, so replacing it never leaves a silent watch
that looks attached. `StartupNoticed`: before the first watch only rules with a
check at startup count as changed, and publishing the first watch asks for these.
`SoleOwner` hands a note from the check that ends to a new timer.

`ReleaseAutomationProofs` proves for a main branch of any length and any number of
mishaps, under `ReleaseAssumption`:

* `MergedAsDecided`: `AutoMergedAsDecided`, unless `moved_after_decision` is among
  the faults: main moves after its second reading, or a head after its auto-merge
  was enabled. Up to these moments both move as they like;
* `ReleasesVerified`: `PublishedVerified`, unless `edited_late` or `scanned_twice` is.

Everything the coordinator knows may be outdated when it acts, so its invariant
speaks of what is known only as long as main is the main that was read: `Aimed`
says that the update or release it looks at is then called for, and that a head it
has judged to be modified is not the head there is, since a push never brings an
earlier head back. `OptedIn` carries this to the opt-in, which GitHub may act on
much later: one that main has overtaken never merges, one that main has not is
still right. `Merged` is what is left of it in the history. The second of the two
snapshots is not used: a stale first one is caught by GitHub's own rule that a head
must be up to date. The publisher's invariant `Judged` follows the candidate:
Sonar named it before and after giving its status, so the status was its own;
the draft has its version before anything is uploaded, and stands untouched when it
is published. Both rest on `Common`, by which nobody knows a commit that is not
there, and on commits staying what they are as main grows (`CommitsStay`).

## 6. Where code and documentation disagree

Each of these is a run that ends in a counterexample; `PROJECT.json` quotes the
lines.

* `lost_gate`: after a Revert whose bookkeeping failed, the suspension is stored
  only as the rule's last error. A watch denial or a later result (of a Refresh,
  say) replaces it, and after the next reload the startup check re-applies what
  the user reverted.
* `missed_save`: the runtime is published, so that flows can save, before the
  listener for saves is added. A rule saved in between leaves a runtime that
  refuses every action as reloading, and no reload comes.
* `reapplied`: a patch can apply to its own result, so that a check writes the
  target and its own event starts the next one. A diff that adds an unterminated
  last line, matched in the middle of a file, makes `a b` grow with every check;
  deleting one of two equal lines is repeated while there are two, and hunks
  that undo one another are applied without end.

Met on the way, without a run of their own (a fault that a configuration can add
to `Faults` is named where there is one):

* Every recorded result clears `watcher_recheck_required` once the directory is
  watched again (`coordinator.py:296-297`), also that of a check that read the target
  before the directory was lost and ended after it came back, although
  `docs/reference.md:227-229` and `strings.json:514` say that the warning stays
  until the check of what came back. It is wrong for about a debounce delay:
  the check that the return asks for is underway (`NoLostWakeup`).
* A Revert whose directory flush and whose bookkeeping both fail records only the
  bookkeeping error (`coordinator.py:258`), and nothing asks for the flush again,
  although `docs/troubleshooting.md:224-225` says that the error is cleared only
  after durability is confirmed (faults `fsync_fails` with `meta_fails`, `DebtRemembered`).
* A stored state that cannot be read, or a rule's part of it, is logged and starts
  empty (`state_store.py:21-35`): a missing flush is not asked for again after that,
  and a suspension is over, although `state_store.py:48` says that these failures
  remain gates across reloads (fault `load_fails` with `crash` or `reload`,
  `DebtRemembered`).
* A disabled address rule without a hash whose stored error is a gate is reported
  neither for the one nor for the other (`coordinator.py:81-100`), although
  `docs/reference.md:178-180` says that a rule without a hash reports a Repair.
* The parent of a backup directory is flushed only by the call that made the
  directory (`safe_io.py:56-60`). If that flush fails, later backups are reported
  durable below a directory that a power loss can take away (fault
  `unflushed_ancestor`, `PreimageRecoverable`).
* A directory removed and made again with the same inode number counts as the
  watched one; its dead watch stays reported as available (`watcher.py:105`,
  fault `inode_reuse`, `BlindnessReported`).
* A rule whose Repair is open and that is deleted or disabled while no runtime is
  there (the entry is unloaded, or its setup failed) leaves the Repair behind:
  issues are cleared by a runtime that closes (`coordinator.py:338-341`) and for
  rules the entry still has when it is removed (`__init__.py:132`; fault
  `cleared_unloaded`, `RepairsBelong`).
* An unload that is refused resets `closing` (`__init__.py:115`) without asking
  whether the stop event set it too: work is admitted to a runtime whose watcher
  is closed and which nobody drains (fault `refused_at_stop`,
  `OnlyPublishedWorks`).
* `ha_update_github.py:266` says that the second snapshot closes the gap between
  discovery and merge. The comparison with a freshly resolved proposal, minutes
  long, comes after main was read the second time. If main moves then, GitHub does not
  merge but leaves auto-merge on, and what the bots push next is merged, a
  release with unrelated commits for one, which `docs/releasing.md:123-126` says
  need human review (fault `moved_after_decision`, `AutoMergedAsDecided`). No run
  checks this half of the property; it is described here only.
* An upload that broke off leaves an asset without digest, which every later run
  refuses (`release_github.py:128`): somebody has to delete it. `Intact` excepts it.
* A draft edited between the second look and the publication is published as
  edited (fault `edited_late`), and Sonar's two equal revisions do not show an
  analysis of another commit in between (fault `scanned_twice`).

* The suspension is checked when an action is admitted (`coordinator.py:214`),
  not when it starts. A reconcile already queued behind the Revert whose
  bookkeeping fails still re-applies the patch.
* A Revert that replaced the target and is denied when it reads it back takes
  the path of a denied action: `auto_apply` stays on (fault `readback_denied`).
* Backups are ordered by wall-clock names; after the clock was set back the
  newest is pruned first (fault `clock_back`).
* When unloading the platforms raises, `closing` is reset without the checks that
  a refused unload schedules (`__init__.py:111`, fault `unload_raises`).
* A new side whose last line is unterminated is put in the middle of a text as it
  is, glued to the line that follows. The engine applies such a diff (`x`, `a`, `e`, `b` with `x` to `y` and `a` to an unterminated `b`
  becomes `y`, `be`, `b`) and its Revert then finds the second hunk on the last line and
  leaves `x`, `be`, `a`. `RevertRestores` excepts it (`Glued`); an edit made in the
  editor cannot lead to it, as its diff was tried in both directions
  (`EditReverts`).
* A file that anybody moves from one include to another while a check's scan is
  between the two is included at every moment and seen at none. If a grant covers
  it, the check passes and the file is authorized until the next one.
  `yaml_source_graph.py:100-110` protects the files a scan found, which are sure to be
  those whose includes stood all through it, and `SourcesProtected` says so.
* A CRLF file whose patched form has no newline is restored with LF
  (`RevertRestores` excepts it): endings are taken from the text that is there.
* The editor refuses a file with a form feed or another line boundary of
  `str.splitlines`, because `build_patch` cuts there and the engine does not.
* A process killed between `os.link` and `os.unlink` (`managed_source.py:77-88`)
  leaves a revision with two names. Every later save of the same text finds it,
  refuses it as `unsafe_file`, and nothing removes the second name: that text
  cannot be saved again until somebody deletes the file. No rule is affected,
  since none was committed.
* A changed pinned hash alone is not a change of source for
  `_check_source_change` (`config_flow.py:342`): when the text behind an address
  changed while the old one is applied, the new hash can be saved without a
  Revert.
* Versions pin files that exist, and nothing pins their absence. With files that
  appear and vanish while a scan runs (fault `flicker`), three writes defeat
  `PassedCheckAgreed`: a package with its own grants is there when the check
  starts and gone when the scan lists the folder, after a source it has already
  read was changed. A `secrets.yaml` that is there only between the two scans of a
  setup likewise defeats `PinsSuffice`. The grants stay those of the boot, and the
  next check refuses.
* The first `!secret` in an unrelated include adds a place for `secrets.yaml` to
  the graph and so revokes every grant until a restart, although
  `docs/troubleshooting.md:196` lets ordinary edits of such files pass. The model
  counts it as an edit of structure (`SameShape`).
* `docs/troubleshooting.md:193-196` says that a missing or unreadable YAML source
  blocks operations until a restart. A check scans anew each time, so an unrelated
  include that was unreadable blocks only until it can be read again; a changed
  grant source does block for good, since its times differ.

## 7. Not modelled

Forms, selectors, translations, entity and Repair presentation (layout); the
HTTPS client, resolver and upload (pure I/O with a hash check at the end);
the bytes of the archive, lock resolution, catalogues and CI glue (data processing);
the development container. `async_read_patch` takes the same lock and changes
nothing. Hashes, timestamps and `restart_may_be_required` are shown and never
decide anything.

## 8. Plan

In this order:

1. A proof that a write of another program between a job's last look and its end may
   be taken as one after the job, so that `JobsAnswer` and `WorkIsOutcome` join to a
   refinement.
2. `ConfigFlow` with texts that change behind an address.
