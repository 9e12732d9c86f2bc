# Formal model of AVIF-WebP-Studio (AWJ)

TLA+ specifications of the concurrent, stateful and crash-prone parts of AWJ, checked
with TLC on small instances and, for the results listed below, proved with TLAPS for
every value of the constants. Paths like `app/pipeline.ixx` are relative to
`src/src/` of the repository.

## 1. The system

| Component | State it keeps | Operations | Talks to |
|---|---|---|---|
| Batch engine (`app/pipeline.ixx`, per-item encode in `backends/native_backend.ixx`) | results, group counter, worker threads, progress and failure counters | classify, group, start threads, pull a group, convert an item, mark the rest, summarise | output publication; the stop token of its caller |
| Output publication (`backends/native_backend.ixx`) | temporary file, target path | create, write, flush, stop check, rename or link, sync | file system; other writers of the path |
| Linux update (`update/update_linux.ixx`) | `AWJ`, stage (`AWJ.new`, `AWJ.old`, `state.txt`), pointer file | stage, swap, health check, commit, restore, recover at start | every AWJ that starts |
| Windows update (`update/update_windows.ixx`) | `AWJ.exe`/`AWJ.com`, stage with backups, pointer | the same for a pair of files, with two helpers | every AWJ that starts |
| Update security state (`update/update_security_state.ixx`) | state file, lock file | accept a verified document | every checking, staging or installing process |
| Studio update page (`ui/main.cpp`, candidate choice in `update/update_model.ixx`, `update_manifest_v2.ixx`, fetch in `update_runtime.ixx`) | update state in memory and in the configuration file, a background job | check, offer, switch channel, install, restore a failed save, start updated | the file shared with other Studios, security state, helper |
| Studio queue and worker process (`ui/main.cpp`) | queue items, run id, child handle, monitor thread, posted closures | add, move, remove, start a run, show events, cancel, force stop, close | the CLI as a child process, import service |
| Import service (`ui/import_service.cpp`) | request queue, scan thread, stop flag | enqueue, scan, deliver, stop | the event loop |
| Linux Studio queue (`ui/main.cpp`, second half) | queue, rows, failed files, engine thread | add, drag, start, retry, stop, show events, close | batch engine in its own process |
| Shell conversion windows (`ui/main.cpp`) | mutex, send mutex, mailslot, collected inputs | elect, send, collect, drain, convert, close | other shell processes |
| Presets and parameter page (`ui/main.cpp`, `app/preset.ixx`) | page, two buffers, list of presets, two indexes | switch format, select, edit, save, reload, start | preset files, the queue |
| Shell context menu (`ui/shell_context_menu.cpp`, page in `ui/main.cpp`) | registry keys, configuration file and its snapshot | install, remove, roll back, check, save | registry, system |
| Update documents and runtime, output planning, resource planning, visual quality search, GPU metrics, command line, configuration options, codecs, other user interface | - | - | section 8 |

What makes each of them hard, and what it must do all the same:

* **Batch engine.** Threads may fail to start, an exception may end one in the middle
  of its group, a stop may come at any instant, other programs create files. One
  writer per path, no false verdict, no foreign file replaced, and the run ends.
* **Output publication.** Kills and power losses between any two system calls, two
  writers of one path, leftovers of killed processes. Whole files only, one winner
  where nothing may be replaced, everybody's temporary files and nobody else's go.
* **Updates.** A helper replaces the running program in several calls, each of which may
  fail or be the last before a kill, while AWJ may be started. A program is always left,
  an unchecked one is rolled back, a committed one is not, the helper ends.
* **Security state.** Concurrent processes read, decide and rewrite one file. Nothing
  accepted goes backwards, nobody's record is lost.
* **Update page.** Late answers, failed saves, a server that delivers old manifests and
  a second Studio that writes the same file. What is shown is what is saved, and only
  the best version anybody here knows of is installed.
* **Studio queue.** Closures outlive the run they belong to, a force stop races a normal
  end, a monitor thread may throw, an import ends during a run. No event reaches the
  wrong item, verdicts stand, one worker process at a time, and the window closes.
* **Shell windows.** Processes are launched at once and merge over two mutexes and a
  mailslot, any of them may fail or be killed. One collects, no input is lost or
  converted twice, and each process ends collecting.
* **Presets, menu.** Two buffers, indexes into a list that is read again, a snapshot of
  what was written. What is typed, shown, saved, installed and run stay the same thing.

## 2. Modules

| Module | Models |
|---|---|
| `BatchPipeline` | `run_batch`: phases, groups, threads, exceptions, stop, verdicts, exit code |
| `AtomicPublish` | abstract specification: a file appears at its path at once and whole |
| `OutputCommit` | `write_output_bytes`, `copy_file_to_output`, `commit_temp_output`; implements `AtomicPublish` |
| `UpdateLinux` | staging, helper, health check, rollback and start-up recovery |
| `UpdateWindows` | the same for the pair `AWJ.exe`/`AWJ.com`, with the recovery helper |
| `SecurityState` | `accept_verified_update_document` |
| `ImportService` | the dispatcher, its thread and the scan |
| `StudioQueue` | the Windows Studio around its queue; composes `ImportService` with the worker process, the monitor and the event loop |
| `ShellWindow` | `collect_shell_launch_inputs` of several processes, and their windows |
| `StudioPresets` | the parameter page, presets, and what a run is configured with, on both systems |
| `ShellMenu` | registry schema, check, installation and removal |
| `StudioMenu` | the menu page and the configuration file; composes `ShellMenu` |
| `StudioUpdate` | two or more Studios, their checks and installations, the shared file |
| `StudioLinux` | the queue of the Linux Studio and its engine thread |
| `*MC` | instances for TLC |
| `*Proofs` | theorems; for `BatchPipeline`, `OutputCommit`, `UpdateLinux`, `UpdateWindows`, `StudioQueue`, `ShellWindow`, `StudioLinux`; those of `SecurityState` and `StudioUpdate` are in `UpdateStateProofs` |

A definition commented "Mutant: ..." is a wrong variant of the definition after it. No
specification uses it; substituted for that definition it shows which property notices.

### BatchPipeline

`phase` is the point `run_batch` has reached; `Spawn`, `SpawnFails` and `AllSpawned`
are its thread creation loop, `Join` the destruction of the threads and the choice of
the next phase, `Summarise` the tail of the function. Each worker runs `TakeGroup`
(the shared counter), `NextItem`, `BeginEncode` (skip check), `Convert`, `Commit`,
`AfterCommit`, `Record`. Sizes are abstracted, so groups are taken in any order (the
code sorts them by size); a resource plan is any number of jobs it may grant.
Assumption: other programs create files in the output directory, but do not delete or
replace those the batch delivered.

### OutputCommit and AtomicPublish

`Begin` to `SyncDirectory` are the system calls of one write. `target` is what the path
shows and `disk` what it shows after a power loss; Windows writes the rename through,
Linux syncs the directory afterwards. A file is its writer and the number of chunks
written; a power loss takes chunks that were not flushed. The refinement maps a file
with missing chunks to the value "torn", which `AtomicPublish` never publishes.

### UpdateLinux and UpdateWindows

`pc[Helper]` walks through `run_linux_update_helper` or `run_update_helper`, `pc[u]`
through the start-up recovery and the window of an AWJ process, on Windows
`pc[Recovery]` through `run_update_recovery_helper`. Every system call may fail where
the code tests its result; an ignored failure to remove the pointer is remembered in
`stuck`, since no promise survives it. On Windows a replacement (`Place`) is a rename
and atomic, a backup and a rollback are copies into place, and one that fails or is
killed may leave the file "torn"; `probe` is the program started for the health check,
which stays open as the new window, and `Writable` says that the image of a running
program is locked. `Overlap = FALSE` says that nobody starts AWJ in the seconds in which
the program is being swapped or restored; `Overlap = TRUE` lets them (section 7).
`committed` is a history variable: the journal says so, or the pointer was removed after
the health check.

### SecurityState

One action per step of `accept_verified_update_document`: `Acquire`, `Read`, `Decide`,
`Save` (temporary file and rename), `Sync` (Linux). `stored` is the file, `disk` what
is left of it after a power loss, `view` what a process read, `latest` a history
variable with what has been accepted. `OutagesOn` names the platforms on which the
power may fail.

### ImportService and StudioQueue

A callback of the interface is one step, since the event loop calls no callback inside
another, dialogs included; threads and processes move between any two. `posts` is the
event loop's list of closures, in order; `RunPost` runs the first. A run is a record of
its process, its output and its monitor thread: `MonitorLeavesLoop` to `MonitorReturns`
is the thread without, `MonitorThrows` to `MonitorReports` with an exception
(`guarded_worker`). `worker` is the `jthread` member whose assignment joins the last
monitor (`JoinedLast`). The worker process reports its items in any order; what it does
with them is `BatchPipeline`. `StartLargeRun` is the run of one large image. A scan is three loops, over
the roots, the folders pending and the entries of a folder (`ScanStep`); it is one step of
the thread, since nobody sees its state and a stop drops it. `ScanSteps` bounds its steps,
and `ScanAssumption` says that the bound suffices: a tree whose links are not followed is
finite. `visited` is a history count.

### ShellWindow

`Launch` creates or opens the mutex and decides who collects. The collector makes the
mailslot, drains it until its deadline, takes the send mutex so that no writer is let in
(`Deadline`), drains again and closes. A sender takes the send mutex, looks for the
mailslot up to `MaxTries` times, writes its inputs one by one and keeps those it could
not send. Each of these calls may fail where the code tests it, and any process may be
killed: its mutexes are abandoned and its mailslot is gone. The window converts, is
canceled, closed or ended by force.

### StudioPresets

The page shows one format of one preset; `builtin` and `buffer` hold the others. A
format's fields are one value: the default, typed, empty, or one that does not parse.
`Windows` and `Linux` in a name mark the two copies of the code. `Saved` and `Listed` are
the preset files, where two names may share a stem; a file that cannot be read makes the
list empty (`Fault`).

### ShellMenu and StudioMenu

`reg` maps a key to what it holds, down to a key with only some of its values. `op` is
the operation that runs, one registry call per step: `Clean` deletes every root the
program may ever have owned (a tree that cannot be deleted may have lost a part), `Apply`
creates keys and then writes values, `RollBack` deletes again. `Meddle` is another program, or the system calling an extension an image
or not. The page writes its parameters to the file by a timer, on closing and before an
installation; `snapshot` is the text it compares with, `unnoted` the case in which the
file was written without it.

### StudioUpdate

`studio[s]` is a Studio's memory, `file` the configuration, `record` what
`SecurityState` keeps. `job` is the one background job, with the channel, version and
sequence it captured when it began; `CheckReturns` and `InstallReturns` show its answer
and restore the update state if it cannot be saved. A fetch fails or returns a manifest
that was published, possibly an old one.

An installation is three steps of its thread: `Refetch` (fetch, acceptance, candidate),
then a download of any length, in which other Studios may accept newer manifests, and
`Launch` of the helper; `StageFails` ends it at any of them. `helper[s]` is the update
transaction that a Studio at `s` started: it accepts the manifest once more (`HelperVerifies`, or
`HelperRefuses`), waits for the Studio to end, replaces the program and commits or gives
up. A place for a Studio has one helper at a time, which is a bound of the model.

A save (`Outcomes`) is skipped, done or failed; on Linux it may also have replaced the file
and report an error, when the directory cannot be opened or flushed after the rename
(`ui/main.cpp:7885`, outcome "unsynced"). The callers then take the memory back, and the file
keeps what they took back. The record has the same case (`RecordAfterFailure`). `inStep` is a
history variable with the Studios whose last read, or write reported as done, is what the
file holds.

### StudioLinux

`thread` is the `jthread` of a run: `batch` while `run_batch` encodes, then it removes the
manifest, or fails to and does not notice, and posts the end. `queue`, `rows` and `failed`
are the three lists different callbacks change; what a pick or two that are dropped together
contain joins the queue file by file (`Joined`). `ItemRejected` is a file beyond the memory
limit, reported without a start; `ItemLost` an engine thread that dies of an exception after
it reported its item as started. After such a loss, or when threads cannot be created,
`run_batch` may return with files that were never started and never reported
(`BatchReturns`).

## 3. Runs

| Run | Bounds | Shows |
|---|---|---|
| `batch_files` | 2 inputs, 2 workers, 2 paths, all modes | `OneWriterPerPath`, `OkMeansDelivered`, `ResultsTruthful` (every input settled, exit code 0, cancellation, scan order in a phase), `ForeignFilesKept`; `Terminates` |
| `output_commit` | 2 writers, 2 names, 2 chunks, 2 attempts, both platforms | `OneWinner`, `TempsTidy` (own temporary files go, others stay), `PublishesAtomically` |
| `linux_update` | 2 AWJ processes, one transaction, `Overlap = FALSE` | `UpdateRecoverable` (a program is left, an unchecked one is pointed to), `CommittedStays`, `EndsWell` (the helper ends, with a program that runs) |
| `windows_update` | the same | `PairRecoverable`, `CommittedStays`, `HelperEnds` |
| `security_record` | 2 processes, 2 documents, 2 sequences, 2 contents; outages on Windows | `AcceptsForward`, `RecordsForward` |
| `studio_queue` | a folder tree with links, duplicates and missing entries, 2 requests, 2 runs, 2 closures waiting, 1 failure | `ImportsExact` (every image once), `OneWorker`, `RunShown` (button and items tell whether a run is on), `VerdictsStand` (final, canceled on request only), `QueueFollowsRun` (events find their item, the queue stands still in a run) |
| `studio_ends` | 1 request, 1 closure waiting, otherwise the same | `RunEnds`; `StudioExits`, with no worker process left |
| `shell_window` | 3 processes, one input launched twice and one too long, 2 attempts, 2 failures or kills | `OneCollector`, `InputsOnce` (none lost, none converted twice), `ClosesItselfWhenOk`; `CollectingEnds` |
| `studio_presets` | 3 names of which 2 share a file, 3 formats, 2 edits, 1 fault, both platforms | `RunsWhatIsShown`, `SaveKeepsThePage`, `PageFollowsPreset` |
| `studio_menu` | 1 extension, 3 sets of parameters, 2 places of the program, 2 edits, 2 failures or kills, 1 step of others | `WarningHonest` (silent only over exactly this menu or none), `SavedExact` (what is installed is in the file), `FailedLeavesNothing` |
| `studio_update` | 2 Studios started up to twice, 3 manifests, 3 versions, 1 edit, 2 failures or kills, both platforms, Studios symmetric | `ShownIsSaved`, `OfferExact` (an offer goes when revoked and only then), `RecordLeads` (nothing is ahead of the record or goes back), `VerifiesBestKnown` (a helper goes on only with the best offer of the newest manifest accepted by then) |
| `studio_linux` | 2 files under 3 spellings, 2 additions, 3 runs, 2 closures waiting, 1 failure | `QuietBetweenRuns`, `RetryExact` (rows, queue and failed files agree; a retry takes every file shown as failed, none shown as converted, and perhaps one that a stopped retry left pending), `RunSettles` (every run ends, with a verdict for each file) |

Why the bounds are enough. Two workers, writers, helpers or Studios give every pairwise
interleaving. No step of `BatchPipeline` reads the state of a third worker, and two inputs
are in one group, beside each other, or in two phases. Two chunks distinguish empty,
partial and whole; two names with two attempts exhaust the retry loop; two sequences with
two contents give a step forward, a step back and a change at one sequence. A stage name is
unique, so a second transaction would share no file with the first but the pointer.
`ShellWindow` needs three processes: a collector, a sender, and one that arrives when the
first has closed; its windows do not affect each other, so one is followed (`Watched`).
Two runs let closures of the first meet the second; three runs of the Linux Studio are
a run, a retry and a retry of what failed again. Of the three manifests one drops the offer
of the first from its list and one revokes it. `MaxFaults`, `MaxEdits`, `MaxAdds`,
`MaxPosts`, `MaxStarts`, `MaxOutside` and `MaxRuns` bound counters only: the theorems hold
for any value.

Deadlock is checked in the Studio runs, `shell_window`, `studio_menu`, `studio_presets` and
`security_record`, which go on for ever or have an explicit end. It is not in
`batch_files`, `output_commit`, the two update runs and `studio_update`, where everybody
may be done or a bound be used up.

## 4. Fairness

Safety needs none. Nothing is assumed of the user, of other programs or of failures.

* `Terminates`: `run_batch` and each worker, when they can take a step, eventually do;
  they are OS threads.
* `EndsWell`, `HelperEnds`: the same of the helper process, not of its parent, which is
  why its timeout matters.
* `RunEnds`, `StudioExits` of the Windows Studio: threads, event loop and worker processes
  do not all stand still while one of them can move. A worker process has finitely many
  items, each of which ends.
* `CollectingEnds`: each launched process, when it can take a step, does. A mutex that is
  waited for may be taken by others first; the wait has a limit.
* `RunSettles`: the engine and the event loop go on.

## 5. Proofs

For any number of processes, items, paths, files, runs and so on, under the ASSUMEs of the
modules.

* `BatchPipelineProofs`: `TypeCorrect`, `OneWriter`, `Delivery`, `ForeignFilesSafe`, `Truthful`. The
  invariant `Ownership` says that a group is available or in the hands of one worker, and
  that the item it converts belongs to it; claims about files follow, as a path is only
  written by its holder. `Control` ties what a worker holds to where it is, which is needed
  when the slots are reused by the next phase. `Truthful` adds `TruthInv`: an item of a later
  phase, of a group nobody took or in a worker's hands has no result (`Fresh`); a worker goes
  through its group in scan order (`Ordered`); the file at a path is that of an item that
  succeeded or is about to (`Written`); without a stop or a dead thread an item left is in a
  group, in a worker's hands or in a later phase (`Covered`), and `completed` counts the
  results (`Counted`).
* `OutputCommitProofs`: `TypeCorrect`, `WholeFiles`, `OnlyOneWins`, `Tidy`, and
  `Atomicity`, that the protocol implements `AtomicPublish`. A writer with a temporary file
  owns it (`TempOwned`), what leaves the writing step is flushed and complete
  (`FlushedWhole`), path and disk only ever show flushed files (`PathsFlushed`). A writer
  that won without replacement is what the path shows until an outage (`WinnerShown`), and
  every temporary file has a writer at work or a refused removal (`TempExplained`).
* `UpdateLinuxProofs`: `TypeCorrect`, `Recoverable`, `CommitIsFinal`, assuming `~Overlap`,
  which is needed (section 7). The invariant lists, for each step of the helper and of a
  recovery, which files exist (`Files`, `Phase`), and that only one process swaps (`Apart`).
* `UpdateWindowsProofs`: `TypeCorrect`, `Recoverable`, `PointerLast` (the pointer goes last),
  `CommitIsFinal`, assuming `~Overlap`. `Files` says that a pointer implies two whole
  backups and that without one the pair is whole; `Phase` what the pair is at each step;
  `Apart` that the recovery is idle while the helper works.
* `UpdateStateProofs`, of `SecurityState`: `StateTypeCorrect`, `RecordsKept`,
  `AcceptedForward`, assuming that the power fails on no platform but Windows, which is
  needed (section 7). A process inside holds the lock (`Exclusive`), so what it read is what
  the file says (`Current`) and what it writes is newer (`Ahead`); what was accepted is in the
  file or superseded there (`Behind`).
* `UpdateStateProofs`, of `StudioUpdate`: `WhatIsShown`, `OffersAreExact`, `RecordIsAhead`,
  `BestIsVerified`. The invariant `UpdateInv` says of the file and of every running Studio that
  the manifest taken over last is within the record, does not revoke the pending version and
  is the cached one, if any (`Good`); of a job that it began with the sequence the Studio still
  has and that its answer is no older (`JobOK`); and of a Studio in step with the file that
  not only its memory but also the snapshot the Windows Studio compares with show what the
  file holds (`Mirrors`), without which a save that is skipped could part them. Each step
  changes one Studio (`OneStudio`) and takes it on as `Onward` says, which are the action
  properties. Candidates have a greatest one because finite sets of numbers do (`Extremes`).
  For `BestIsVerified` a job that downloads and a helper that starts want the best candidate of
  the manifest they fetched, for the version and channel they began with; the helper's own
  acceptance adds that no newer manifest is recorded by that step.
* `StudioQueueProofs`: `WorkersOneAtATime`, `NoManifestLeft`. A process that is alive is that
  of the current run, and the Studio still has its handle (`AliveIsCurrent`); the closures
  that wait are of runs that were started, and an end of a run is of one whose process is
  gone (`Past`). Most steps only settle runs (`Settles`): no process comes to life.
  `ImportsAreExact`, `RunIsShown`, `VerdictsAreFinal` and `QueueFollows` need `QInv` as well.
  A closure that waits is true of its run (`EventOK`): a report names an item that the run
  lists and, with a verdict, has done with; a cancellation had been asked for. Of two
  closures the verdict of an item is the last on it, and the end of a run its last
  (`Before`). An item has no verdict while its run has it left or a report of it waits
  (`ItemOK`, `Unreported`), and its index in the run leads back to it by its id, which
  no edit of the queue changes. `RunIsShown` speaks of Studios whose monitors have not
  failed (`Sound`), as the property does. `ScanExact` follows a scan through its three
  loops: the folders that are closed, pending or being read hold every image reached, each
  key is taken once and each visited entry is counted once; at the end nothing is pending,
  which `ScanAssumption` states of the tree.
* `ShellWindowProofs`: `TypeCorrect`, `OneCollects`, `NothingLost`, `EachOnce` and
  `ClosesOnlyDone`. Who is between two steps of collecting owns the mutex, and who sends the
  send mutex (`Owners`); the mailslot
  exists while its collector reads (`Slots`); an attempt is left for whoever looks for it
  (`Hopeful`). Every input is with a process that keeps it or in a mailslot that is still
  drained (`Safe`), as a send and the last drain exclude each other. An input is with one
  process or once in the mailslot (`Once`): what a sender keeps it does not send any more.
  `EachOnce` assumes `Distinct`: finitely many processes, none launched with an input twice,
  as of two equal inputs one could be sent and the other kept when its message fails. A
  batch is over when each of its inputs is settled (`Settled`), for `ClosesOnlyDone`.
* `StudioLinuxProofs`: `QuietCorrect`. Of the closures that wait only the last can be the end
  of a run (`Order`), and while one waits or the thread works the Studio is running.
  `RetriesAreExact`: rows and queue match position by position, failed files are files of
  the queue, a row shows a failure only if its file is kept as failed and a conversion only
  if it is not (`Matches`). While a run is on, its files and those of its closures are in the
  queue, which nobody edits, and a retry has no file that had not failed (`RetryOK`).

The provers have no induction over data. Induction over numbers is proved where it is
needed, from the fact that no finite set fits into a smaller one (`Induction`); with it a
loop has a value after each of its steps (`Iteration`) and what its body keeps holds at its
end (`ScanInduction`, `JoinInduction`). Each inductive invariant was first checked by TLC on the
instance of its run.

Only model-checked: the properties of `StudioPresets` and `StudioMenu`, `SettledAtEnd` of
`StudioLinux`, and all liveness, since liveness under fairness is out of the prover's reach,
as are ENABLED and RECURSIVE operators.

## 6. How the parts fit together

`StudioQueue` composes `ImportService`, `StudioMenu` composes `ShellMenu`, `OutputCommit`
implements `AtomicPublish`. Elsewhere a module stands for another by what that one
promises: the worker of `StudioQueue`, the window of `ShellWindow` and the engine of
`StudioLinux` report each input at most once and settle what they were given, as
`BatchPipeline` shows; `Commit` of `BatchPipeline` is one step, as `OutputCommit` shows;
`record` of `StudioUpdate` only goes forward, as `SecurityState` shows; its helper ends with
the new or the old version, as the two update modules show.

## 7. What does not hold

Behaviours of the code found while modelling it. Where a definition states the expectation,
it is in the module but in no run, since TLC refutes it.

Batch engine
* `ScanOrderKept`: the comment of `build_work_groups` (`app/pipeline.ixx:384`) says that one
  path keeps the scan order. It does within a phase; a deferred or large input is written
  after a later ordinary one.
* An exception between the commit and the storing of a result leaves an output of an input
  that is reported as "not started".

Updates
* `StillStartable` (Linux): killed between the two renames, there is no `AWJ`, and the code
  that would roll back is in it.
* With `Overlap = TRUE`, `SomeProgramLeft` fails: two rollbacks at the same time remove the
  program that one of them has just restored. On Windows, without any failure, an AWJ
  started while the helper is at work takes the transaction for an interrupted one, and its
  recovery and the helper leave two files of different versions and no pointer
  (`PairAtRest`).
* `NextLaunchRecovers` (Windows): the AWJ that starts the recovery helper exits at once, and
  the helper gives up when it cannot open that process any more; if this happens at every
  start, nothing is ever recovered, though `RestartSpec` makes everybody move.
* A Windows rollback that is killed in its copy leaves a torn `AWJ.exe`, which can start
  neither itself nor the recovery; `PairRecoverable` only promises that the pointer and the
  backups are still there.
* With `OutagesOn` including Linux, `AcceptsForward` fails: the record is visible before its
  directory is flushed; an equal document is accepted from it without a flush, and a power
  loss forgets it.

Update page
* A channel switched while a check or an installation runs starts no check, although
  `update_model.ixx` says that switching is not subject to the seven days.
* A check answers with the candidate of the channel it began with, which may replace an
  offer by one that is not visible on the present channel; `OfferStays` excepts this.
* A Linux save that replaced the file and then cannot open or flush its directory reports an
  error (`ui/main.cpp:7885`): the Studio shows its old update state, the file has the new one,
  and the next Studio shows that. `ShownIsSaved` speaks of Studios whose last read or write
  was reported as done.
* Between its acceptance of the manifest and the replacement the helper waits for the Studio
  to end, up to a minute, and does not look again: a revocation that another Studio accepts in
  that time does not stop it. Nor does a download look again before it starts the helper; what
  protects there is that acceptance, which `VerifiesBestKnown` is about.
* A conversion started during the download of an update is ended when the window hides for
  the installation; only the click is refused while a task runs (compare `CHANGELOG.md:81`).
  Hiding also skips the close request, so settings since the last tick of the timer are
  lost.
* Two Studios write the whole file each and take each other's offer, sequence and settings
  back; the record does not go back.
* The updated Studio clears its pending version before it signals that it is healthy; if it
  ends in between, the helper rolls back to a version that no longer shows the offer.
* Candidates are compared with the version that runs: an old Studio on the stable channel
  may install an older version over a newer prerelease that another one installed.

Windows Studio
* The closure that shows a failed monitor sets the button idle without comparing the run
  (`ui/main.cpp:2549`): a run started in between is shown as idle. A failed monitor also
  leaves items running. `RunShown` excepts both.
* A folder whose iteration meets an error ends there; the summary tells of what was visited
  (`ui/import_service.cpp:99`).
* `QueueKeepsItsPreset`: the list is sorted again after a save while the queue keeps its
  index, so the queue may run another preset than was selected.
* A page changed back after a failed installation is equal to the snapshot and not written;
  `SnapshotIsFile` excepts this. A configuration that could not be read is overwritten on
  closing.
* One selection may end in two windows, when a follower still holds the mutex after the
  collector finished. Each input is still converted once. Draining ends early when a read
  of the mailslot fails; what was left in it is lost with the mailslot.
* `append_pending_event` and its limit are not called on Windows.

Linux Studio
* `BuiltinKept`: selecting a preset stores the page twice (`ui/main.cpp:9331`), the second
  time into the parameters of the preset it goes to, which overwrites the built-in
  parameters on the way back; compare the comment at `ui/main.cpp:306`.
* An engine thread that dies leaves its row "running" for ever, and files that were never
  started stay "pending" (`SettledAtEnd` excludes faults). `QuietBetweenRuns` excepts a manifest
  whose removal failed. A retry that ends with an error marks converted files as failed.
* Closing the window does not join the thread of a run: the program ends while it encodes,
  the manifest stays, and if the thread holds the last reference to the state it joins
  itself.
* The large-image page has no control and no event that reaches it.

## 8. Not modelled

* Signatures, hashes, parsing of keyring and manifests, HTTP, redirects, archives:
  functions of their input or external; `StudioUpdate` has their outcomes.
* Output planning: it precedes the threads, and depends on spelling; `BatchPipeline` begins
  with every plan. Resource planning: arithmetic over measured memory; every result is
  allowed.
* Visual quality search and GPU metrics: each decision depends on floating-point metrics of
  encoded pixels.
* Codecs, tone mapping, image and raw I/O: arithmetic on pixels and adapters to libraries
  without a state that outlives a call.
* Command line and configuration options: one pass over the arguments.
* Other user interface: layout, texts, file dialog, drag and drop adapters, changelog view.
* Within the modelled parts: totals of the batch summary and their overflow checks, errors
  of reading a file that is there in the two recoveries, power losses during an update,
  registry reads that fail, the file-manager menus of Linux, mailslot reads that fail, and
  the rounding of the memory limit to whole GiB when the Linux Studio shows a preset
  (`ui/main.cpp:9242`): `StudioPresets` treats it as exact.
