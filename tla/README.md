# ReplicaSync in TLA+

ReplicaSync copies the records of Pleasanter sites (tables `Results` and
`Issues`) from a source to target sites, on a polling loop, directly through the
databases. This directory holds its formal models: TLA+ modules translated from
the code, TLC configurations that check them on small instances, and proofs that
TLAPS checks for every instance. `PROJECT.json` is the index: which definition
models which lines, which run checks which property, what each run found, and
the hazards that the properties are for.

The repository also holds the programs that keep its documentation: a script that
mirrors `docs/wiki` into the GitHub wiki, and tools for tables of contents and
PDF files. They are modelled too.

Paths below leave out the prefix `src/src/VehicleVision.Pleasanter.ReplicaSync.`,
and those of scripts and documents the prefix `src/`.

## The system

| Component | State it keeps | Operations | Interacts with |
| --- | --- | --- | --- |
| Worker (`Worker/SyncBackgroundService.cs`) | the cycle it is in, its delay, the stopping token | create a scope, read the enabled definitions, synchronise them in order, wait, stop | engine (calls), configuration store (reads), host (cancels) |
| Synchronisation engine (`Core/Services/SyncEngine.cs`) | `_lastSyncTimes` of the scope's engine, the locals of `ExecuteSyncAsync`, the log entry | one synchronisation: window, changes, per mapping a record loop and a deletion loop, cleanup, log | Pleasanter databases, version history, configuration store |
| Rule engine (`Core/Services/SyncRuleEngine.cs`) | none | effective columns, filtered record | engine |
| Pleasanter access (`Infrastructure/Pleasanter`) | the rows of a site, its `Items` and `_deleted` rows | four queries; insert, update and delete transactions | source and target databases, which users edit at the same time |
| Version history (`Core/Services/VersionHistoryService.cs`, `Infrastructure/Repositories/VersionHistoryRepository.cs`) | `RecordVersionHistories`, the change tracker of the scope's `AppDbContext` | capture a snapshot, retention by count, retention by age | the context it shares with the log entries |
| Configuration store (`Infrastructure/Repositories/SyncConfigRepository.cs`) | instances, definitions, log entries | create, read, update, delete | worker, web API, pages |
| User accounts (`Infrastructure/Repositories/AppUserRepository.cs`, `Web/Components/Pages/Account`) | users, failed logins, lock-out, must-change flag | log in, lock, reset, change password, seed the first user | web pages, both host programs |
| Web API, Blazor pages, Desktop shell | the entity a page has read when it was opened | forms and requests over the two stores | stores |
| Reconnection dialog (`Web/Components/Layout/ReconnectModal.razor.js`) | dialog, CSS class, listener, unanswered calls | show, hide, retry, resume, reload | Blazor and the server (events, answers), the user |
| Wiki synchronisation (`docs/script/sync-docs-to-wiki.js`, `.github/workflows/sync-wiki.yml`) | a job's checkout and its clone of the wiki | clone, list, write pages, assets and sidebar, delete, commit, push | GitHub (starts jobs, takes pushes), other jobs, wiki users |
| Tables of contents (`docs/script/toc-single.js`, `decode-toc.js`, `npm run toc`) | the files in `docs`; what a tool has read | doctoc, then decode, per file or for all | the editor (saves start them), each other |
| PDF files (`docs/script/generate-pdf.js`) | results per file, `pdf-output` | match, convert in a loop, exit code | the files |

What is hard here:

* **Separate transactions.** Looking up a target row, taking its snapshot and
  writing it are three calls on two databases, and users edit meanwhile.
* **A shared change tracker.** All repositories of a scope share one context. A
  `SaveChangesAsync` that fails leaves its entities tracked, and the next save,
  of whoever, sends them again.
* **Catches at three levels**: a record, a synchronisation, a cycle. Each must
  leave counters, status and rows that agree, and each also catches the
  cancellation of a stop.
* **Time windows.** What is read is decided by `UpdatedTime`, the memory of the
  engine and the polling interval.
* **Reused keys and opposite definitions**: deletions are applied after changes,
  and two definitions may form a loop.
* **Crashes and stops** between any two calls.
* **Stale entities.** A login, a page and an API request keep the account they
  have read; pages write the whole row back, no row has a concurrency token, and
  two programs share the table.
* **Late answers.** In the dialog several retries, Blazor's own attempts and the
  user's clicks wait for answers at one time.
* **Overlapping jobs.** The wiki workflow has no concurrency group and pushes are
  not retried; the tools of the editor are started at every save and lock nothing.

What makes each part correct:

* Engine: a Success delivered everything; a row is written only after its
  snapshot is committed; no key is doubled; a deletion answers one of the same key
  in the source; conflicts are treated as the strategy says; each synchronisation
  ends and is logged.
* Version history: numbers are ordered by time and without holes; retention never
  takes the newest ones; what an earlier failure left behind does not block what
  follows.
* Worker: no change falls between two windows, each definition keeps its
  interval, a stop is honoured.
* Accounts: a lock has been earned by failures on that account and holds until it
  ends, a row is never mixed with that of a former account. Configuration: no lost
  update.
* Dialog: a page without its circuit has somebody at work on it, and the dialog
  shows exactly while there is none.
* Wiki: overlapping runs act as if each took one step, a successful run has
  published its documents, protected pages stay, links lead somewhere.
* Tools: a tool alone with a file leaves the right table of contents, and the
  exit code of a PDF run tells whether every file has its PDF.

## Modules

| Module | Models | Extends |
| --- | --- | --- |
| `HistoryStore` | the version table and an EF context, as operators on a set of entries and a tracker | |
| `VersionHistory` | several workers on one version table, every save a step of its own | `HistoryStore` |
| `HistoryStoreProofs` | lemmas about the operators of `HistoryStore` | `HistoryStore` |
| `VersionHistoryProofs` | theorems about `VersionHistory` | `VersionHistory`, `HistoryStoreProofs` |
| `PleasanterDb` | a Pleasanter site and what each query and transaction does to it | |
| `SyncRules` | the rule engine | `PleasanterDb` |
| `SyncEngine` | `ExecuteSyncAsync` among users, faults, stops and crashes, for any caller | `SyncRules`, `HistoryStore` |
| `SyncEngineProofs` | lemmas about the statements and the filter; the types and counters of `SyncEngine` | `SyncEngine`, `HistoryStoreProofs` |
| `SyncWorker` | the worker loop around the engine | `SyncEngine` |
| `SyncOutcomeProofs` | theorems about what a synchronisation does to sites and history, under any caller and under the worker | `SyncWorker`, `SyncEngineProofs` |
| `DocumentedPromises` | statements of the documentation the code does not keep | `SyncWorker` |
| `Accounts` | one user account between logins, pages and two programs | |
| `AccountsProofs` | theorems about `Accounts` | `Accounts` |
| `ReconnectDialog` | the dialog's script among Blazor, the server and the user | |
| `ReconnectDialogProofs` | theorems about `ReconnectDialog` | `ReconnectDialog` |
| `WikiTree` | what the script makes of a checkout and a clone: titles, links, sidebar, deletions | |
| `WikiMirror` | abstract specification: the wiki as a line of commits, each made from the one before | `WikiTree` |
| `WikiSync` | the overlapping runs of the script | `WikiMirror` |
| `WikiSyncProofs` | theorems about `WikiSync`, the refinement among them | `WikiSync` |
| `TocFormat` | a table of contents as doctoc writes and `decode-toc.js` changes it, and a reference for it | |
| `DocTools` | the tools on the files while an editor saves them | `TocFormat` |
| `DocToolsProofs` | theorems about `TocFormat` and `DocTools` | `DocTools` |
| `MCVersionHistory`, `MCSyncEngine`, `MCSyncWorker`, `MCWikiSync`, `MCDocTools`, `MCAccounts` | constants for TLC | |

`SyncWorker` composes the worker with the engine, the engine with the sites and
the version history. The other modules stand alone: the programs they model
share no state with these but the files or rows that the modules have.

### How the engine's state and steps correspond to the code

`pc` names the awaited call `ExecuteSyncAsync` is about to make; between two
awaited calls nothing else of the process runs, so everything from one `await`
to the next is one action. Every such action can complete, throw by a fault, or
throw because the token is cancelled. `mappings`, `changed` and `todo` are what
the `foreach` loops have left; `record` and `existing` are `record` /
`deletedRecord` and `existingTarget` / `targetRecord`.

| Action | Code (`Core/Services/SyncEngine.cs`) |
| --- | --- |
| `ExecuteSync`, `GetReferenceType`, `FetchChanges` | 41-93: the call, the window, the query for changes |
| `EnterMapping`, `LeaveMappings` | 99-113, 237: `foreach` over the mappings |
| `FindTarget` | 115-143: lookup and conflict |
| `CaptureSnapshot`, `UpsertRecord`, `ApplyRetentionForRecord` | 145-176 |
| `GiveUp` (inside the actions) | 178-184 and 228-233: the inner catches |
| `FetchDeletions`, `FindDeleted`, `CaptureDeleteSnapshot`, `DeleteTarget`, `LeaveDeletions` | 187-235 |
| `Cleanup` | 239-240 |
| `Abort` (inside the actions), `StopInLoop` | 242-247; 117 and 196 |
| `LogWritten`, `LogLost` | 253 |
| `NewScope` | `Worker/SyncBackgroundService.cs` 36-40 |

The world around it: users create, update and delete rows in the sites that
`Creators`, `Editors` and `Deleters` name, the clock ticks, the host stops and
restarts the worker, the process crashes. `SyncEngine` leaves open who calls it,
so what is shown there holds for any sequence of calls; `SyncWorker` adds the
loop, and the theorem `WorkerCallsEngine` (`WorkerSpec => Spec`) carries what is
shown of the engine over to the worker. `seen` of `SyncWorker` is an auxiliary
variable: when a definition's changes were last fetched.

### How the other modules' actions correspond to the code

| Module: actions | Code |
| --- | --- |
| `Accounts`: `WrongPassword`, `RightPassword` | `Login.razor` 70-89 and 107: read, lock and password asked, in one step up to the first save |
| `RecordFailedLogin`, `LockoutEnd`, `LockoutUser`, `ResetFailedLoginCount` | `AppUserRepository.cs` 97-140, each one save of the columns that changed; after the first `Login.razor` 91 decides about the second, and 93 fixes the end of the lock before it is saved |
| `EditorOpens`, `SaveWithPassword`, `SaveWithBlank` | `Users/Edit.razor` 118-199, `ChangePassword.razor` 113-128, `UsersController.cs` 74-104: read, then save the whole row |
| `HostStarts`, `HostSeeds` | `Web/Program.cs` 86-99, `Desktop/Program.cs` 78-91 |
| `CreateUser`, `DeleteUser` | `UsersController.cs` 51-71 and 108-118, and the pages that do the same |
| `ReconnectDialog`: `ShowEvent`, `HideEvent`, `FailedEvent`, `Reload` (inside the events) | `handleReconnectStateChanged` 11-21 |
| `RetryClicked`, `BecomesVisible`, then `ReconnectSucceeds`, `ReconnectRefused`, `RetryResumes`, `RetryNotResumed`, `RetryThrows` | `retry` 23-46, cut at its two awaits; the listener 59-63 |
| `ResumeClicked`, `ResumeAnswered`, `ResumeThrows` | `resume` 48-57 |
| `ConnectionLost`, `PausedByServer`, `AutoReconnects`, `AutoFails`, `AutoRejected`, `ServerForgets`, `Reachability` | Blazor, the server, the network: external |
| `WikiSync`: `PushTriggers`, `WorkflowDispatch` | `sync-wiki.yml` 3-9 |
| `NoDocsDir`, `Clone`, `Build`, `NothingChanged`, `Push`, `PushRefused`, `Fail` | `sync-docs-to-wiki.js` 227-230, 232-273, 275-341, 343-345, 346-357, 351 with 365-370, 365-370; `End` is the `finally` |
| `DocTools`: `Save`, `TocAll` | RunOnSave of `.vscode/settings.json` with `toc-single.js` 12-19; `npm run toc` with `decode-toc.js` 25-60 |
| `ReadFile`, `DoctocWrites`, `DecodeWrites`, `JobStops` | a file is read as a whole (`decode-toc.js` 63) and written as a whole (121); doctoc does likewise |
| `PdfStarts`, `ConvertToPdf`, `PdfAborts`, `PdfEnds` | `generate-pdf.js` 117-138, 76-112 in the order of 70, 85-87 with 169-172, 146-166 |

### Abstractions

* Three columns stand for all: `Key` (the sync key), `Val` (any data column),
  `Title` (`Title` and `Body`, the two that are both base columns and data
  columns). The lists of columns are sets: case and repetitions are left out.
* A site is a database of its own. A record id is unique in its site. Users give
  values; the sync user is not one of the editing users, as the setting
  `SyncUserId` asks.
* One clock for all databases; within one tick events have the same time, which
  covers equal timestamps. Clock skew is not modelled.
* A failing call has no effect or, where it commits (`UpsertRecord`,
  `DeleteTarget`, a `SaveChangesAsync` of the version history in `SyncEngine`), it
  may have had its whole effect and lose only its answer; so may every save in
  `VersionHistory` (`SaveLost`). The log entry's own save in `SyncEngine` fails
  without effect.
* Users change what a row holds but not its sync key (`UserUpdates`): a key is
  given up by deleting the row. `NoDuplicateKeys` rests on this.
* Mappings without a target instance (`SyncEngine.cs` 107-111) and definitions without
  a source instance (56-59) are left out: the definitions come from a query that
  includes both, and foreign keys hold them. `VersionHistory` gives each history
  the definition it belongs to, as the engine's key of a history has it.
* The deletion time of a row is the `UpdatedTime` of its `_deleted` row, as
  `GetDeletedRecordsSql` takes it. What Pleasanter itself does is external.
* A duplicated column is rejected by SQL Server and PostgreSQL in both
  statements; MySQL accepts it in an UPDATE, which is not modelled.
* `FieldLevelMerge` is in the enumeration and nothing in the engine looks for
  it: it behaves as `SourceWins`, in the model as in the code.
* In `SyncEngine` a call to the version history is one step, since one worker is
  the documented deployment. `VersionHistory` takes the same calls apart and
  lets several workers run.
* `Accounts` has one account and leaves out role, name and must-change flag. A
  password stands for its salted hash. `Security:AccountLockout:Enabled` is true,
  as by default. After an exception a page is closed; in the code it stays open
  with an entity that no save accepts any more.
* `ReconnectDialog` joins the answer to a call with what the script does with it,
  since a continuation runs before the browser's next event. The listener is
  registered at most once however often it is added, as `addEventListener` says.
  The script's own `close` after a retry that resumed (39) is one step with the
  event in which Blazor hides the dialog.
* `WikiSync` takes what a run does between clone and push as one step: the job is
  alone in its workspace. A path is a sequence of names and a name a sequence of
  words between hyphens, so that two paths may have one title. A page has a
  revision of its text and one link.
* `TocFormat` keeps of a table of contents the indentation, the titles and
  whether anchors are still raw. A body is its headings above and below the table;
  a file without a table counts as one with an empty table at its top. What doctoc
  does is external knowledge, since its code is not in the repository: without
  `--all` it lists only the headings below the table, and leaves a table as it is
  when there is nothing to list.

## What TLC checks

Passing runs. All bounds are constants: `MaxTime` / `MaxClock` ticks, `MaxEdits`
user steps, `MaxFaults` failing calls, `MaxSyncs` synchronisations,
`MaxCaptures` snapshots.

| Run | Properties | Bounds, and why they are enough |
| --- | --- | --- |
| `VersionHistory` | `TypeOK`, `VersionsInOrder`, `NoGaps`, `PendingIsNextOrSaved`, `RetentionKeepsNewest` | 1 worker, 2 records with a definition each, 2 versions kept, 4 captures, 2 faults, which leave a save without effect or only without its answer: a history overflows, empties by age and restarts while entries are pending |
| `SyncOneWay` | `TypeOK`, `LogAdds`, `SnapshotFirst`, `SuccessMeansPresent`, `FaultFreeSyncSucceeds` | 2 synchronisations, 3 edits of either site with keys used again, a fault, crashes: create, copy, edit the copy, copy again; a key twice in the source; a key deleted and created again |
| `SyncTwoWay` | `NoDuplicateKeys`, `NoEcho` | two opposite definitions, 2 keys, 2 synchronisations (there and back), 3 edits, a fault |
| `SyncStrategies` | `SuccessMeansPresent`, `DeletesAnswerDeletions` | 2 keys that are used again, one tick, 3 edits; two definitions on one pair of sites: `ManualResolution` without history and limits behind a disabled mapping, and `LastWriteWins` with all columns, whose INSERT and UPDATE are rejected; a stop |
| `WorkerCycles` | `WorkerTypeOK`, `EngineStartsCold`, `SteadyPollingSkipsNothing` | two definitions, enabled none, one or both, 3 synchronisations, a fault, stop and crash |
| `WorkerStops` | `StopIsHonoured`, `SyncEnds`, `PickedRecordArrives` | fair worker, a fault, a stop at any step |
| `WikiRuns` | `TypeOK`, `SuccessMeansPublished`, `LinksLeadSomewhere`, `ActsAtOnce`, `ProtectedPagesStay`, `RunsEnd` | 3 jobs, 3 commits (one drops a page and has two files of one title, one empties the directory), 1 edit in the wiki, 1 failure: a job is overtaken by another one, by a user, by both; a push is refused, or taken without an answer |
| `ReconnectDialog` | `TypeOK`, `NeverStranded`, `DialogShowsLoss`, `Recovers` | 3 unanswered calls of each kind, so that two late answers meet a third call; no other bound, losses and returns may repeat for ever |
| `DocTools` | `TypeOK`, `ExitCodeTells`, `AloneLeavesTheRightToc` | 2 files, 4 bodies (a title above the table and deeper levels below; no table yet, the title below; no title; a section with the name of the title, for which nothing is promised), 2 tools started at any time on top of each other, files as earlier overlapping runs left them, one PDF run whose pattern matches any files |
| `Accounts` | `TypeOK`, `LocksAreEarned`, `OnlyStaleSavesLift`, `AccountsAreNotMixed` | 2 logins, 1 page, 2 programs, 2 accounts of one name after each other, 3 failures, a lock that lasts one tick: set, seen, expired and set again |

Every property has a mutant in `PROJECT.json`, a plausible mistake in one mapped
definition under which TLC finds that property violated; the mutated forms are
the definitions commented *Variant, to be rejected*.

Fairness. `FairWorkerSpec` has weak fairness of the worker's steps, the engine's
among them: the runtime completes every awaited call, with a result, an exception
or a cancellation (the drivers have timeouts). It has weak fairness of the clock
too, since `Task.Delay` elapses. No fairness is assumed of users, faults,
stops, restarts and crashes. `FairSpec` of `WikiSync` has weak fairness of each
job's steps: GitHub runs the jobs it has queued, and commands and jobs have time
limits; nothing is assumed of users, failures and pushes to main. `FairSpec` of
`ReconnectDialog` has it of the answers (calls return or throw), of the end of
Blazor's attempts (their number is limited) and of the user's return to the
page, which is what the listener waits for; that a button is pressed is not
assumed, nor that the server comes back: `Recovers` asks for the latter itself.
Once a bound is used up the model would deadlock
where the program goes on; `Horizon` in `SyncWorker` lets it stutter there.

### What TLC refutes

Two statements of the repository that the code does not keep have a run each;
`PROJECT.json` quotes the lines.

| Run and property | Statement | What happens |
| --- | --- | --- |
| `ValueNotUpdated`, `UpdateReachesTarget` | the source's values overwrite the target's (`sync-engine.md` 53) | the UPDATE asks for the new values in its WHERE clause and reaches no row |
| `PasswordPutBack`, `BlankKeepsPassword` | a password left blank is not changed (`Users/Edit.razor` 66, `web-manual.md` 421) | the page saves the whole row it read when it was opened, and with it the password of that time |

`DocumentedPromises` holds what `docs/wiki/sync-engine.md` says of a
synchronisation where the code does otherwise. The others are refuted in the same
way. The instance is that of `ValueNotUpdated.cfg` with the property in place of
its own (as PROPERTY, or as INVARIANT where it is a state predicate) and the
changes in the last column; the definitions named there are in `MCSyncEngine`.

| Property | Statement | What happens | Instance |
| --- | --- | --- | --- |
| `NewerTargetSurvives` | `LastWriteWins` skips a newer target (68) | the conflict is counted and the row overwritten (`SyncEngine.cs` 136) | `Config <- LastWriteWins`, `MaxTime = 3` |
| `SyncedRowsSurvive` | the deletion step is about deleted records (40-43) | the row just synchronised has the key of a deleted one and is deleted (194) | `ReuseKeys = TRUE` |
| `LogCanBeWritten` | an error is logged as Failed (197) | a snapshot left by a failed save collides with the next, and the log entry is in the same save (`VersionHistoryRepository.cs` 29) | `ReuseKeys = TRUE`, `MaxFaults = 1` |
| `NoChangeIsSkipped` | changes since the last synchronisation are found (129) | the last time dies with the scope (65) | `MaxTime = 4` |
| `ConflictsAreLeftAlone` | `ManualResolution` leaves conflicts alone (73) | the deletion loop never asks | `Config <- Manual`, `MaxTime = 3` |
| `FaultFreeSyncSucceeds` (of `SyncEngine`) | no include list means all columns, `Title` too (98, 110) | `Title` twice in one statement: every record fails | `Config <- AllColumns` |
| `ExcludedColumnsSurvive` | excluded columns are left out (99) | the UPDATE writes an empty title | |
| `IntervalIsKept` | the interval is a setting of the definition (131) | all run at the smallest one | `Definitions = {ab, ba}`, `Config <- SlowAndFast`, `Rank <- RankTwo`, `Enabled = {{ab, ba}}`, `MaxTime = 3`, `MaxSyncs = 4`, `MaxEdits = 1` |
| `EverySyncIsLogged` | every synchronisation is logged (135) | the entry is saved with the cancelled token | `CanStop = TRUE` |
| `OverwrittenStateIsKept` | the overwritten state is kept (154) | an edit between lookup and write | |
| `SnapshotHoldsValues` | snapshots hold all column values (169) | the lookup reads none | |
| `CountIsLimited` | versions beyond the limit are deleted (183) | not after a delete snapshot | |
| `ItemsFollowRows` | consistency is ensured (199) | `Items` is updated with the source's record id | `Keys = {k1, k2}` |

`configuration-guide.md` 304 says that `MaxFailedAttempts` failures in a row lock an
account for `LockoutDurationMinutes`. Both halves are refuted with `Accounts.cfg`, whose
two logins may overlap, and the property in place of its own. `LocksAtTheLimit`: the
login page reads the count after the repository has incremented the same entity
and adds one again (`Login.razor` 91), so the lock comes one failure early.
`FailuresKeepLocks`: the end of a lock is fixed at `Login.razor` 93 and saved later
(`AppUserRepository.cs` 128-140); of two failures that overlap, the one with the earlier
end may save last and shorten the lock of the other.

Two more observations that no document contradicts. With two workers
`VersionsInOrder`, `NoGaps`, `PendingIsNextOrSaved` and `RetentionKeepsNewest` fail: a
worker that read its number early saves it late. With opposite definitions and reused keys `NoEcho` fails:
deletions made by the sync user are not filtered out (`GetDeletedRecordsSql`).

Observations on the other programs:

* A wiki run of an older commit that clones after a newer one has pushed puts the
  older documents back; nothing orders the jobs. The abstract specification
  allows it (`Synchronise` of any commit of main).
* Of two files with one title (`s/a.md`, `s-a.md`) the one that is listed last is
  published. Links into a subdirectory are not rewritten to the hyphenated
  title, and assets that the documents drop stay in the wiki.
* `decode-toc.js` doubles the indentation of a table it has treated already, which
  happens when two tools overlap on a file; a save that falls between the read
  and the write of a tool is lost. The next tool that works alone repairs the
  table of contents (`AloneLeavesTheRightToc`), not the save.
* The table of contents is not the promised one for some documents, which `Regular`
  of `TocFormat` leaves out. A section at the margin of the table that is named like
  the H1, which stands above the table and so is not listed, is taken for the title:
  its line is removed and the others move left (`decode-toc.js` 97-100). With several
  H1s below the table only the line of the first is taken out, and the others stand at
  the margin together with the sections; an H1 of spaces only counts as no title. Of a
  table whose first heading is deeper than a later one, the spaces before its first
  line are neither removed nor doubled, since what is edited begins at the first
  `- [` (line 71). And a document that has nothing left to list keeps its old table,
  whose indentation is doubled once more.
* `generate-pdf.js` joins its arguments to one pattern: a shell that expands
  `docs/wiki/*.md`, as line 8 proposes, gives a pattern that matches no file, and
  the script ends with exit code 0.
* After a lock has expired the count is still at the limit: one more failure
  locks the account again. Failures that overlap may be lost from the count.
* `Users/Edit.razor` asks `HttpContext` for who is logged in to prevent
  self-demotion; an interactive circuit has none, so nothing is prevented, and
  nothing keeps the last administrator from being deleted.

## What is proved

`VersionHistoryProofs`, for any set of workers and records and any bounds, from
`HistoryAssumption` alone:

* `TypeCorrect`: `Spec => []TypeOK`. The next number is a maximum over a set of
  entries, which is a number only if the set has one: the inductive invariant
  `TypeInv` adds that the committed numbers are bounded (`Bounded`), which the
  saves preserve because a tracker holds finitely many entries.
* `NumbersFollowTheClock`, `HistoriesHaveNoGaps`, `PendingNumbersStay` and
  `RetentionOfOneWorker`, for one worker: `VersionsInOrder`, `NoGaps`,
  `PendingIsNextOrSaved` and `RetentionKeepsNewest`. The inductive invariant
  `OneInv` adds that nothing is dated later than now, nor an entry later than one that
  is pending and not saved (`Dated`); that pending entries which are in the table, since
  only the answer of their save was lost, are the newer end of a history (`UpperEnd`);
  and that what the tracker has marked for deletion is the older end of one (`LowerEnd`)
  and too old or outnumbered (`Droppable`), unless it is gone already: deletions of a
  failed save are sent later, when there may be more versions, never fewer.

`SyncEngineProofs`, for any sites, definitions, mappings, users, bounds and
faults, from `ConfigAssumption`, and for any caller:

* `EngineTypeCorrect`: `Spec => []TypeOK`. `TypeOK` is not inductive: a snapshot
  is well typed only because a row was found, a target only because a mapping is
  left. `TypeInv` adds `Control` (which locals are set at which `pc`), the bound
  on the version numbers (`StoreOK`) and the counters. It falls into parts that
  different actions disturb, with one lemma each: `StepWorld` (sites, clock,
  bounds), `StepStore` (history and tracker), `StepLocal` (the locals) and
  `StepLogInv` (the log entry).
* `CountersAgree`: `Spec => []LogAdds`. Inductive together with the entry's type.

`SyncOutcomeProofs`, for the same. The proofs look at a step in two ways only:
`StepSites` says what it does to the sites (one of the named transactions of the
engine on its target, `EngineWrites`, or one of a user, `UserWrites`), `StepFlow`
where it takes the engine (`Flow`).

* `SnapshotsComeFirst`: `Spec => []SnapshotFirst`. From the commit of the
  snapshot to the write only users, the clock and the host take steps, and a
  failed or rejected save leads to the next record, not to the write.
* `KeysStayUnique`: `Spec => []NoDuplicateKeys`. `KeyInv` adds that from a lookup
  without result to the insertion the key stays free: users of such a site
  change and delete rows but keep their keys, no other definition runs in
  between, and an UPDATE that writes the key column reaches only rows that have
  that key already (`UpdateTyped`). This is what several engines at a time, or a
  change of the UPDATE's WHERE clause, would put in question.
* `SuccessIsTrue`: `Spec => []SuccessMeansPresent`, if `KeysAreCopied`: no list of
  columns of an enabled mapping leaves the sync key out. Without it the rows
  arrive without a key and the next lookup misses them. The invariant
  (`ArrivedInv`) carries what is left of the loops: while nothing has failed, the
  key of a fetched record is known to a target, or a mapping to that target is
  left in whose loop the record is still to do or at hand (`OnItsWay`); what the
  lookup found has the key of the record (`FoundKey`). A site never forgets a key,
  since the keys of deleted rows are kept (`StepRemembers`), so users may delete
  what has arrived.
* `NoFailureWithoutFault`: `Spec => []FaultFreeSyncSucceeds`, if
  `StatementsAccepted`: the columns of each enabled mapping are some, and `Title` is
  not among them. That hypothesis is the very gap the instance `AllColumns` of the
  table above shows. `QuietInv` adds that nothing is left in the context that a
  later save would send, so that a snapshot, whose number is free, can be saved.
* `DeletionsAreAnswered`: `Spec => DeletesAnswerDeletions`, for any definitions and
  users. `DeletionInv` says that what the deletion loop works on was deleted in the
  source within the window, and that the row at hand has the key it was looked up by,
  or is gone, since ids are not given twice (`OwnIds`). The property says no more than
  the code keeps: with reused keys a source row may have the key of a deleted one, and
  it is its copy that goes (`SyncedRowsSurvive`).
* `NothingComesBack`: `Spec => NoEcho`, if `OneSideEdited`: users work on one side of each
  definition, keys are not used again, and a definition that reads a site without
  users has the sync user of those that write there. The last is the duty that the
  setting `SyncUserId` leaves to the administrator: with two sync users the echo
  filter of one definition does not know the writes of the other, and TLC refutes
  `NoEcho` (`SyncTwoWay` with `!.syncUser = user` for `ba`). Definitions may connect the
  two sides in both directions, and those that only read sites of users may each
  have a sync user of their own. The inductive invariant `DirectedInv` spans the
  history of several synchronisations: the rows of a site without users are the
  sync user's for whoever reads them (`CopyInv`), so that nothing is fetched from
  there and only what users deleted is deleted elsewhere (`SourceInv`); a key is
  alive in one site of users at most, and not once it is dead there or was deleted
  from a copy (`AuthorInv`).
And of the worker, from `WorkerAssumption` as well:

* `WorkerCallsEngine`: `WorkerSpec => Spec`, the specification of `SyncEngine` under any
  caller: every step of the worker is a step of the engine's specification
  or leaves its variables alone (`WorkerStepIsEngineStep`). Its consequences
  `WorkerKeepsEngineInvariants` and `WorkerKeepsEnginePromises` carry over what is
  shown above for every configuration, and what is shown under a hypothesis.
* `WorkerTypeCorrect`: `WorkerSpec => []WorkerTypeOK`.
* `EnginesStartCold`: `WorkerSpec => EngineStartsCold`. `ColdInv` says that
  during a cycle a remembered time belongs to the current definition, or to one
  that is done. It shows that `_lastSyncTimes` never serves its purpose, for any
  set of definitions; `NoChangeIsSkipped` above shows what follows.
* `NothingIsSkippedInTime`: `WorkerSpec => SteadyPollingSkipsNothing`. It follows from the
  cold start: every window reaches back one interval from a time before the fetch
  (`WindowInv`), so it holds what came after the fetch before, if that was no longer ago.
  Within these limits the worker loses nothing; beyond them it does.

The three hypotheses are about the configuration alone. `KeysAreCopied` holds in
the runs `SyncOneWay`, `SyncTwoWay`, `SyncStrategies` and both worker runs,
`StatementsAccepted` in all of these but `SyncStrategies`, which has a rejected
list on purpose, and `OneSideEdited` in `SyncTwoWay` and `WorkerCycles`.

`WikiSyncProofs`, for any documents, wiki, users, number of runs and failures, from
`WikiAssumption`:

* `RunsActAtOnce`: `Spec => ActsAtOnce`, the refinement of `WikiMirror` with the same
  `head` and `wiki`. The invariant says that the clone of a run is the tree of
  commit `base`, and once built a tree of `SyncedTrees` of it; a push that
  extends the branch finds `base` to be the last commit, so the step is
  `Synchronise`, and every other step of a run stutters.
* `SuccessIsPublication`: `Spec => []SuccessMeansPublished`. A built tree shows the
  documents of the run's commit whatever file wins among those of one title
  (`Shows` is proved of every tree in `SyncedTrees`), commits are never removed
  from `wiki`, and a run with nothing to commit has found its tree at `base`.
* `ProtectedPagesAreKept`: `Spec => ProtectedPagesStay`, from the same facts: a
  pushed tree was computed from the very tree it replaces.
* `PublishedLinksLead`: `Spec => []LinksLeadSomewhere`.
* `WikiIsTyped`: `Spec => []TypeOK`.

`ReconnectDialogProofs`, for any `MaxCalls`:

* `NobodyIsStranded`, `DialogTellsTheLoss` and `DialogIsTyped`: `NeverStranded`,
  `DialogShowsLoss` and `TypeOK` hold always. They are inductive together with the
  fact that Blazor makes no attempts while the circuit is live
  (`NoAttemptsWhenLive`), without which a late success would leave attempts
  that reload a live page.

`AccountsProofs`, for any logins, pages, programs, passwords and bounds, from
`AccountsAssumption`:

* `AccountsAreTyped`, `RowsStayApart`, `LocksHold` (`OnlyStaleSavesLift`) and
  `LocksNeedFailures` (`LocksAreEarned`): the four properties of the run. The invariant
  adds that a login at work has read no lock that was running, and that whatever was
  read of the present account, by a login or a page, shows no count and no lock that
  its failures have not earned (`Bounded`, `SoundLogin`); everything read has an id the
  table has given out already.

`DocToolsProofs`, for any files, texts and tools, from `DocsAssumption` (the files
are in an order without repetition, a text is headings above and below the table,
and tables are indented by an even number of spaces):

* `DecodeKeepsItsPromise`: `decode(doc.body, doctoc(doc)) = Expected(doc.body.below)` for
  every document, of any length, that is `Regular`: there is something to list, no
  listed heading is above the first one, and the title stands above the table without
  a namesake at its margin, or is the only H1 below and says something, or there is
  none. TLC found that the promise needs each of these (see the observations). Table
  and reference are sequences made of sets of positions (`At`, `Nth`), so that taking
  the title out is taking one position out of a set (`NthWithout`, `AtWithout`); the
  rest is arithmetic on indentations, line by line (`TableLines`, `TitleHit`,
  `WithoutTitleLines`, `DecodedLines`).
* `LoneToolIsRight`: `Spec => AloneLeavesTheRightToc`, which speaks of regular documents.
  The inductive invariant `AloneInv` says that no other tool has a file of a lone
  one, that what the lone one has read is what the file says, and that doctoc's
  table stands in the files it has treated or decode has still to treat.
* `DocToolsTypes`: `Spec => []TypeOK`. `TypeInv` adds that what a tool has left
  follows some position of its list, which is why a second pass meets every file.
* `ExitCodeIsTrue`: `Spec => []ExitCodeTells`. The invariant (`Accounted`) says that
  each matched file is to do, has failed or has its PDF, and only one of these.

The lemmas on operators are in `HistoryStoreProofs` (`MaxOfBounded`: a bounded
non-empty set of naturals has its maximum, in the form in which `Max` chooses it;
`NextVersionIsAbove`, `NextVersionFollows`, `AddedByTracking`, `TrackedIsAdded`,
`TrackingFields`, `SavedIsFinite`, `ExcessIsDownClosed`) and
in `SyncEngineProofs` (what a lookup returns, and for each statement that the
site stays a site and what becomes of the keys in it).

The assumptions are evaluated by TLC in every run that extends their modules.

Every invariant and action property of the passing runs is stated by a theorem
that holds for every value of the constants. Only model-checked is liveness
(`SyncEnds`, `PickedRecordArrives`, `StopIsHonoured`, `RunsEnd`, `Recovers`): the
prover does not handle fairness and `ENABLED`. What the two refuted properties and
`DocumentedPromises` say is false, so there is nothing to prove of them.

## Plan

Done, in the order of importance: the version history; the Pleasanter statements;
the engine; the worker; the accounts; the wiki synchronisation with its abstract
specification; the reconnection dialog; the documentation tools.

What would come next:

1. Several mappings with different columns, and edits of a definition while its
   cycle runs.
2. `Replication`, an abstract specification of what a synchronisation promises
   (a target is a function of what the source was in the window), with
   `SyncEngine` implementing it where the findings above do not stand in the way.
3. `ConfigStore`: definitions, mappings and instances edited by API and pages
   while the worker reads them, with roles and several accounts.

## Not modelled

Editing of definitions and instances by API and pages: whole rows are read and
saved as in `Accounts`, and the store has no rule of its own beyond keys.
Roles, renaming and the must-change flag of accounts. Wikis of Pleasanter (their
`Locked` column) and the connection test. The network filter, the API key check
and password hashing: functions of one request. The Desktop shell: a window
around the web application. Layout of pages, style sheets, what doctoc,
md-to-pdf and Blazor do inside. The branch of the wiki script that pulls into an
existing clone: jobs start in a fresh workspace. Stored settings that no code
reads: record filters, attachments, target-to-source mappings, topology.
