# Verification of Atogaki Subtitle

Atogaki Subtitle is a desktop application (Tauri, Rust, TypeScript) that recognises the
speech of a video, lets its user edit the subtitles, translates them, and renders the result.
This directory holds TLA+ models of its stateful parts, the TLC configurations that check
them on small instances, and TLAPS proofs that hold for every size.

## The system

| Component | State | Operations | What makes it correct |
|---|---|---|---|
| Stage scheduler (`stage_scheduler.rs`) | two fair tokio semaphores | acquire ASR, local translation (all ASR permits), cloud translation, drop at any await | exclusion of the device, limits, no lost permit, FIFO, no starvation |
| Task service (`local_task_service.rs`) | task directories, `local_jobs` rows, `controls`, `automatic`, spawned runs, pollers | submit, run, pause, resume, refresh, relink, delete, retry, recover | one run per task; row and status file agree; everything listed is served or settled; published marker never ahead of the cues |
| Job runner, manifest (`job_runner.rs`, `job_manifest.rs`), command line (`main.rs`, `whisper.rs`, `evaluation.rs`) | `status.json`, `segments.json`, subtitle files | stages of a recognition, calls of whisper, `mark`, `fail`, processing clock, five commands, scoring | a manifest says what was made, and how long it took; evidence says on which device; a score is a distance |
| Acoustic checkpoint (`acoustic_plan.rs`, `acoustic_stitch.rs`), early translation (`early_translation.rs`) | chunk plan, evidence per chunk, prepared audio, final cues, group cache | plan, recognise, repair, reuse, stitch; follow progress, translate a stable prefix | a resumed recognition uses only evidence of its audio, options and models; no speech lost or doubled at a seam; the prefix session ends |
| Subtitle workspace (`local_db/subtitle_*.rs`, `local_workspace_service.rs`) | cues with revisions, translations, provenance, dependency edges, translation lock per job | edit, split, merge, restore, refresh, translate group (compare-and-set), export | no user's work lost under a machine write; staleness follows the text |
| Structure undo (`structure_undo_history.rs`, `structure_edit_session.rs`) | bounded in-memory history | record, undo, rebase, evict | an undo restores exactly the document before its edit |
| Re-recognition candidates (`local_retranscription_service.rs`), run store (`asr_run_store.rs`), review (`asr_review.rs`, `asr_quality.rs`) | run records, rows, artifacts, signals, decisions, attempts | preview, cancel, compare, adopt, release; detect, decide | an adopted run keeps its cues and evidence; every evidence can be reached and cleaned up; decisions are kept |
| Render service (`local_render_service.rs`), exports | render rows, flags, hidden files | submit, cancel, render, install, recover; export | a user's file is only replaced with consent and by something whole |
| Translation pipeline (`translation_planner.rs`, `translation_batching.rs`), adapters (`openai_compatible.rs`, `deepl.rs`, `local_llama.rs`) | waiting requests, token tables, the managed server | plan groups, batch, protect and restore terms, start and stop the server | every cue translated once; answers reach who asked; terms survive |
| Downloads, dictionaries, settings (`src-tauri`) | partial files, packages, version files, indexes, profiles, keys | start, cancel, resume, verify, install, remove; look up; save, test | only verified files are used, and stay there; "verified" is shown for the key that was tested |
| Glossaries, notebook (`local_glossary_service.rs`, `local_learning_service.rs`, `local_db.rs`) | glossaries with terms, snapshots of tasks, items, lookup results | renew, save, delete, correct; collect, look up, decide | what the user wrote survives upgrades and late answers |
| User interface (`ui/src`) | drafts, text undo | type, save, restart, undo | typed text is neither lost nor written on a cue it was not made on |
| Media server, waveform (`media_server.rs`, `waveform.rs`) | registered files, caches | serve ranges; build and read | an answer is what it declares |

The parts meet in few places. A UI command calls a service of the Rust process. The task
service spawns one tokio task per queued job, which asks the scheduler for the ASR stage, calls
the job runner, and, for automatic jobs, the workspace service, whose provider goes through the
same scheduler. The status file in the task directory is the truth of a job; the SQLite row is
what the task list shows, and is written from snapshots of that file by the run, by a poller
that runs beside it, by the commands, and by the recovery at start-up. Most hazards live in this
last triangle: file, row, and the in-memory `controls` map are updated one after the other, by
several actors, and the process can die between any two writes.

## Modules

* `StageLimits` is the abstract promise of the scheduler: which stage executions may be under
  way together. It knows no permits or queues.
* `StageScheduler` models both semaphores permit by permit: `Request` is the first poll of an acquire,
  `Resume` the poll after the semaphore has assigned everything, `Complete` and `Cancel` drop the guard or the
  future. `HandOffs` describes tokio's fair queue, which is external: freed permits go to the waiter at the
  head, who may hold part of what it asked for. It refines `StageLimits` (`Limits == INSTANCE StageLimits WITH
  ...`, the running clients being the abstract state).
* `StageSchedulerProofs` holds its theorems.
* `TaskLifecycle` models `LocalTaskService` and `run_queued_task`: `dir` is the task directory,
  `row` the SQLite row, `newer` the comparison of their `updated_at`, `control` and `automatic`
  the two in-memory maps, `lock` the `controls` mutex where the code keeps it across an await,
  `run` the spawned runs with their program counter, `poller` the poller of each run, `call` the
  UI command each caller is in. A step ends where the code awaits, locks, or writes a file. The
  ASR stage appears as a counter of permits, as `StageScheduler` justifies.
* `TaskPromise` is the abstract promise of the task queue: an accepted task is dispatched to one run, which
  begins and ends; the deletion of the task or the end of the application breaks this course. `TaskLifecycle`
  refines it (`Promise == INSTANCE TaskPromise WITH ...`): a task is accepted while its control is registered
  and no run has it; deleted tasks are forgotten, as nothing is promised about them.
* `TaskLifecycleProofs` holds the theorems of `TaskLifecycle` about runs and controls, `TaskRowProofs`, which
  extends it, those about rows, status files and markers.
* `TaskLifecycleMC` names the command sets and the symmetry of the instances.

A reader who follows `run_queued_task` from top to bottom meets, in this order: `Lookup`, `Admit`, `Wake`,
`Acquire`, `Withdraw`, `Start`, `Begin`, `Enter`, `Recognize`, `NextStage`, `Recognized` or
`RecognitionFails`, `MarkTranslating`, `JoinPrefix`, `PublishCues`, `MarkPublished`, `Translate`,
`TranslatePending`, `MarkDone`, then the wrap-up `FailManifest`, `LoadFinal`, `SyncFinal`,
`ForgetAutomatic`, `Close`. `StopOnPause` is the `select!` on the pause watch, `WorkFails` stands
for every `?` of the work.

### The subtitle workspace

* `SubtitleStore` holds the tables of one task as a value `store` (workspace revision, cues in
  order, provenance of each cue, edges of the machine translations) and every transaction of
  `src/infrastructure/local_db` as an operator from store to store, with its condition beside it:
  `Cut` and `Join` of texts, structure edits, candidates, snapshot merges, the compare-and-set of a
  translated group with the triggers that count revisions. A text is a sequence of pieces, a
  machine translation remembers the sources and contexts it was made from, so that "outdated" means
  something.
* `SubtitleWorkspace` lets the actors run over it: the editor's saves and structure edits, the
  structure undo (`history`, with rebase and eviction), the window's text undo, a translation run
  (`batch`: lock, plan, groups in flight, answers, failures, drain), the refresh that merges the
  recognised snapshot again, the export with its two reads. A step is a repository transaction;
  what is held across two is a variable.
* `UndoPromise` is the abstract undo: a document, and a stack of recorded edits, each with the document before
  and after it. An edit is undone only in the document it led to, and gives back exactly the one before it.
  Others may write beside it, which makes the newest edit impossible to undo until its document is back.
  `SubtitleWorkspace` refines it (`Promise == INSTANCE UndoPromise WITH ...`).
* `SubtitleStoreProofs` holds lemmas about each transaction for tables of any length,
  `SubtitleWorkspaceProofs` the theorems.
* `SubtitleWorkspaceMC` names its instances.

### The parts that share nothing

Each of these modules keeps files and rows that no other module touches. `DesktopParts` puts those with
steps into one specification: `subject` is the part that moves in a behaviour, `x1` to `x17` (in `DesktopSlots`)
are its variables. They run one at a time because they are independent; side by side only the product of
their states would grow. What a part does meet (an edit of the cues while a candidate is compared, a quit of the
program, another program that writes its file) is an action of its own. `DesktopServices` and
`DesktopRecognition` hold the instances of the parts, in two groups, so that the proofs about one group do not
have the other before them. `DesktopPartsMC` gives the constants their values, and adds the algorithms that
compute one text from another (stitching, refinement, plans, protected terms, the text of a glossary, scores):
they have no steps beside others, and their functions are recursive, which keeps them out of modules with
theorems.

| Module | Code | State | Steps |
|---|---|---|---|
| `AcousticRecognition` | `acoustic_plan.rs`, `recognize_acoustic`, `early_translation.rs` | prepared audio, plan, evidence, final cues, group cache; the recogniser, the prefix session and its notices | one file write or one await each; damage and crashes between attempts |
| `CandidateRuns` | `local_retranscription_service.rs`, `asr_run_store.rs`, `asr_runs.rs` | record, row and files of each run, recognition lock, artifact lock, flags | preview, wait, recognise, finish, compare, adopt, reopen, release, crash |
| `AsrReview` | `asr_quality.rs`, `asr_review.rs` | signals, decisions, attempts | detect (letters of real texts), decide in two steps, adopt |
| `ModelDownload` | `model_download.rs` | `.part`, installed and chosen file, listing, cancellation | reserve, resume, fetch, verify, install, uninstall, select |
| `DictionaryLookup` | `dictionary_download.rs`, `dictionary_lookup.rs` | package, backup, version file; index, unpacked database and its version | fetch, verify, set aside, replace; read version, open, build, rename |
| `DesktopSettings` | `desktop_settings.rs` | rows, keychain, cached key, revision, provider in use | each write of a save; a test that reads, builds, asks and records |
| `VideoRender` | `local_render_service.rs`, `media.rs` | rows, queue, hidden and set-aside files | submit, start, encode, fall back, look at the output, rename in steps that may fail, cancel in two steps; files that appear |
| `SpeechStitching` | `acoustic_plan.rs`, `acoustic_stitch.rs`, `subtitle_segmentation.rs` | what is heard in each chunk, the joined units, the cues | the whole algorithm, against the speech that was spoken |
| `CueRefinement` | `domain/segment.rs` | segments, cues | the whole algorithm, letter by letter |
| `TranslationPlanning` | `translation_planner.rs` | timeline, targets, plan | the whole algorithm |
| `TranslationRequests` | `translation_batching.rs`, `openai_compatible.rs`, `translation_use_case.rs` | waiting requests, batches in flight, what each caller got | collect, send, answer or fail, drop |
| `TermProtection` | `deepl.rs`, `openai_compatible.rs` | lines, answers, failed tries | protect, a service that moves, loses or doubles tokens, restore |
| `TranslationServer` | `local_llama.rs` | processes, handle, lock, where each caller is | look, ask for health, kill, start, poll, send, retry, cancel anywhere |
| `WhisperFallback` | `whisper.rs`, `acoustic_plan.rs` | evidence of each chunk, the attempt under way | each call of whisper on GPU or CPU, its failure, the two files, reuse after a kill |
| `AsrEvaluation` | `evaluation.rs` | language, reference, what was heard, the score | the whole algorithm, against a definition of the fewest edits |
| `CloudRecognition` | `gemini_asr.rs` | upload session, files at the service | each request, its failure, the deletion, cancellation |
| `GlossaryBook`, `GlossaryText` | `local_db.rs`, `local_glossary_service.rs`, `glossary.rs` | glossaries and corrections; terms, snapshot file, corrected cue | renewal in its statements, saves; normalise, write, read, correct |
| `LearningNotebook` | `local_learning_service.rs`, `local_db.rs` | items, uses, results | collect, look up and use in two steps, edit and replace cues |
| `SubtitleDrafts` | `ui/src/subtitle-drafts.ts` | draft, timer, writes in flight, copy in localStorage | type, save, conflict, restore, discard |
| `MediaServing`, `WaveformCache` | `media_server.rs`, `waveform.rs` | handle, pieces, bytes sent; cache, shared temporary file, loads | read piece by piece while the file changes; check, build, rename, read |
| `JobCommands` | `main.rs`, `job_runner.rs`, `job_manifest.rs` | segments, files, manifest, clock | each step of five commands, failing or killed |
| `SubtitleExport` | `local_workspace_service.rs` | files of the task and of the user's directory | plan, read, write, copy, an automatic export beside it |

`DesktopServicesProofs` and `DesktopRecognitionProofs` hold the theorems about the specifications of the parts,
`DesktopPartsProofs` those about `DesktopParts`, which follow from them.

Ghost variables (each marked in its module) name what the code does not defend against and what a
property therefore sets aside: two loads that crossed in one temporary file, an audio that was
replaced by one of the same length and second, a translation that lost tokens.

An operator commented "Mutant of X" is not part of a model: it is X with a plausible bug, kept beside it
to show that the property would notice.

## What the runs check

| Run | Instance | Shows |
|---|---|---|
| `scheduler` | 2 ASR permits, 1 cloud permit, 3 recognitions, 2 local and 2 cloud translations | `DeviceExclusive`, `NoPermitLost`, `NoOvertaking`, `EventuallyServed`, and the refinement `ImplementsLimits` |
| `lifecycle` | one automatic task, two concurrent commands, 4 commands or crashes in all, all commands | `OneRunPerJob`, `ExecutingIsControlled`, `MarkedIsPublished`, and the refinement `KeepsPromise` |
| `served` | one task, one caller, 5 commands or crashes: submit, pause, resume, relink, crash | `HeldIsResumable`, `ListedIsServed`, and the liveness of `PauseReturns`, `ListedSettles` |
| `stages` | two tasks, one automatic, one ASR permit, two callers, submissions and pauses | `DoneIsTranslated`, `SettledAgrees` |
| `editing` | a translated task of two cues, two edits of text or structure, undo, one translation run with two groups | `FreshTranslation`, `MovedContextFlagged`, `KeepsUserWork`, `RevisionsAdvance`, and the refinement `UndoHonest` |
| `translation` | a fresh or translated task, one edit, one run with two groups in flight, one refresh or export | `ExportFresh`, `RefreshKeepsWork`, and the liveness of `BatchEnds` |
| `parts` | each part of the table above | `EvidenceKept`, `ChosenIsVerified`, `DictionaryHonest`, `ProvidersHonest`, `OutputSafe`, `WordsKept`, `TranslationsOwn`, `GlossariesKept`, `DraftsKeepTyping`, `NotebookKept`, `ServedAsDeclared`, `ManifestHonest`, and the liveness of `PartsSettle` |
| `refresh` | submit and open a task | violates `SettledAgrees` |
| `automatic` | submit and resume a task | violates `DoneIsTranslated` |
| `delete` | submit and delete a task | violates `DeletesOnlyFinished` |
| `relink` | submit and relink a task | violates `RelinkSticks` |
| `restore` | a text undo beside a translation run | violates `UndoTextIsCurrent` |

The five violations are disagreements between the code and its own documents or messages:

* **refresh** Opening a task loads its manifest and writes it to the row later. The run may
  finish in between; the older snapshot then stands in the row, whose `updated_at` is already
  the newest, so nothing looks stale and no later listing repairs it until a restart.
* **automatic** `resume_task` configures the translation workspace first. The run that has
  just failed may still be on its way out, and removes the workspace by task id after that. The
  resumed run ends as done, untranslated.
* **delete** The row says done or failed as soon as the poller has seen the mark `transcribe` writes, while
  the run still publishes, translates or wraps up. The deletion takes the directory away.
* **relink** A task that is relinked before its run starts is given its captured path back.
* **restore** A text undo is offered while the cue in the window is the one that was saved. The write
  itself compares nothing: a machine translation a running batch has stored meanwhile, which the
  window has not read yet, is replaced by the old text.

Smaller things the models show, which contradict no document and are therefore not runs: a cancelled
download may be listed as "cancelling" until the restart; a cancelled render may be listed as
cancelled while it goes on; two waveform loads of one task share a temporary file, so that one of
them can fail or leave a torn cache; a DeepL answer that loses or doubles a protected term is
believed; a glossary term that starts with `#`, or contains the arrow or a tab, does not survive
the snapshot of a task; two English segments of 72 letters together are merged to 73 and cut in
their last word; a cancelled translation leaves a loading server that the next one kills and starts
again; audio uploaded to the cloud stays there when the recognition is cancelled or the deletion
fails; after a crash between the commit and the answer of a save the restored draft equals its cue and still
blocks closing until it is looked at; an export of a task beside its automatic export may copy a torn file.
The row of a re-recognition candidate stays running until the next start when the write that says it failed
fails too: `PartsSettle` asks that the candidates rest, not that their rows end.

A render installs its video by a look and renames that are steps of their own
(`install_rendered_output`). A file that appears at the output after the look is overwritten, without consent
when the look found the place free (line 470); one that appears between the two renames (483 to 486) is
overwritten by the video or by what is put back. The model takes these steps (`Install`, `MoveIn`, `SetAside`,
`Replace`, and `UserWrites` at any of them). `OutputSafe` would not hold of such a file, and sets it aside by name
(`Unseen`): it counts as the user's once the renames are over, if it is still there. Any other file that
appears during the rendering is protected from the moment it appears. The model does not tell two files of
the user at one path apart, so a backup put back over a newer file of the user is not seen either.

Bounds of the task queue. A job id is used once, so one job with two run slots shows every overlap of two runs
of a task; two jobs are needed only for the competition for the ASR permit. Two callers show every pairwise
overlap of commands; four commands are enough for submit, pause, resume and one more (or a crash). Commands
are counted only where they are issued: what they cause is never cut. With one job the retries of the status
poller add no counter, and every loop of the model is finite, so the instances are complete for these
commands. `CHECK_DEADLOCK FALSE` is used because the application does stop when all tasks are settled and the
commands are used up.

Bounds of the workspace. Two cues that touch give every structure edit a neighbour, and two groups of a plan
each other's context; two edits in a row show an edit of what an edit made, and an undo under another
one; one run holds two groups in flight. The history keeps two entries, so that the third is evicted by
a merged and a split cue. Candidates replace the first cue.

Bounds of the parts. Each is the smallest in which its hazard occurs: two of whatever may meet (callers,
lookups, loads, renders, candidates, commands that decide), one of what they meet in, two pieces of what can
be cut in the middle, and one to three faults. Sequences of letters are long enough for a seam with its two
margins (9), for a repetition with a blank in it (4), for a long text in three parts (6). Plans are made of up
to four cues of four shapes; terms are looked at in nine tables that were chosen for what they are mistaken
for. The definitions of the constants in `DesktopPartsMC` say the rest. `CHECK_DEADLOCK FALSE`: faults,
edits and commands are counted, and a part that has used them up stands still.

`HeldIsResumable` is checked with one caller and `SettledAgrees` and `DoneIsTranslated` without
crashes and refreshes, because the code gives no such guarantee in the excluded situations; the hazards
in `PROJECT.json` say which.

Fairness. Tokio polls every ready task, external processes and provider calls end (each has a
time-out or a bounded input), and file and database operations return: weak fairness of the runs,
pollers, commands in flight, and of the recovery. The ASR permit is taken under strong fairness, as other
runs may take it in between; the scheduler's `EventuallyServed` justifies it. In the workspace only the
translation run is fair: its provider has a time-out. In the parts `Progress` is fair for the worker of
the part (recogniser and prefix session, candidate worker, render worker and submitter, batching worker,
server and the calls that wait for it, writer of a draft): each waits only for a process or a request
that ends or times out. Users, crashes and faults are never forced.

## What is proved

`StageSchedulerProofs` proves, for every finite set of permits and any set of clients, under
`PermitsAssumption` and `ClientsAssumption` only: type correctness, `DeviceExclusive`,
`WithinLimits`, `NoPermitLost`, `NoOvertaking`, and that `StageScheduler` implements `StageLimits`.

None of the safety properties is inductive. Exclusion speaks of running clients only, but what excludes is the
ownership of permits; a client becomes running by `Resume`, long after its permits were assigned. The
inductive invariant `IInv` therefore says that a permit is owned by a client of its own pool, that a client
which is granted or running has all it asked for while a queued one has not, that only a local translation
holds several permits, that no permit of a pool is free while somebody is queued for it, and that `ahead`
relates queued clients of one pool. Limits follow by mapping every running client to a permit it owns, an
injection, and cardinality.

`TaskLifecycleProofs` proves, for any tasks, callers, runs, permits and commands, under
`BoundsAssumption` and `NoneAssumption` only: type correctness, `OneRunPerJob`,
`ExecutingIsControlled`, and that `TaskLifecycle` implements `TaskPromise` (`KeepsPromise`).

That a task has one run is not inductive: nothing in it says why a resume finds the first one. Its `IInv`
is the argument the code rests on:

* `Controlled`: a task's control is registered before it is dispatched and stays until its run
  ends, so whoever resumes the task meanwhile finds it and steps back.
* `OneDispatch`: hence one call at a time is between registering and sending, and none while a
  run has the task.
* `SubmissionIsQuiet`: a submission writes the manifest and the row before it registers the control. Until
  then row and manifest say queued, wherever one looks, so no resume or pause gets past its first check.
* `Kept`: only a deletion takes a manifest away. A resume that fails to write its manifest
  would otherwise withdraw a control that is in use.
* `RunShape`, `CallShape`, `DownIsIdle`, `Untouched`: what a run or call carries at each step, who
  holds the lock, and that neither a crash nor a task not yet submitted leaves anything behind.

`Implementation` then maps `Enqueue` and `Reserve` to Accept, `Send` to Dispatch, `Start` to Begin,
`Close` to End, `DeleteMove` to Withdraw, `Crash` to Stop, and every other step to a stutter.

`TaskRowProofs` uses `IInv` and proves what the rows of the task list say, for the same constants:

* `MarkedIsPublished`, for all commands. The invariant follows the cues from the snapshot file through what a
  run carries into the row, and says that a row which has cues keeps them: `Carries`, `FilesStay`.
* `SettledAgrees`, if nobody refreshes, deletes or crashes. The row lags behind the status file all the time;
  `Settling` says who still owes the row its next write, and that this write will say what the file says.
* `HeldIsResumable`, for one caller and without deletion. With two it is false: the second pauses what the
  first is about to resume.
* `DoneIsTranslated`, for submissions, retries, pauses and relinks. A crash, a refresh or a resume in the
  wrong moment breaks it; see run `automatic`.
* `ListedIsServed`, without refreshes and deletions, and with resumes for one caller and no automatic task. A
  task in the list as queued or in progress may have lost every control and every run when a resume steps
  back, a publication fails or a crash comes between two writes. `Serving` says who works for it: a task with a
  control has a run or a command that will dispatch it (`Works`), a published task never waits for a
  recognition, and a run that ends leaves a settled file and then a settled row (`Concludes`). With resumes a
  published task is done, nobody reads the failure of a run that goes on (`Clean`), and what a resume or a
  pause has read is still so when it acts (`Finds`, `Awaits`). It uses `Holding`, the invariant of
  `HeldIsResumable`.

TLC has the counterexample for each excluded command; the assumption is the strongest claim the code supports,
not a convenience of the proof.

`SubtitleWorkspaceProofs` proves `TypeOK`, `FreshTranslation`, `MovedContextFlagged`, `ExportFresh`,
`RevisionsAdvance`, `RefreshKeepsWork` and the refinement `UndoHonest` for every transcript, candidate and
bound. The assumptions are those of `SubtitleWorkspace`: `TranscriptAssumption` (cues have distinct ids and
positive lengths), `IdentityAssumption` (the ids of new cues are new), `BoundsAssumption`, `OpenedAssumption`.
`FreshTranslation` says something of the tables only; but what stands in a table may come back from the
editor's window, from the undo history, from a plan that was read long before. The invariant says the same of
every such place:

* `StoreInv`: no translation is left unflagged when its source or a context has moved, edges and provenance
  belong to cues that exist, and tables nobody edited are still the transcript.
* `EditorInv`: a cue that the window shows, or that a text undo would write back, does no harm when it is
  written (`Harmless`): its revisions are not ahead of the table's, and what it would leave unflagged is not
  outdated.
* `HistoryInv`: the entries of the history join up, each beginning where the one before it ended, and while the
  tables are where the newest left them what it brings back is sound.
* `LeftInv`: ids not used yet are nowhere; `ExportInv`: an export that no write has crossed still holds the
  tables. `BatchInv` is about shapes only.

`UserWorkIsKept` proves `KeepsUserWork`: the answer to a request a run made before the user changed a cue
leaves that cue alone. It needs `WorkInv` beside the rest: the revisions a run has read are never ahead of
those of a cue that stayed, and are behind them once the user has changed the cue. `Aged` has to survive each
transaction, a structure edit and its undo among them, where the cues that stay must be told from those that
come back.

`SubtitleStoreProofs` has the lemmas on which this rests: a transaction keeps the tables sound, leaves nothing
unflagged, lets revisions grow, and touches only the cues it is about.

`DesktopPartsProofs` proves the properties of the run `parts` for every value of the constants:
`ChosenIsVerified`, `DictionaryHonest`, `ProvidersHonest`, `OutputSafe`, `GlossariesKept`, `DraftsKeepTyping`,
`NotebookKept`, `ServedAsDeclared`, `ManifestHonest` and `EvidenceKept`. The part that moves stays the same
(`SubjectStays`), and while it is that part a step of the whole is a step of its own specification
(`ModelsFollow`, ...). Where that specification has fairness, the invariant of the part is carried over instead of
its theorem, which needs none of it.

`DesktopServicesProofs` and `DesktopRecognitionProofs` prove the properties of the parts, each under one named
assumption about constants (mostly that `None` is no value):

| Theorem | Property | What the invariant adds |
|---|---|---|
| `OutputsSafe` | `OutputSafe` | a render passes the worker once (`Once`), hence sets the user's file aside once (`FirstBackup`); what the worker knows at each step of an installation, where a file that counts is set aside whenever the worker does not look (`WorkerKnows`); a file that appears after the look is set aside (`Unseen`) |
| `PackageSurvives` | `DictionarySurvives` | at each step of an installation one of the two files is there, and what is renamed into place was verified |
| `DictionaryStaysHonest` | `DictionaryHonest` | releases only go up, and a lookup reads the version before it opens the package: what it builds may be newer than its label and never older (`ReadInOrder`, `IndexInOrder`, `DatabaseInOrder`) |
| `ChosenWasVerified` | `ChosenIsVerified` | the hash was fed exactly what the part holds; what is about to be chosen is whole or gone |
| `VerifiedKeyWasTested` | `VerifiedWasTested` | which key each step of a save or a test holds, and the revision it read first |
| `ExportsSafe` | `ExportSafe` | the files of an export are of one reading; a target is the user's until it is replaced with consent |
| `NotebookCoherent` | `NotebookKept` | one item of a key; a lookup under way belongs to the item it was made for |
| `OneServer` | `ServerKept` | who holds the lock knows whether there is a handle; what lives is the process of the handle; until something breaks nobody asks a server that is not ready |
| `TypingIsKept` | `DraftsKeepTyping` | draft, copy and write in flight hold one text between them; a conflict is kept with what it is about |
| `DeviceIsHonest` | `DeviceHonest` | the attempt under way and the evidence already written agree about device and fallback |
| `CloudIsHonest` | `CloudHonest` | offset and session are a prefix of the audio; which files of the service are in sight |
| `GlossariesAreKept` | `GlossariesKept` | only a start makes a glossary the built-in one, and it starts with no save under way |
| `ManifestIsHonest` | `ManifestHonest` | the order of the steps: a file is written after what its contents are made of, and no step but the manifest's marks anything; the time counted is time worked |
| `CandidatesKeepEvidence` | `AdoptedKeepsEvidence`, `ListReachesAll` | a preview is of an ended recognition; whoever names a checkpoint and is not released keeps it, one that is released keeps its first file until the others are gone |
| `CuesAreStitched` | `CuesFollowEvidence` | a plan is made for the resources of its first attempt; the cues in the files are those of the evidence beside them |
| `LastWordIsShown` | `ReviewKept` | the decisions of a signal have a greatest row; what was there when a command began has no later time, unless the clock was set back |
| `WaveformStaysHonest` | `WaveformHonest` | a file that a name stands for is of one audio file, and what it lacks some load has still to write (`OfSound`, `Pending`); a load beside which none builds finds what it made or checked (`Undisturbed`); before it, what the divisions of `read_window` come to: its points take every bucket of the window once (`PointsTile`, `SeenSounds`) |
| `AnswersAreHonest` | `ServedAsDeclared` of `MediaServing` | what was sent and what is left to send are, one after the other, the positions promised (`OnCourse`); nothing left goes past the length at the opening (`Within`); what was read is between the marks of the answer and of the open file (`InTime`); before it, what a sequence of sequences flattens to (`FlattenAppend`, `FlattenFirst`), by the least number at which it would fail (`Climb`) |

Attempts to prove corrected the models. `OutputSafe` took two renders of consenting users to one file for one;
it is now stated with the files that are the user's. The workspace has a ghost `unlinked` for translations
that a text undo brought back without their edges. `UndoPromise` had allowed an undo to return any recorded
document. `DraftsKeepTyping` had claimed a text that a call had already committed and another writer replaced
since (`Overtaken`). `GlossariesKept` had held only for corrections that change nothing when they are applied
twice; it now speaks of the texts that corrections lead to. `KeepsUserWork` had counted what moves no revision
and what moves it back: a text undo that only clears flags, and a cue that is removed and adopted again from a
candidate, which starts at revision 0 (a counterexample of 24 steps). It now speaks of cues whose texts, times
or translation were changed and that stayed in the tables.

Model-checked only:

* Liveness (`EventuallyServed`, `PauseReturns`, `ListedSettles`, `BatchEnds`, `PartsSettle`): fairness and
  ENABLED are beyond the prover.
* `WordsKept` and the plans and terms of `TranslationsOwn`, which are about recursive algorithms
  (`SpeechStitching`, `CueRefinement`, `TranslationPlanning`, `TermProtection`, `GlossaryText`,
  `AsrEvaluation`): induction over data.
* `PartsTypeOK`, the type invariant of the parts; the proofs carry the shapes they need in their own invariants.
* `RequestsOwn` (batching), `RepetitionReported` and the words of an evaluation: what they say of a fold or a
  selection over a sequence is again induction over data.

The provers cannot follow an `EXCEPT` that is nested in another through `@`; modules with theorems write such
updates out.

## What is not modelled

* External programs: ffmpeg, whisper-cli, mlx, llama-server, the cloud services, the keychain, SQLite
  and the file system appear as what they may answer. A write of a small file by rename is
  atomic; a plain write can be cut.
* `submit_process`, which only tests call, the failures of the file and database operations of a
  submission, and the ASR-run records of a task, whose state decides no step of it (the candidates'
  are in `CandidateRuns`).
* Searches and listings over the whole library, the annotation export, the export of the notebook to
  cards: read-only.
* Two local translation servers: `TranslationServer` has one `LocalLlamaRuntime`, while `task_provider` makes one
  for each task. What the runtimes of two tasks do to one address is left out.
* Subtitle styles and fonts, menus, windows and dialogs, paths, languages and network settings: values
  without a protocol.
* The experimental Postgres server, which shares no state with the application.

`PROJECT.json` lists for each component what is modelled and for each hazard the property that covers it or
why none does.
