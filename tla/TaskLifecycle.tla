---------------------------- MODULE TaskLifecycle ----------------------------
(***************************************************************************)
(* LocalTaskService and run_queued_task                                    *)
(* (src/application/local_task_service.rs): the durable task queue of the  *)
(* desktop application.                                                    *)
(*                                                                         *)
(* A task is a directory (status.json, the manifest, and marker files), a  *)
(* row of the SQLite index that the task list shows, and, while the        *)
(* application runs, an entry of the in-memory map `controls`.  A queued   *)
(* task is executed by its own tokio task (a run); a poller publishes the  *)
(* manifest into the row while it works.  UI commands (callers) submit,    *)
(* pause, resume, open, relink and delete tasks.  A step below ends where  *)
(* the code awaits, takes a lock or writes a file; between two steps every *)
(* other actor may move, and the process may die.                          *)
(***************************************************************************)
EXTENDS FiniteSets, Naturals

CONSTANTS
  Jobs,          \* task ids, each used for one submission (a fresh UUID)
  Automatic,     \* the jobs submitted with automatic translation
  Callers,       \* UI commands that can be in flight together
  Runs,          \* run_queued_task instances that can be alive together
  Commands,      \* the commands callers may issue, and "crash"
  AsrCapacity,   \* permits of the ASR stage (StageScheduler)
  MaxCommands,   \* bound: commands and crashes over a behaviour
  None

ASSUME BoundsAssumption ==
  /\ Automatic \subseteq Jobs
  /\ AsrCapacity \in Nat \ {0}
  /\ MaxCommands \in Nat

VARIABLES
  dir,        \* the task directory: does it exist, its manifest, its files
  row,        \* the row of local_jobs and its segments, or None
  newer,      \* manifest.updated_at_unix > row.updated_at_unix
  control,    \* controls[job]: the pause flag (a watch) and `started`
  automatic,  \* jobs with a workspace configured for automatic translation
  run,        \* the run_queued_task instances
  poller,     \* the status poller of each run: is it on, what has it loaded
  call,       \* the UI command each caller is in
  lock,       \* who holds the `controls` mutex across an await
  up,         \* the application has started and finished its recovery
  submitted,  \* jobs whose submission began
  deleted,    \* jobs a deletion took the directory of (for the properties)
  commands    \* commands and crashes so far

durable == <<dir, row, newer>>
memory == <<control, automatic, lock, up>>
bounds == <<submitted, deleted, commands>>
vars == <<dir, row, newer, control, automatic, run, poller, call, lock, up,
          submitted, deleted, commands>>

\* Created, extracting, transcribing, refining, exporting are all "active".
Statuses == {"queued", "active", "translating", "done", "failed"}
Terminal == {"done", "failed"}
Manifests == [status : Statuses, input : {"original", "relinked"}]
\* options: recognition-options.json; preferences: task-preferences.json;
\* workflow: workflow-version.json; segments: segments.json;
\* published: asr-published.json.
Files == {"options", "preferences", "workflow", "segments", "published"}
Directories ==
  [exists : BOOLEAN, manifest : Manifests \cup {None}, files : SUBSET Files]
Snapshots == [manifest : Manifests, cues : BOOLEAN]
Rows == [status : Statuses, input : {"original", "relinked"}, cues : BOOLEAN,
         translated : BOOLEAN]
Controls == [paused : BOOLEAN, started : BOOLEAN]

ASSUME NoneAssumption ==
  None \notin Jobs \cup Callers \cup {"original", "relinked"} \cup Manifests
               \cup Snapshots \cup Directories \cup Rows \cup Controls

Absent == [exists |-> FALSE, manifest |-> None, files |-> {}]
NewControl == [paused |-> FALSE, started |-> FALSE]

NoRun == [pc |-> "none", job |-> None, input |-> None, pending |-> FALSE,
          permit |-> FALSE, unseen |-> FALSE, auto |-> FALSE, kept |-> None]
Off == [on |-> FALSE, seen |-> None]
NoCall == [pc |-> "none", job |-> None, kept |-> None]

\* The await points of `work`, where the pause watch can stop the run.
Interruptible ==
  {"entering", "recognizing", "prefix", "publishing", "marking", "translating"}
Executing ==
  Interruptible \cup {"starting", "recognize", "recognized", "translate", "unrecognized",
                      "translated", "failing", "ending", "reporting", "leaving", "closing"}
RunPoints ==
  Executing \cup {"none", "sent", "waiting", "held", "acquiring", "granted"}
CallPoints ==
  {"none", "submit_sync", "submit_prepare", "enqueue", "send", "sent",
   "pause_sync", "await_stop", "resume_check", "resume_lock", "unhold",
   "reserve", "requeue", "requeue_sync", "refresh_sync", "relink_row",
   "delete_move", "delete_row"}
RunStates ==
  [pc : RunPoints, job : Jobs \cup {None}, input : {"original", "relinked", None},
   pending : BOOLEAN, permit : BOOLEAN, unseen : BOOLEAN, auto : BOOLEAN,
   kept : Manifests \cup Snapshots \cup {None}]
PollerStates == [on : BOOLEAN, seen : Snapshots \cup {None}]
CallStates ==
  [pc : CallPoints, job : Jobs \cup {None},
   kept : Manifests \cup Snapshots \cup Directories \cup {None}]

-----------------------------------------------------------------------------
(* Files and database *)

\* JobSnapshot::load finds a directory with a status file.
Loadable(j) == dir[j].manifest # None
Snapshot(j) ==
  [manifest |-> dir[j].manifest, cues |-> "segments" \in dir[j].files]

\* write_manifest: atomic, creates the directory when it is missing.
WriteManifest(j, m) ==
  /\ dir' = [dir EXCEPT ![j].exists = TRUE, ![j].manifest = m]
  /\ newer' = [newer EXCEPT ![j] = TRUE]

WriteStatus(j, status) == WriteManifest(j, [dir[j].manifest EXCEPT !.status = status])

\* sync_snapshot: an upsert that takes the snapshot's status whatever the
\* row's, merges its cues, and never lowers the row's updated_at.
SyncRow(j, s) ==
  /\ row' = [row EXCEPT ![j] =
       [status     |-> s.manifest.status,
        input      |-> s.manifest.input,
        cues       |-> s.cues \/ (row[j] # None /\ row[j].cues),
        translated |-> row[j] # None /\ row[j].translated]]
  /\ newer' = [newer EXCEPT ![j] = @ /\ s.manifest # dir[j].manifest]

At(r, point) == run[r].pc = point
Goto(r, point) == run' = [run EXCEPT ![r].pc = point]
Leaves(c) == call' = [call EXCEPT ![c] = NoCall]

\* Mutant of Released: the end of a run is signalled to nobody.
ReleasedNobody(j) == call

\* The calls once the control of j is gone: a pause() waiting for its `finished`
\* watch returns, signalled or not.
Released(j) ==
  [c \in Callers |->
     IF call[c].pc = "await_stop" /\ call[c].job = j THEN NoCall ELSE call[c]]

\* Every write to the watch is a change for the runs subscribed to it.
Notify(j, rs) ==
  [r \in Runs |-> IF rs[r].job = j /\ rs[r].pc \notin {"none", "sent"}
                  THEN [rs[r] EXCEPT !.unseen = TRUE] ELSE rs[r]]

-----------------------------------------------------------------------------

Init ==
  /\ dir = [j \in Jobs |-> Absent]
  /\ row = [j \in Jobs |-> None]
  /\ newer = [j \in Jobs |-> FALSE]
  /\ control = [j \in Jobs |-> None]
  /\ automatic = {}
  /\ run = [r \in Runs |-> NoRun]
  /\ poller = [r \in Runs |-> Off]
  /\ call = [c \in Callers |-> NoCall]
  /\ lock = None
  /\ up = TRUE
  /\ submitted = {}
  /\ deleted = {}
  /\ commands = 0

-----------------------------------------------------------------------------
(* run_queued_task: admission *)

\* Looks its control up, subscribes to the pause watch, checks the directory
\* and whether recognition is still pending.
Lookup(r) ==
  LET j == run[r].job IN
  /\ At(r, "sent") /\ lock = None
  /\ \/ /\ control[j] = None
        /\ run' = [run EXCEPT ![r] = NoRun]
        /\ UNCHANGED <<control, automatic>>
     \/ /\ control[j] # None /\ ~ dir[j].exists
        /\ run' = [run EXCEPT ![r] = NoRun]
        /\ control' = [control EXCEPT ![j] = None]
        /\ automatic' = automatic \ {j}
     \/ /\ control[j] # None /\ dir[j].exists
        /\ run' = [run EXCEPT ![r].pc = "waiting",
                              ![r].pending = "published" \notin dir[j].files]
        /\ UNCHANGED <<control, automatic>>
  /\ UNCHANGED <<durable, poller, call, lock, up, bounds>>

\* The top of the admission loop: go to sleep while paused, otherwise ask for
\* the ASR stage unless ASR was published already.  A run whose control is gone
\* ends, at the latest when Start looks for it.
Admit(r) ==
  LET j == run[r].job IN
  /\ At(r, "waiting")
  /\ run' = [run EXCEPT ![r] =
       IF control[j] = None THEN NoRun
       ELSE [@ EXCEPT !.pc = IF control[j].paused THEN "held"
                             ELSE IF run[r].pending THEN "acquiring" ELSE "granted"]]
  /\ UNCHANGED <<durable, memory, poller, call, bounds>>

\* Mutant of Wake: a held run that is woken ends instead of looking again.
WakeAndEnd(r) ==
  /\ At(r, "held")
  /\ run[r].unseen \/ control[run[r].job] = None
  /\ run' = [run EXCEPT ![r] = NoRun]
  /\ UNCHANGED <<durable, memory, poller, call, bounds>>

\* The watch a held run sleeps on changes, or its sender is dropped.
Wake(r) ==
  /\ At(r, "held")
  /\ \/ /\ run[r].unseen
        /\ run' = [run EXCEPT ![r].pc = "waiting", ![r].unseen = FALSE]
     \/ /\ ~ run[r].unseen /\ control[run[r].job] = None
        /\ run' = [run EXCEPT ![r] = NoRun]
  /\ UNCHANGED <<durable, memory, poller, call, bounds>>

\* acquire_asr() yields a permit.
Acquire(r) ==
  /\ At(r, "acquiring")
  /\ Cardinality({x \in Runs : run[x].permit}) < AsrCapacity
  /\ run' = [run EXCEPT ![r].pc = "granted", ![r].permit = TRUE]
  /\ UNCHANGED <<durable, memory, poller, call, bounds>>

\* The pause watch changes while the run waits for the ASR stage.
Withdraw(r) ==
  /\ At(r, "acquiring") /\ run[r].unseen
  /\ run' = [run EXCEPT ![r].pc = "waiting", ![r].unseen = FALSE]
  /\ UNCHANGED <<durable, memory, poller, call, bounds>>

\* Mutant of Start: the control is not marked as started.
StartUnmarked(r) ==
  LET j == run[r].job IN
  /\ At(r, "granted") /\ lock = None
  /\ control[j] # None /\ ~ control[j].paused
  /\ Goto(r, "starting")
  /\ UNCHANGED <<durable, memory, poller, call, bounds>>

\* Under the lock: a pause that came meanwhile sends the run back to waiting,
\* otherwise the task counts as started from here on.
Start(r) ==
  LET j == run[r].job IN
  /\ At(r, "granted") /\ lock = None
  /\ \/ /\ control[j] = None
        /\ run' = [run EXCEPT ![r] = NoRun]
        /\ UNCHANGED control
     \/ /\ control[j] # None /\ control[j].paused
        /\ run' = [run EXCEPT ![r].pc = "waiting", ![r].permit = FALSE]
        /\ UNCHANGED control
     \/ /\ control[j] # None /\ ~ control[j].paused
        /\ control' = [control EXCEPT ![j].started = TRUE]
        /\ Goto(r, "starting")
  /\ UNCHANGED <<durable, automatic, lock, up, poller, call, bounds>>

\* Mutant of Begin: the automatic workspace is not picked up.
BeginPlain(r) ==
  /\ At(r, "starting")
  /\ Goto(r, "entering")
  /\ poller' = [poller EXCEPT ![r].on = TRUE]
  /\ UNCHANGED <<durable, memory, call, bounds>>

\* Picks the automatic workspace up and starts the poller.
Begin(r) ==
  /\ At(r, "starting")
  /\ run' = [run EXCEPT ![r].pc = "entering", ![r].auto = run[r].job \in automatic]
  /\ poller' = [poller EXCEPT ![r].on = TRUE]
  /\ UNCHANGED <<durable, memory, call, bounds>>

-----------------------------------------------------------------------------
(* run_queued_task: work *)

\* Leaving run_with_status_sync aborts and joins the poller.
FinishWork(r, point) ==
  /\ run' = [run EXCEPT ![r].pc = point, ![r].kept = None]
  /\ poller' = [poller EXCEPT ![r] = Off]

\* select! { work, pause.changed() }: any change of the watch ends the work.
StopOnPause(r) ==
  /\ run[r].pc \in Interruptible /\ run[r].unseen
  /\ FinishWork(r, "failing")
  /\ UNCHANGED <<durable, memory, call, bounds>>

\* A database, file or provider error (the `?`s of `work`).
WorkFails(r) ==
  /\ run[r].pc \in {"recognize", "publishing", "marking", "translating"}
  /\ FinishWork(r, "failing")
  /\ UNCHANGED <<durable, memory, call, bounds>>

\* A pause that came in after the task counted as started is noticed here;
\* otherwise the directory is opened and `work` runs.
Enter(r) ==
  LET j == run[r].job
      refused == (control[j] # None /\ control[j].paused) \/ ~ dir[j].exists
  IN
  /\ At(r, "entering")
  /\ IF refused
     THEN FinishWork(r, "failing")
     ELSE /\ Goto(r, IF "published" \in dir[j].files THEN "translate" ELSE "recognize")
          /\ UNCHANGED poller
  /\ UNCHANGED <<durable, memory, call, bounds>>

\* JobRunner::transcribe writes the manifest it holds, whose media path is the
\* one captured when the task was queued ...
WriteStage(r) ==
  /\ WriteManifest(run[r].job, [status |-> "active", input |-> run[r].input])
  /\ Goto(r, "recognizing")
  /\ UNCHANGED <<row, memory, poller, call, bounds>>

\* ... as it begins, and again at every later stage.
Recognize(r) == At(r, "recognize") /\ WriteStage(r)
NextStage(r) == At(r, "recognizing") /\ WriteStage(r)

\* segments.json is written and transcribe marks the task done, with no await
\* between the two; the permit goes back when it returns.
Recognized(r) ==
  LET j == run[r].job IN
  /\ At(r, "recognizing")
  /\ dir' = [dir EXCEPT ![j] = [exists   |-> TRUE,
                                manifest |-> [status |-> "done", input |-> run[r].input],
                                files    |-> @.files \cup {"segments"}]]
  /\ newer' = [newer EXCEPT ![j] = TRUE]
  /\ run' = [run EXCEPT ![r].pc = "recognized", ![r].permit = FALSE]
  /\ UNCHANGED <<row, memory, poller, call, bounds>>

\* transcribe marks the task failed; early translation may still be running.
RecognitionFails(r) ==
  /\ At(r, "recognizing")
  /\ WriteManifest(run[r].job, [status |-> "failed", input |-> run[r].input])
  /\ run' = [run EXCEPT ![r].pc = "unrecognized", ![r].permit = FALSE]
  /\ UNCHANGED <<row, memory, poller, call, bounds>>

\* An automatic task goes on to translating before anything awaits.
MarkTranslating(r) ==
  LET j == run[r].job IN
  /\ At(r, "recognized")
  /\ IF run[r].auto /\ Loadable(j)
     THEN WriteStatus(j, "translating") ELSE UNCHANGED <<dir, newer>>
  /\ IF run[r].auto /\ ~ Loadable(j)
     THEN FinishWork(r, "failing") ELSE Goto(r, "prefix") /\ UNCHANGED poller
  /\ UNCHANGED <<row, memory, call, bounds>>

\* Mutant of JoinPrefix: the marker is written without publishing the cues.
JoinPrefixMarks(r) ==
  /\ At(r, "prefix")
  /\ Goto(r, "marking")
  /\ UNCHANGED <<durable, memory, poller, call, bounds>>

\* tokio::join! waits for the early-translation session, then the error of the
\* recognition, if any, is reported or the published snapshot is loaded.
JoinPrefix(r) ==
  LET j == run[r].job IN
  /\ \/ /\ At(r, "prefix") /\ Loadable(j)
        /\ run' = [run EXCEPT ![r].pc = "publishing", ![r].kept = Snapshot(j)]
        /\ UNCHANGED poller
     \/ /\ At(r, "unrecognized") \/ (At(r, "prefix") /\ ~ Loadable(j))
        /\ FinishWork(r, "failing")
  /\ UNCHANGED <<durable, memory, call, bounds>>

\* The recognised cues enter the workspace ...
PublishCues(r) ==
  /\ At(r, "publishing")
  /\ SyncRow(run[r].job, run[r].kept)
  /\ run' = [run EXCEPT ![r].pc = "marking", ![r].kept = None]
  /\ UNCHANGED <<dir, memory, poller, call, bounds>>

\* ... and only then the marker that makes every later run skip recognition.
MarkPublished(r) ==
  LET j == run[r].job IN
  /\ At(r, "marking")
  /\ dir' = [dir EXCEPT ![j].exists = TRUE, ![j].files = @ \cup {"published"}]
  /\ Goto(r, "translate")
  /\ UNCHANGED <<row, newer, memory, poller, call, bounds>>

\* Without automatic translation the work is over; otherwise the manifest read
\* here is the one written back as done after the translation.
Translate(r) ==
  LET j == run[r].job IN
  /\ At(r, "translate")
  /\ \/ /\ ~ run[r].auto
        /\ FinishWork(r, "ending") /\ UNCHANGED durable
     \/ /\ run[r].auto /\ ~ Loadable(j)
        /\ FinishWork(r, "failing") /\ UNCHANGED durable
     \/ /\ run[r].auto /\ Loadable(j)
        /\ WriteStatus(j, "translating")
        /\ run' = [run EXCEPT ![r].pc = "translating", ![r].kept = dir[j].manifest]
        /\ UNCHANGED <<row, poller>>
  /\ UNCHANGED <<memory, call, bounds>>

\* translate_pending commits the last missing group.
TranslatePending(r) ==
  LET j == run[r].job IN
  /\ At(r, "translating") /\ row[j] # None
  /\ row' = [row EXCEPT ![j].translated = TRUE]
  /\ Goto(r, "translated")
  /\ UNCHANGED <<dir, newer, memory, poller, call, bounds>>

MarkDone(r) ==
  /\ At(r, "translated")
  /\ WriteManifest(run[r].job, [run[r].kept EXCEPT !.status = "done"])
  /\ FinishWork(r, "ending")
  /\ UNCHANGED <<row, memory, call, bounds>>

\* Mutant of PollerLoads: it does not check that there is a task to load.
PollerLoadsBlindly(r) ==
  /\ poller[r].on /\ poller[r].seen = None
  /\ poller' = [poller EXCEPT ![r].seen = Snapshot(run[r].job)]
  /\ UNCHANGED <<durable, memory, run, call, bounds>>

\* The poller loads the manifest; its heartbeat recreates a missing directory.
PollerLoads(r) ==
  LET j == run[r].job IN
  /\ poller[r].on /\ poller[r].seen = None
  /\ \/ /\ Loadable(j)
        /\ poller' = [poller EXCEPT ![r].seen = Snapshot(j)] /\ UNCHANGED dir
     \/ /\ ~ dir[j].exists
        /\ dir' = [dir EXCEPT ![j].exists = TRUE] /\ UNCHANGED poller
  /\ UNCHANGED <<row, newer, memory, run, call, bounds>>

PollerSyncs(r) ==
  /\ poller[r].seen # None
  /\ SyncRow(run[r].job, poller[r].seen)
  /\ poller' = [poller EXCEPT ![r].seen = None]
  /\ UNCHANGED <<dir, memory, run, call, bounds>>

-----------------------------------------------------------------------------
(* run_queued_task: wrap-up *)

\* A failed or paused run writes the failure over whatever the manifest says.
FailManifest(r) ==
  LET j == run[r].job IN
  /\ At(r, "failing")
  /\ IF Loadable(j) THEN WriteStatus(j, "failed") ELSE UNCHANGED <<dir, newer>>
  /\ Goto(r, "ending")
  /\ UNCHANGED <<row, memory, poller, call, bounds>>

LoadFinal(r) ==
  LET j == run[r].job IN
  /\ At(r, "ending")
  /\ IF Loadable(j)
     THEN run' = [run EXCEPT ![r].pc = "reporting", ![r].kept = Snapshot(j)]
     ELSE Goto(r, "leaving")
  /\ UNCHANGED <<durable, memory, poller, call, bounds>>

\* Mutant of SyncFinal: the final state stays in the status file.
SyncFinalSkipped(r) ==
  /\ At(r, "reporting")
  /\ run' = [run EXCEPT ![r].pc = "leaving", ![r].kept = None]
  /\ UNCHANGED <<durable, memory, poller, call, bounds>>

SyncFinal(r) ==
  /\ At(r, "reporting")
  /\ SyncRow(run[r].job, run[r].kept)
  /\ run' = [run EXCEPT ![r].pc = "leaving", ![r].kept = None]
  /\ UNCHANGED <<dir, memory, poller, call, bounds>>

ForgetAutomatic(r) ==
  /\ At(r, "leaving")
  /\ automatic' = automatic \ {run[r].job}
  /\ Goto(r, "closing")
  /\ UNCHANGED <<durable, control, lock, up, poller, call, bounds>>

\* Removes the control, wakes the pause commands waiting for the end of the
\* run, and drops the ASR permit if it is still held.
Close(r) ==
  LET j == run[r].job IN
  /\ At(r, "closing") /\ lock = None
  /\ control' = [control EXCEPT ![j] = None]
  /\ run' = [run EXCEPT ![r] = NoRun]
  /\ call' = Released(j)
  /\ UNCHANGED <<durable, automatic, lock, up, poller, bounds>>

-----------------------------------------------------------------------------
(* Submission *)

\* A caller that is free issues a command.
Issues(c, command) ==
  /\ up /\ call[c] = NoCall
  /\ command \in Commands
  /\ commands < MaxCommands
  /\ commands' = commands + 1

CallAt(c, point) == call[c].pc = point
CallGoto(c, point) == call' = [call EXCEPT ![c].pc = point]
CallEnters(c, point, j, kept) ==
  call' = [call EXCEPT ![c] = [pc |-> point, job |-> j, kept |-> kept]]

\* create_queued_job: the directory and its manifest come first ...
Create(c, j, input) ==
  LET manifest == [status |-> "queued", input |-> input] IN
  /\ j \notin submitted
  /\ submitted' = submitted \cup {j}
  /\ WriteManifest(j, manifest)
  /\ CallEnters(c, "submit_sync", j, [manifest |-> manifest, cues |-> FALSE])
  /\ UNCHANGED <<row, memory, run, poller, deleted>>

SubmitCreate(c, j) == Issues(c, "submit") /\ Create(c, j, "original")

\* retry_persisted_job: a new task with the media and the options of a failed
\* one; its translation preferences are not taken over.
RetryCreate(c, j) ==
  /\ Issues(c, "retry")
  /\ j \notin Automatic
  /\ \E k \in Jobs :
       /\ row[k] # None /\ row[k].status = "failed"
       /\ Loadable(k) /\ "options" \in dir[k].files
       /\ Create(c, j, dir[k].manifest.input)

\* ... then the row ...
SubmitSync(c) ==
  LET j == call[c].job IN
  /\ CallAt(c, "submit_sync")
  /\ SyncRow(j, call[c].kept)
  /\ CallGoto(c, "submit_prepare")
  /\ UNCHANGED <<dir, memory, run, poller, bounds>>

\* ... then the task's preferences, its workspace and its recognition options.
SubmitPrepare(c) ==
  LET j == call[c].job IN
  /\ CallAt(c, "submit_prepare")
  /\ IF j \in Automatic
     THEN /\ dir' = [dir EXCEPT ![j].files = @ \cup {"preferences", "options"}]
          /\ automatic' = automatic \cup {j}
     ELSE /\ dir' = [dir EXCEPT ![j].files = @ \cup {"options"}]
          /\ UNCHANGED automatic
  /\ CallGoto(c, "enqueue")
  /\ UNCHANGED <<row, newer, control, lock, up, run, poller, bounds>>

\* enqueue: workflow-version.json, the control, and then the channel.
Enqueue(c) ==
  LET j == call[c].job IN
  /\ CallAt(c, "enqueue") /\ lock = None
  /\ dir' = [dir EXCEPT ![j].exists = TRUE, ![j].files = @ \cup {"workflow"}]
  /\ control' = [control EXCEPT ![j] = IF @ = None THEN NewControl ELSE @]
  /\ CallGoto(c, "send")
  /\ UNCHANGED <<row, newer, automatic, lock, up, run, poller, bounds>>

\* run_worker spawns a run for the task it receives; its media path is the one
\* of the snapshot a submission made, or of the manifest a resume read.
Send(c) ==
  LET j == call[c].job
      resumed == call[c].kept \in Manifests
      input == IF resumed THEN call[c].kept.input ELSE call[c].kept.manifest.input
  IN
  /\ CallAt(c, "send")
  /\ \E r \in Runs :
       /\ run[r] = NoRun
       /\ run' = [run EXCEPT ![r] = [NoRun EXCEPT !.pc = "sent", !.job = j, !.input = input]]
  /\ IF resumed THEN CallGoto(c, "sent") ELSE Leaves(c)
  /\ UNCHANGED <<durable, memory, poller, bounds>>

\* A resume whose task cannot be loaded after it was sent takes its control
\* back, although the run is already on its way.
ReturnResumed(c) ==
  LET j == call[c].job IN
  /\ CallAt(c, "sent")
  /\ \/ Loadable(j) /\ Leaves(c) /\ UNCHANGED control
     \/ /\ ~ Loadable(j) /\ lock = None
        /\ control' = [control EXCEPT ![j] = None]
        /\ call' = [Released(j) EXCEPT ![c] = NoCall]
  /\ UNCHANGED <<durable, automatic, lock, up, run, poller, bounds>>

-----------------------------------------------------------------------------
(* Pause and resume *)

\* Raises the pause flag.  A started task is waited for; one that has not
\* started is failed on its behalf, with the lock held until the row says so.
Pause(c, j) ==
  /\ Issues(c, "pause")
  /\ lock = None /\ control[j] # None
  /\ control' = [control EXCEPT ![j].paused = TRUE]
  /\ run' = Notify(j, run)
  /\ \/ /\ control[j].started
        /\ CallEnters(c, "await_stop", j, None)
        /\ UNCHANGED <<durable, lock>>
     \/ /\ ~ control[j].started /\ (row[j] = None \/ ~ Loadable(j))
        /\ UNCHANGED <<durable, lock, call>>
     \/ /\ ~ control[j].started /\ row[j] # None /\ Loadable(j)
        /\ WriteStatus(j, "failed")
        /\ lock' = c
        /\ CallEnters(c, "pause_sync", j, None)
        /\ UNCHANGED row
  /\ UNCHANGED <<automatic, up, poller, submitted, deleted>>

\* Mutant of PauseSync: the row is not told that the task is held.
PauseSyncSkipped(c) ==
  /\ CallAt(c, "pause_sync")
  /\ lock' = None
  /\ Leaves(c)
  /\ UNCHANGED <<durable, control, automatic, up, run, poller, bounds>>

PauseSync(c) ==
  LET j == call[c].job IN
  /\ CallAt(c, "pause_sync")
  /\ IF Loadable(j) THEN SyncRow(j, Snapshot(j)) ELSE UNCHANGED <<row, newer>>
  /\ lock' = None
  /\ Leaves(c)
  /\ UNCHANGED <<dir, control, automatic, up, run, poller, bounds>>

\* resume_task: the translation workspace is configured before anything else.
ResumeConfigure(c, j) ==
  /\ Issues(c, "resume")
  /\ row[j] # None
  /\ automatic' = IF "preferences" \in dir[j].files THEN automatic \cup {j} ELSE automatic
  /\ CallEnters(c, "resume_check", j, None)
  /\ UNCHANGED <<durable, control, lock, up, run, poller, submitted, deleted>>

ResumeCheck(c) ==
  LET j == call[c].job IN
  /\ CallAt(c, "resume_check")
  /\ IF row[j] # None /\ row[j].status = "failed"
     THEN CallGoto(c, "resume_lock") ELSE Leaves(c)
  /\ UNCHANGED <<durable, memory, run, poller, bounds>>

\* Under the lock: a task paused before it started is requeued in place, any
\* other live task refuses, and a task without control can be queued again if
\* its directory allows it.  kept is the manifest as it was read here.
ResumeLock(c) ==
  LET j == call[c].job IN
  /\ CallAt(c, "resume_lock") /\ lock = None
  /\ \/ /\ control[j] # None /\ control[j].paused /\ ~ control[j].started
        /\ Loadable(j)
        /\ WriteStatus(j, "queued")
        /\ lock' = c
        /\ CallGoto(c, "unhold")
     \/ /\ control[j] # None
        /\ ~ (control[j].paused /\ ~ control[j].started /\ Loadable(j))
        /\ Leaves(c) /\ UNCHANGED <<dir, newer, lock>>
     \/ /\ control[j] = None
        /\ IF Loadable(j) /\ {"workflow", "options"} \subseteq dir[j].files
           THEN CallEnters(c, "reserve", j, dir[j].manifest) ELSE Leaves(c)
        /\ UNCHANGED <<dir, newer, lock>>
  /\ UNCHANGED <<row, control, automatic, up, run, poller, bounds>>

\* Mutant of Unhold: the flag goes down without waking the run that sleeps on it.
UnholdSilently(c) ==
  LET j == call[c].job IN
  /\ CallAt(c, "unhold") /\ Loadable(j)
  /\ SyncRow(j, Snapshot(j))
  /\ control' = [control EXCEPT ![j].paused = FALSE]
  /\ lock' = None
  /\ Leaves(c)
  /\ UNCHANGED <<dir, automatic, up, run, poller, bounds>>

Unhold(c) ==
  LET j == call[c].job IN
  /\ CallAt(c, "unhold")
  /\ \/ /\ Loadable(j)
        /\ SyncRow(j, Snapshot(j))
        /\ control' = [control EXCEPT ![j].paused = FALSE]
        /\ run' = Notify(j, run)
     \/ ~ Loadable(j) /\ UNCHANGED <<row, newer, control, run>>
  /\ lock' = None
  /\ Leaves(c)
  /\ UNCHANGED <<dir, automatic, up, poller, bounds>>

\* Mutant of Reserve: the control is inserted without looking for one.
ReserveAnyway(c) ==
  /\ CallAt(c, "reserve") /\ lock = None
  /\ control' = [control EXCEPT ![call[c].job] = NewControl]
  /\ CallGoto(c, "requeue")
  /\ UNCHANGED <<durable, automatic, lock, up, run, poller, bounds>>

\* "Reserve this task before enqueueing".
Reserve(c) ==
  LET j == call[c].job IN
  /\ CallAt(c, "reserve") /\ lock = None
  /\ \/ control[j] # None /\ Leaves(c) /\ UNCHANGED control
     \/ /\ control[j] = None
        /\ control' = [control EXCEPT ![j] = NewControl]
        /\ CallGoto(c, "requeue")
  /\ UNCHANGED <<durable, automatic, lock, up, run, poller, bounds>>

Requeue(c) ==
  /\ CallAt(c, "requeue")
  /\ WriteManifest(call[c].job, [call[c].kept EXCEPT !.status = "queued"])
  /\ CallGoto(c, "requeue_sync")
  /\ UNCHANGED <<row, memory, run, poller, bounds>>

RequeueSync(c) ==
  LET j == call[c].job IN
  /\ CallAt(c, "requeue_sync")
  /\ \/ /\ Loadable(j)
        /\ SyncRow(j, Snapshot(j))
        /\ CallGoto(c, "enqueue") /\ UNCHANGED control
     \/ /\ ~ Loadable(j) /\ lock = None
        /\ control' = [control EXCEPT ![j] = None]
        /\ Leaves(c) /\ UNCHANGED <<row, newer>>
  /\ UNCHANGED <<dir, automatic, lock, up, run, poller, bounds>>

-----------------------------------------------------------------------------
(* Opening, relinking, deleting *)

\* refresh_persisted_job, and each round of list_persisted_jobs: a manifest
\* newer than the row is loaded, and written to the row later.
RefreshLoad(c, j) ==
  /\ Issues(c, "refresh")
  /\ row[j] # None /\ newer[j] /\ Loadable(j)
  /\ CallEnters(c, "refresh_sync", j, Snapshot(j))
  /\ UNCHANGED <<durable, memory, run, poller, submitted, deleted>>

RefreshSync(c) ==
  /\ CallAt(c, "refresh_sync")
  /\ SyncRow(call[c].job, call[c].kept)
  /\ Leaves(c)
  /\ UNCHANGED <<dir, memory, run, poller, bounds>>

\* relink_persisted_job_input: the manifest first, then the row.
RelinkManifest(c, j) ==
  /\ Issues(c, "relink")
  /\ row[j] # None /\ Loadable(j)
  /\ WriteManifest(j, [dir[j].manifest EXCEPT !.input = "relinked"])
  /\ CallEnters(c, "relink_row", j, None)
  /\ UNCHANGED <<row, memory, run, poller, submitted, deleted>>

RelinkRow(c) ==
  LET j == call[c].job IN
  /\ CallAt(c, "relink_row")
  /\ row' = IF row[j] = None THEN row ELSE [row EXCEPT ![j].input = "relinked"]
  /\ Leaves(c)
  /\ UNCHANGED <<dir, newer, memory, run, poller, bounds>>

\* delete_persisted_job: only a settled row may go ...
DeleteCheck(c, j) ==
  /\ Issues(c, "delete")
  /\ row[j] # None /\ row[j].status \in Terminal
  /\ CallEnters(c, "delete_move", j, None)
  /\ UNCHANGED <<durable, memory, run, poller, submitted, deleted>>

\* ... its directory is moved to a tombstone ...
DeleteMove(c) ==
  LET j == call[c].job IN
  /\ CallAt(c, "delete_move")
  /\ dir' = [dir EXCEPT ![j] = Absent]
  /\ CallEnters(c, "delete_row", j, dir[j])
  /\ deleted' = deleted \cup {j}
  /\ UNCHANGED <<row, newer, memory, run, poller, submitted, commands>>

\* ... and removed for good once the row is; if there is no row to delete the
\* directory comes back.
DeleteRow(c) ==
  LET j == call[c].job IN
  /\ CallAt(c, "delete_row")
  /\ \/ /\ row[j] # None
        /\ row' = [row EXCEPT ![j] = None]
        /\ newer' = [newer EXCEPT ![j] = FALSE]
        /\ UNCHANGED dir
     \/ /\ row[j] = None
        /\ dir' = IF call[c].kept.exists /\ ~ dir[j].exists
                  THEN [dir EXCEPT ![j] = call[c].kept] ELSE dir
        /\ UNCHANGED <<row, newer>>
  /\ Leaves(c)
  /\ UNCHANGED <<memory, run, poller, bounds>>

-----------------------------------------------------------------------------
(* The process dies; the next start recovers the tasks it left behind *)

Crash ==
  /\ "crash" \in Commands /\ commands < MaxCommands
  /\ commands' = commands + 1
  /\ up' = FALSE
  /\ control' = [j \in Jobs |-> None]
  /\ automatic' = {}
  /\ run' = [r \in Runs |-> NoRun]
  /\ poller' = [r \in Runs |-> Off]
  /\ call' = [c \in Callers |-> NoCall]
  /\ lock' = None
  /\ UNCHANGED <<durable, submitted, deleted>>

Unsettled(j) == row[j] # None /\ row[j].status \notin Terminal

\* recover_interrupted_jobs, which main() awaits before any command can come.
Recover(j) ==
  /\ ~ up /\ Unsettled(j)
  /\ \/ /\ ~ Loadable(j)
        /\ row' = [row EXCEPT ![j].status = "failed"]
        /\ newer' = [newer EXCEPT ![j] = FALSE]
        /\ UNCHANGED dir
     \/ /\ Loadable(j) /\ dir[j].manifest.status \in Terminal
        /\ SyncRow(j, Snapshot(j)) /\ UNCHANGED dir
     \/ /\ Loadable(j) /\ dir[j].manifest.status \notin Terminal
        /\ dir' = [dir EXCEPT ![j].manifest.status = "failed"]
        /\ row' = [row EXCEPT ![j].status = "failed",
                              ![j].input  = dir[j].manifest.input,
                              ![j].cues   = @ \/ Snapshot(j).cues]
        /\ newer' = [newer EXCEPT ![j] = FALSE]
  /\ UNCHANGED <<memory, run, poller, call, bounds>>

\* Mutant of Ready: commands are taken before the recovery is through.
ReadyEarly ==
  /\ ~ up
  /\ up' = TRUE
  /\ UNCHANGED <<durable, control, automatic, lock, run, poller, call, bounds>>

Ready ==
  /\ ~ up /\ \A j \in Jobs : ~ Unsettled(j)
  /\ up' = TRUE
  /\ UNCHANGED <<durable, control, automatic, lock, run, poller, call, bounds>>

-----------------------------------------------------------------------------

Execute(r) ==
  \/ Lookup(r) \/ Admit(r) \/ Wake(r) \/ Start(r) \/ Begin(r) \/ Enter(r)
  \/ Recognize(r) \/ Recognized(r) \/ MarkTranslating(r) \/ JoinPrefix(r)
  \/ PublishCues(r) \/ MarkPublished(r) \/ Translate(r) \/ TranslatePending(r)
  \/ MarkDone(r) \/ FailManifest(r) \/ LoadFinal(r) \/ SyncFinal(r)
  \/ ForgetAutomatic(r) \/ Close(r)

Poll(r) == PollerLoads(r) \/ PollerSyncs(r)

Serve(c) ==
  \/ SubmitSync(c) \/ SubmitPrepare(c) \/ Enqueue(c) \/ Send(c) \/ ReturnResumed(c)
  \/ PauseSync(c) \/ ResumeCheck(c) \/ ResumeLock(c) \/ Unhold(c) \/ Reserve(c)
  \/ Requeue(c) \/ RequeueSync(c) \/ RefreshSync(c) \/ RelinkRow(c)
  \/ DeleteMove(c) \/ DeleteRow(c)

Issue(c, j) ==
  \/ SubmitCreate(c, j) \/ RetryCreate(c, j) \/ Pause(c, j) \/ ResumeConfigure(c, j)
  \/ RefreshLoad(c, j) \/ RelinkManifest(c, j) \/ DeleteCheck(c, j)

Next ==
  \/ \E r \in Runs : Execute(r) \/ Acquire(r) \/ Withdraw(r) \/ StopOnPause(r)
                       \/ NextStage(r) \/ RecognitionFails(r) \/ WorkFails(r) \/ Poll(r)
  \/ \E c \in Callers : Serve(c) \/ \E j \in Jobs : Issue(c, j)
  \/ Crash \/ Ready \/ \E j \in Jobs : Recover(j)

Spec == Init /\ [][Next]_vars

\* What the code's scheduling guarantees: tokio polls every task that is ready,
\* every external process and provider call ends, and the ASR stage serves every
\* waiter (EventuallyServed of StageScheduler), hence SF for Acquire.  Users are
\* free to issue nothing, and nothing forces a crash.
Fairness ==
  /\ \A r \in Runs :
       /\ WF_vars(Execute(r)) /\ SF_vars(Acquire(r))
       /\ WF_vars(Withdraw(r)) /\ WF_vars(StopOnPause(r)) /\ WF_vars(Poll(r))
  /\ \A c \in Callers : WF_vars(Serve(c))
  /\ WF_vars(Ready) /\ \A j \in Jobs : WF_vars(Recover(j))

FairSpec == Spec /\ Fairness

-----------------------------------------------------------------------------

TypeOK ==
  /\ dir \in [Jobs -> Directories]
  /\ row \in [Jobs -> Rows \cup {None}]
  /\ newer \in [Jobs -> BOOLEAN]
  /\ control \in [Jobs -> Controls \cup {None}]
  /\ automatic \in SUBSET Jobs
  /\ run \in [Runs -> RunStates]
  /\ poller \in [Runs -> PollerStates]
  /\ call \in [Callers -> CallStates]
  /\ lock \in Callers \cup {None}
  /\ up \in BOOLEAN
  /\ submitted \in SUBSET Jobs /\ deleted \in SUBSET Jobs
  /\ commands \in 0..MaxCommands

\* "Reserve this task before enqueueing: simultaneous clicks cannot dispatch
\* twice": a task never has two runs, whatever submits, resumes, pauses and
\* crashes overlap.  (Two resumes and a deletion can break it.)
OneRunPerJob ==
  \A r, s \in Runs :
    run[r].job = run[s].job /\ run[r].job # None /\ run[r].job \notin deleted => r = s

\* A run that executes can be paused: its control is registered and marked as
\* started, so that pause() waits for it instead of failing the task itself.
\* (A deletion in the middle of a resume may take the control away.)
ExecutingIsControlled ==
  \A r \in Runs : run[r].pc \in Executing /\ run[r].job \notin deleted =>
    control[run[r].job] # None /\ control[run[r].job].started

\* The marker that makes a later run skip recognition is only ever there when
\* the recognised cues are in the workspace: no crash, failure or pause, and no
\* status written late, makes a resumed task skip cues nobody can see.
MarkedIsPublished ==
  \A j \in Jobs \ deleted :
    "published" \in dir[j].files => row[j] # None /\ row[j].cues

Busy(j) == \E c \in Callers : call[c].job = j
HasRun(j) == \E r \in Runs : run[r].job = j

\* A task held before it started (its run sleeps until the resume) is listed as
\* stopped, the only state in which resume() accepts it.
HeldIsResumable ==
  \A j \in Jobs : control[j] # None /\ control[j].paused /\ ~ control[j].started
                  /\ ~ Busy(j) /\ row[j] # None => row[j].status = "failed"

\* A task listed as queued or in progress has somebody working for it.
ListedIsServed ==
  \A j \in Jobs : up /\ row[j] # None /\ row[j].status \notin Terminal
                  => HasRun(j) \/ Busy(j)

\* Once nobody works for a task any more its row shows its manifest's status.
SettledAgrees ==
  \A j \in Jobs : up /\ ~ Busy(j) /\ ~ HasRun(j) /\ row[j] # None /\ Loadable(j)
                  => row[j].status = dir[j].manifest.status

\* An automatic task that settles as done has been translated.
DoneIsTranslated ==
  \A j \in Automatic : ~ HasRun(j) /\ row[j] # None /\ row[j].status = "done"
                       => row[j].translated

\* "wait for it to finish": no task directory is taken away from a run.
DeletesOnlyFinished ==
  [][\A j \in Jobs : dir[j].exists /\ ~ dir'[j].exists
                     => \A r \in Runs : run[r].job = j => run[r].pc \notin Executing]_vars

\* Relinking updates the status file and the index: the status file of a task
\* keeps the media its user has located.
RelinkSticks ==
  [][\A j \in Jobs : Loadable(j) /\ dir[j].manifest.input = "relinked"
                     => dir'[j].manifest = None \/ dir'[j].manifest.input = "relinked"]_vars

\* The queue keeps its promise: the mapping forgets deleted tasks, and a task is
\* accepted while its control is registered and no run has it.
Promise == INSTANCE TaskPromise WITH
  accepted  <- {j \in Jobs \ deleted : control[j] # None /\ ~ HasRun(j)},
  runner    <- [r \in Runs |-> IF run[r].job \in deleted THEN None ELSE run[r].job],
  executing <- {r \in Runs : run[r].pc \in Executing /\ run[r].job \notin deleted},
  withdrawn <- deleted

\* Every submission and every resume that is accepted is executed by one run,
\* never by two and never by none, until the application ends or the task is
\* deleted.
KeepsPromise == Promise!Spec

\* pause() of a started task returns: its run always comes to an end.
PauseReturns ==
  \A c \in Callers : CallAt(c, "await_stop") ~> ~ CallAt(c, "await_stop")

\* A listed task settles: it is translated, stopped, held or failed, whatever
\* waits, pauses, resumes and crashes happen on the way.
ListedSettles ==
  \A j \in Jobs : row[j] # None ~> (row[j] = None \/ row[j].status \in Terminal)
=============================================================================
