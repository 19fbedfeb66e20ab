------------------------- MODULE TaskLifecycleProofs -------------------------
(***************************************************************************)
(* Theorems about TaskLifecycle, for any number of tasks, callers, runs,   *)
(* permits and commands: type correctness, one run per task, a control for *)
(* every run that executes, and the implementation of TaskPromise.         *)
(***************************************************************************)
EXTENDS TaskLifecycle, TLAPS

USE DEF durable, memory, bounds, At, Goto, CallAt, CallGoto, CallEnters, Leaves

\* The points between Begin and the end of the work, where the poller is on.
Working == Interruptible \cup {"recognize", "recognized", "translate", "unrecognized", "translated"}

\* A run that is on has a task and a media path, and keeps a manifest or a
\* snapshot where it is going to write one.
Shaped(state, polling) ==
  /\ state.pc = "none" => state.job = None
  /\ state.pc # "none" => state.job \in Jobs /\ state.input # None
  /\ state.pc \in {"translating", "translated"} => state.kept \in Manifests
  /\ state.pc \in {"publishing", "reporting"} => state.kept \in Snapshots
  /\ polling.on => state.pc \in Working
  /\ polling.seen # None => polling.on

RunShape == \A r \in Runs : Shaped(run[r], poller[r])

\* Likewise a call.
Fits(state) ==
  /\ state.pc = "none" => state.job = None
  /\ state.pc # "none" => state.job \in Jobs
  /\ state.pc \in {"reserve", "requeue", "requeue_sync", "sent"} => state.kept \in Manifests
  /\ state.pc \in {"submit_sync", "submit_prepare", "refresh_sync"} => state.kept \in Snapshots
  /\ state.pc \in {"enqueue", "send"} => state.kept \in Manifests \cup Snapshots
  /\ state.pc = "delete_row" => state.kept \in Directories

\* A call that is between two steps under the lock holds the lock, and the
\* control it works on stays where it is.
CallShape ==
  \A c \in Callers :
    /\ Fits(call[c])
    /\ call[c].pc = "delete_row" => call[c].job \in deleted
    /\ call[c].pc \in {"pause_sync", "unhold"} => lock = c /\ control[call[c].job] # None

\* A call that submits a task and has not registered its control yet, and a call
\* that has registered a control and has not sent the task yet.
Submits(state) ==
  \/ state.pc \in {"submit_sync", "submit_prepare"}
  \/ state.pc = "enqueue" /\ state.kept \in Snapshots
Dispatches(state) ==
  \/ state.pc \in {"requeue", "requeue_sync", "send"}
  \/ state.pc = "enqueue" /\ state.kept \in Manifests

Submitting(c) == Submits(call[c])
Dispatching(c) == Dispatches(call[c])

USE DEF Fits, Submits, Dispatches

\* Nothing is left of the time before the crash.
DownIsIdle ==
  ~ up => /\ \A c \in Callers : call[c].pc = "none"
          /\ \A r \in Runs : run[r].pc = "none"

\* A task nobody has submitted has left no trace.
Untouched ==
  \A j \in Jobs \ submitted :
    /\ dir[j] = Absent /\ row[j] = None /\ control[j] = None
    /\ \A c \in Callers : call[c].job # j
    /\ \A r \in Runs : run[r].job # j
    /\ j \notin deleted

\* Only a deletion takes a manifest away.
Kept ==
  \A j \in submitted \ deleted : dir[j].exists /\ dir[j].manifest # None

\* The control of a task is what excludes a second dispatch: it is registered
\* before the task is dispatched and stays until its run ends.
Controlled ==
  \A j \in Jobs \ deleted :
    /\ \A c \in Callers : call[c].job = j /\ Dispatching(c) => control[j] # None
    /\ \A r \in Runs : run[r].job = j => control[j] # None
    /\ \A r \in Runs : run[r].job = j /\ run[r].pc \in Executing => control[j].started

\* One dispatch at a time, and none while the task has a run.
OneDispatch ==
  \A j \in Jobs \ deleted :
    /\ \A c, d \in Callers :
         call[c].job = j /\ Dispatching(c) /\ call[d].job = j /\ Dispatching(d) => c = d
    /\ \A c \in Callers, r \in Runs : call[c].job = j /\ Dispatching(c) => run[r].job # j
    /\ \A r, s \in Runs : run[r].job = j /\ run[s].job = j => r = s

\* A task that is being submitted is queued wherever one looks, so that no
\* resume gets past its check before the control is registered.
TaskQuiet(j) ==
  /\ row[j] # None => row[j].status = "queued"
  /\ dir[j].manifest # None => dir[j].manifest.status = "queued"
LooksOn(state) ==
  /\ state.pc \in {"resume_check", "refresh_sync", "relink_row"}
  /\ state.pc = "refresh_sync" => state.kept.manifest.status = "queued"
Quiet(c) ==
  LET j == call[c].job IN
  /\ j \notin deleted /\ control[j] = None
  /\ TaskQuiet(j) /\ call[c].kept.manifest.status = "queued"
  /\ \A d \in Callers \ {c} : call[d].job = j => LooksOn(call[d])

USE DEF TaskQuiet, LooksOn

SubmissionIsQuiet == \A c \in Callers : Submitting(c) => Quiet(c)

IInv ==
  /\ TypeOK /\ RunShape /\ CallShape /\ DownIsIdle
  /\ Untouched /\ Kept /\ Controlled /\ OneDispatch /\ SubmissionIsQuiet

-----------------------------------------------------------------------------
(* What the helpers of the specification do, and the types they keep *)

\* write_manifest leaves the task with that manifest and the files it had.
LEMMA WriteManifestKeeps ==
  ASSUME TypeOK, NEW j \in Jobs, NEW m \in Manifests, WriteManifest(j, m)
  PROVE  /\ dir' \in [Jobs -> Directories] /\ newer' \in [Jobs -> BOOLEAN]
         /\ dir'[j].exists /\ dir'[j].manifest = m /\ dir'[j].files = dir[j].files
         /\ \A k \in Jobs \ {j} : dir'[k] = dir[k]
BY DEF TypeOK, WriteManifest, Directories

\* mark and fail change the status of a manifest and nothing else.
LEMMA WriteStatusKeeps ==
  ASSUME TypeOK, NEW j \in Jobs, NEW s \in Statuses, Loadable(j), WriteStatus(j, s)
  PROVE  /\ dir' \in [Jobs -> Directories] /\ newer' \in [Jobs -> BOOLEAN]
         /\ dir'[j].exists /\ dir'[j].manifest # None /\ dir'[j].manifest.status = s
         /\ dir'[j].files = dir[j].files
         /\ \A k \in Jobs \ {j} : dir'[k] = dir[k]
<1> DEFINE m == [dir[j].manifest EXCEPT !.status = s]
<1>1. m \in Manifests /\ m.status = s
  BY DEF TypeOK, Loadable, Directories, Manifests
<1>2. m # None
  BY <1>1, NoneAssumption
<1>3. WriteManifest(j, m)
  BY DEF WriteStatus
<1> QED BY <1>1, <1>2, <1>3, WriteManifestKeeps

\* sync_snapshot leaves a row with the status of the snapshot.
LEMMA SyncRowKeeps ==
  ASSUME TypeOK, NEW j \in Jobs, NEW s \in Snapshots, SyncRow(j, s)
  PROVE  /\ row' \in [Jobs -> Rows \cup {None}] /\ newer' \in [Jobs -> BOOLEAN]
         /\ row'[j] # None /\ row'[j].status = s.manifest.status
         /\ \A k \in Jobs \ {j} : row'[k] = row[k]
<1> DEFINE new == [status     |-> s.manifest.status,
                   input      |-> s.manifest.input,
                   cues       |-> s.cues \/ (row[j] # None /\ row[j].cues),
                   translated |-> row[j] # None /\ row[j].translated]
<1>1. s.manifest \in Manifests /\ s.cues \in BOOLEAN
  BY DEF Snapshots
<1>2. row[j] \in Rows \cup {None}
  BY DEF TypeOK
<1>3. new \in Rows
  BY <1>1, <1>2 DEF Rows, Manifests
<1>4. new # None
  BY <1>3, NoneAssumption
<1>5. row' = [row EXCEPT ![j] = new]
  BY DEF SyncRow
<1>6. newer' \in [Jobs -> BOOLEAN]
  BY DEF SyncRow, TypeOK
<1> HIDE DEF new
<1>7. row' \in [Jobs -> Rows \cup {None}] /\ row'[j] = new /\ \A k \in Jobs \ {j} : row'[k] = row[k]
  BY <1>3, <1>5 DEF TypeOK
<1> QED BY <1>4, <1>6, <1>7 DEF new

\* A manifest is no snapshot: what a dispatch was started with tells a resume
\* from a submission.
LEMMA ManifestsAreNoSnapshots == \A m \in Manifests : m \notin Snapshots
BY DEF Manifests, Snapshots

\* A task that can be loaded yields a snapshot.
LEMMA SnapshotType ==
  ASSUME TypeOK, NEW j \in Jobs, Loadable(j)
  PROVE  Snapshot(j) \in Snapshots
BY DEF TypeOK, Loadable, Snapshot, Snapshots, Directories

\* A run moves to another point and changes nothing else of its state.
LEMMA GotoKeeps ==
  ASSUME TypeOK, NEW r \in Runs, NEW p \in RunPoints, Goto(r, p)
  PROVE  /\ run' \in [Runs -> RunStates]
         /\ run'[r] = [run[r] EXCEPT !.pc = p]
         /\ \A s \in Runs \ {r} : run'[s] = run[s]
BY DEF TypeOK, RunStates

\* The end of the work: the poller is joined, what the run kept is dropped.
LEMMA FinishWorkKeeps ==
  ASSUME TypeOK, NEW r \in Runs, NEW p \in RunPoints, FinishWork(r, p)
  PROVE  /\ run' \in [Runs -> RunStates] /\ poller' \in [Runs -> PollerStates]
         /\ run'[r] = [run[r] EXCEPT !.pc = p, !.kept = None]
         /\ ~ poller'[r].on /\ poller'[r].seen = None
         /\ \A s \in Runs \ {r} : run'[s] = run[s] /\ poller'[s] = poller[s]
<1>1. run' = [run EXCEPT ![r].pc = p, ![r].kept = None] /\ poller' = [poller EXCEPT ![r] = Off]
  BY DEF FinishWork
<1>2. Off \in PollerStates /\ ~ Off.on /\ Off.seen = None
  BY DEF Off, PollerStates
<1>3. /\ run' \in [Runs -> RunStates]
      /\ run'[r] = [run[r] EXCEPT !.pc = p, !.kept = None]
      /\ \A s \in Runs \ {r} : run'[s] = run[s]
  <2>1. run \in [Runs -> RunStates]
    BY DEF TypeOK
  <2>2. [run[r] EXCEPT !.pc = p, !.kept = None] \in RunStates
    BY <2>1 DEF RunStates
  <2>3. run' = [run EXCEPT ![r] = [run[r] EXCEPT !.pc = p, !.kept = None]]
    BY <1>1, <2>1
  <2> QED BY <2>1, <2>2, <2>3
<1>4. /\ poller' \in [Runs -> PollerStates] /\ poller'[r] = Off
      /\ \A s \in Runs \ {r} : poller'[s] = poller[s]
  BY <1>1, <1>2 DEF TypeOK
<1> QED BY <1>2, <1>3, <1>4

-----------------------------------------------------------------------------
(* The steps of a run *)

\* Most steps of a run move it on, or end it before it executes, and write
\* nothing but the directory and the row of its own task.
RunFrame(r) ==
  LET j == run[r].job IN
  /\ UNCHANGED <<control, call, lock, up, submitted, deleted>>
  /\ run[r].pc # "none"
  /\ \A s \in Runs \ {r} : run'[s] = run[s]
  /\ \/ run'[r].pc = "none" /\ run'[r].job = None
     \/ /\ run'[r].pc # "none" /\ run'[r].job = j
        /\ run'[r].pc \in Executing => run[r].pc \in Executing
  /\ \A k \in Jobs \ {j} : dir'[k] = dir[k] /\ row'[k] = row[k]
  /\ dir[j].exists /\ dir[j].manifest # None => dir'[j].exists /\ dir'[j].manifest # None

\* Such a step keeps every part of the invariant that is not about its own shape.
LEMMA RunFrameKeeps ==
  ASSUME IInv, NEW r \in Runs, RunFrame(r), TypeOK', RunShape'
  PROVE  IInv'
<1> DEFINE j == run[r].job
<1> USE DEF IInv
<1>1. /\ UNCHANGED <<control, call, lock, up, submitted, deleted>>
      /\ run[r].pc # "none" /\ j \in Jobs
      /\ \A s \in Runs : run'[s].job \in {run[s].job, None}
      /\ \A s \in Runs : run'[s].pc \in Executing => run[s].pc \in Executing \/ run'[s].job = None
      /\ \A s \in Runs : run[s].pc = "none" => run'[s].pc = "none"
      /\ \A k \in Jobs \ {j} : dir'[k] = dir[k] /\ row'[k] = row[k]
      /\ dir[j].exists /\ dir[j].manifest # None => dir'[j].exists /\ dir'[j].manifest # None
  BY DEF RunFrame, RunShape, Shaped
<1>2. CallShape'
  BY <1>1 DEF CallShape
<1>3. DownIsIdle'
  BY <1>1 DEF DownIsIdle
<1>4. Untouched'
  BY <1>1, NoneAssumption DEF Untouched
<1>5. Kept'
  BY <1>1, NoneAssumption DEF Kept, TypeOK
<1>6. Controlled'
  BY <1>1, NoneAssumption DEF Controlled, Dispatching
<1>7. OneDispatch'
  BY <1>1, NoneAssumption DEF OneDispatch, Dispatching
<1>8. SubmissionIsQuiet'
  <2> SUFFICES ASSUME NEW c \in Callers, Submitting(c)
               PROVE  Quiet(c)'
    BY <1>1 DEF SubmissionIsQuiet, Submitting
  <2>1. Quiet(c) /\ call[c].job \in Jobs
    BY DEF SubmissionIsQuiet, Submitting, CallShape
  <2>2. call[c].job # j
    BY <1>1, <2>1 DEF Quiet, Controlled
  <2> QED BY <1>1, <2>1, <2>2 DEF Quiet
<1> QED BY <1>2, <1>3, <1>4, <1>5, <1>6, <1>7, <1>8

\* What is known of a run that is on.
LEMMA RunAt ==
  ASSUME IInv, NEW r \in Runs, run[r].pc # "none"
  PROVE  /\ TypeOK /\ run[r].job \in Jobs
         /\ run[r] \in RunStates /\ poller[r] \in PollerStates
         /\ Shaped(run[r], poller[r])
         /\ run[r].input \in {"original", "relinked"}
BY DEF IInv, TypeOK, RunShape, Shaped, RunStates

\* A run goes to another point and takes or gives back its permit ...
LEMMA RunPermit ==
  ASSUME IInv, NEW r \in Runs, run[r].pc # "none", NEW p \in RunPoints, NEW b \in BOOLEAN,
         run' = [run EXCEPT ![r].pc = p, ![r].permit = b]
  PROVE  /\ [run[r] EXCEPT !.pc = p, !.permit = b] \in RunStates
         /\ run' = [run EXCEPT ![r] = [run[r] EXCEPT !.pc = p, !.permit = b]]
<1>1. run[r] \in RunStates /\ run \in [Runs -> RunStates]
  BY RunAt DEF TypeOK
<1>2. [run[r] EXCEPT !.pc = p, !.permit = b] \in RunStates
  BY <1>1 DEF RunStates
<1>3. run' = [run EXCEPT ![r] = [run[r] EXCEPT !.pc = p, !.permit = b]]
  BY <1>1
<1> QED BY <1>2, <1>3

\* ... or notes a flag about its task ...
LEMMA RunAuto ==
  ASSUME IInv, NEW r \in Runs, run[r].pc # "none", NEW p \in RunPoints, NEW b \in BOOLEAN,
         run' = [run EXCEPT ![r].pc = p, ![r].auto = b]
  PROVE  /\ [run[r] EXCEPT !.pc = p, !.auto = b] \in RunStates
         /\ run' = [run EXCEPT ![r] = [run[r] EXCEPT !.pc = p, !.auto = b]]
<1>1. run[r] \in RunStates /\ run \in [Runs -> RunStates]
  BY RunAt DEF TypeOK
<1>2. [run[r] EXCEPT !.pc = p, !.auto = b] \in RunStates
  BY <1>1 DEF RunStates
<1>3. run' = [run EXCEPT ![r] = [run[r] EXCEPT !.pc = p, !.auto = b]]
  BY <1>1
<1> QED BY <1>2, <1>3

\* ... or reads or drops a manifest or a snapshot.
LEMMA RunKept ==
  ASSUME IInv, NEW r \in Runs, run[r].pc # "none", NEW p \in RunPoints,
         NEW k \in Manifests \cup Snapshots \cup {None},
         run' = [run EXCEPT ![r].pc = p, ![r].kept = k]
  PROVE  /\ [run[r] EXCEPT !.pc = p, !.kept = k] \in RunStates
         /\ run' = [run EXCEPT ![r] = [run[r] EXCEPT !.pc = p, !.kept = k]]
<1>1. run[r] \in RunStates /\ run \in [Runs -> RunStates]
  BY RunAt DEF TypeOK
<1>2. [run[r] EXCEPT !.pc = p, !.kept = k] \in RunStates
  BY <1>1 DEF RunStates
<1>3. run' = [run EXCEPT ![r] = [run[r] EXCEPT !.pc = p, !.kept = k]]
  BY <1>1
<1> QED BY <1>2, <1>3

\* A run takes a new state, its poller another.
Moves(r, state, polling) ==
  /\ run[r].pc # "none"
  /\ run' = [run EXCEPT ![r] = state] /\ poller' = [poller EXCEPT ![r] = polling]
  /\ state \in RunStates /\ polling \in PollerStates /\ Shaped(state, polling)
  /\ \/ state.pc = "none"
     \/ /\ state.pc # "none" /\ state.job = run[r].job
        /\ state.pc \in Executing => run[r].pc \in Executing

\* Only the directory and the row of j are written, and no manifest is lost.
TaskWrites(j) ==
  /\ dir' \in [Jobs -> Directories] /\ row' \in [Jobs -> Rows \cup {None}]
  /\ newer' \in [Jobs -> BOOLEAN]
  /\ \A k \in Jobs \ {j} : dir'[k] = dir[k] /\ row'[k] = row[k]
  /\ dir[j].exists /\ dir[j].manifest # None => dir'[j].exists /\ dir'[j].manifest # None
OwnWrites(r) == TaskWrites(run[r].job)

\* What a step of a run has to show.
LEMMA MoveKeeps ==
  ASSUME IInv, NEW r \in Runs, NEW state, NEW polling,
         Moves(r, state, polling), OwnWrites(r),
         UNCHANGED <<control, lock, up, call, bounds>>, automatic' \in SUBSET Jobs
  PROVE  IInv'
<1>1. /\ run' \in [Runs -> RunStates] /\ run'[r] = state
      /\ \A s \in Runs \ {r} : run'[s] = run[s]
      /\ poller' \in [Runs -> PollerStates] /\ poller'[r] = polling
      /\ \A s \in Runs \ {r} : poller'[s] = poller[s]
      /\ Shaped(state, polling)
  BY DEF IInv, TypeOK, Moves
<1>2. RunFrame(r)
  BY <1>1 DEF Moves, OwnWrites, TaskWrites, RunFrame, Shaped
<1>3. TypeOK'
  BY <1>1 DEF IInv, TypeOK, OwnWrites, TaskWrites
<1>4. RunShape'
  BY <1>1 DEF IInv, RunShape
<1> QED BY <1>2, <1>3, <1>4, RunFrameKeeps

\* A step that leaves files and rows alone takes no manifest away.
LEMMA NoWrites ==
  ASSUME IInv, NEW r \in Runs, UNCHANGED durable
  PROVE  OwnWrites(r)
BY DEF IInv, TypeOK, OwnWrites, TaskWrites

\* A run that writes its manifest writes to its own task only.
LEMMA ManifestWrites ==
  ASSUME IInv, NEW r \in Runs, run[r].pc # "none", NEW m \in Manifests,
         WriteManifest(run[r].job, m), UNCHANGED row
  PROVE  OwnWrites(r)
<1>1. m # None
  BY NoneAssumption
<1> QED BY <1>1, RunAt, WriteManifestKeeps DEF OwnWrites, TaskWrites, TypeOK

\* A run that marks a status writes to its own task only.
LEMMA StatusWrites ==
  ASSUME IInv, NEW r \in Runs, run[r].pc # "none", NEW s \in Statuses,
         Loadable(run[r].job), WriteStatus(run[r].job, s), UNCHANGED row
  PROVE  OwnWrites(r)
BY RunAt, WriteStatusKeeps DEF OwnWrites, TaskWrites, TypeOK

\* A run that publishes a snapshot writes to its own row only.
LEMMA RowWrites ==
  ASSUME IInv, NEW r \in Runs, run[r].pc # "none", NEW s \in Snapshots,
         SyncRow(run[r].job, s), UNCHANGED dir
  PROVE  OwnWrites(r)
BY RunAt, SyncRowKeeps DEF OwnWrites, TaskWrites, TypeOK

\* A run goes on to another point ...
LEMMA GotoMoves ==
  ASSUME IInv, NEW r \in Runs, run[r].pc # "none", NEW p \in RunPoints,
         Goto(r, p), UNCHANGED poller,
         p \notin {"none", "translating", "publishing", "reporting"},
         p \in Executing => run[r].pc \in Executing,
         p = "translated" => run[r].pc = "translating",
         poller[r].on => p \in Working
  PROVE  Moves(r, [run[r] EXCEPT !.pc = p], poller[r])
<1> DEFINE state == [run[r] EXCEPT !.pc = p]
<1>1. state \in RunStates /\ state.pc = p /\ state.job = run[r].job /\ state.input = run[r].input
      /\ state.kept = run[r].kept
  BY RunAt DEF RunStates
<1>2. run' = [run EXCEPT ![r] = state] /\ poller' = [poller EXCEPT ![r] = poller[r]]
  BY RunAt DEF TypeOK, RunStates
<1>3. Shaped(state, poller[r])
  BY <1>1, RunAt DEF Shaped
<1> QED BY <1>1, <1>2, <1>3, RunAt DEF Moves

\* ... or leaves its work.
LEMMA FinishMoves ==
  ASSUME IInv, NEW r \in Runs, run[r].pc \in Executing, NEW p \in {"failing", "ending"},
         FinishWork(r, p)
  PROVE  Moves(r, [run[r] EXCEPT !.pc = p, !.kept = None], Off)
<1> DEFINE state == [run[r] EXCEPT !.pc = p, !.kept = None]
<1>1. run[r].pc # "none" /\ p \in RunPoints
  BY DEF Executing, Interruptible, RunPoints
<1>2. state \in RunStates /\ state.pc = p /\ state.job = run[r].job /\ state.input = run[r].input
  BY <1>1, RunAt DEF RunStates
<1>3. run' = [run EXCEPT ![r] = state] /\ poller' = [poller EXCEPT ![r] = Off]
  BY <1>1, RunAt DEF FinishWork, TypeOK, RunStates
<1>4. Off \in PollerStates /\ Shaped(state, Off)
  BY <1>1, <1>2, RunAt DEF Off, PollerStates, Shaped
<1> QED BY <1>1, <1>2, <1>3, <1>4 DEF Moves

\* A run that leaves the queue.
LEMMA LeaveMoves ==
  ASSUME IInv, NEW r \in Runs, run[r].pc # "none", ~ poller[r].on,
         run' = [run EXCEPT ![r] = NoRun], UNCHANGED poller
  PROVE  Moves(r, NoRun, poller[r])
<1>1. NoRun \in RunStates /\ NoRun.pc = "none" /\ NoRun.job = None
  BY DEF NoRun, RunStates, RunPoints
<1>2. poller' = [poller EXCEPT ![r] = poller[r]]
  BY RunAt DEF TypeOK
<1> QED BY <1>1, <1>2, RunAt DEF Moves, Shaped

\* Admission: asleep while paused, in line for the ASR stage, or past it.
LEMMA AdmitKeeps ==
  ASSUME IInv, NEW r \in Runs, Admit(r)
  PROVE  IInv'
<1>1. run[r].pc = "waiting" /\ ~ poller[r].on
  BY RunAt DEF Admit, Shaped, Working, Interruptible
<1>2. CASE run' = [run EXCEPT ![r] = NoRun]
  BY <1>1, <1>2, RunAt, LeaveMoves, NoWrites, MoveKeeps DEF Admit, TypeOK
<1>3. CASE \E p \in {"held", "acquiring", "granted"} : Goto(r, p)
  <2>1. PICK p \in {"held", "acquiring", "granted"} : Goto(r, p)
    BY <1>3
  <2>2. Moves(r, [run[r] EXCEPT !.pc = p], poller[r])
    BY <1>1, <2>1, GotoMoves DEF Admit, RunPoints, Executing, Interruptible
  <2> QED BY <1>1, <2>2, RunAt, NoWrites, MoveKeeps DEF Admit, TypeOK
<1>4. CASE control[run[r].job] = None
  BY <1>2, <1>4 DEF Admit
<1>5. CASE control[run[r].job] # None
  <2> DEFINE p == IF control[run[r].job].paused THEN "held"
                  ELSE IF run[r].pending THEN "acquiring" ELSE "granted"
  <2>1. run' = [run EXCEPT ![r] = [run[r] EXCEPT !.pc = p]]
    BY <1>5 DEF Admit
  <2>2. Goto(r, p)
    BY <1>1, <2>1, RunAt DEF TypeOK, RunStates
  <2> QED BY <1>3, <2>2
<1> QED BY <1>4, <1>5

\* A held run that the pause watch wakes is back in the admission loop.
LEMMA WakeKeeps ==
  ASSUME IInv, NEW r \in Runs, Wake(r)
  PROVE  IInv'
<1>1. run[r].pc = "held" /\ ~ poller[r].on
  BY RunAt DEF Wake, Shaped, Working, Interruptible
<1>2. CASE run' = [run EXCEPT ![r] = NoRun]
  BY <1>1, <1>2, RunAt, LeaveMoves, NoWrites, MoveKeeps DEF Wake, TypeOK
<1> DEFINE state == [run[r] EXCEPT !.pc = "waiting", !.unseen = FALSE]
<1>3. CASE run' = [run EXCEPT ![r].pc = "waiting", ![r].unseen = FALSE]
  <2>1. state \in RunStates /\ run' = [run EXCEPT ![r] = state]
    BY <1>1, <1>3, RunAt DEF TypeOK, RunStates, RunPoints
  <2>2. Moves(r, state, poller[r])
    BY <1>1, <2>1, RunAt DEF Wake, Moves, Shaped, TypeOK, RunStates, Executing, Interruptible
  <2> QED BY <1>1, <2>2, RunAt, NoWrites, MoveKeeps DEF Wake, TypeOK
<1> QED BY <1>2, <1>3 DEF Wake

\* A permit of the ASR stage does not make the run execute yet.
LEMMA AcquireKeeps ==
  ASSUME IInv, NEW r \in Runs, Acquire(r)
  PROVE  IInv'
<1> DEFINE state == [run[r] EXCEPT !.pc = "granted", !.permit = TRUE]
<1>1. run[r].pc = "acquiring" /\ ~ poller[r].on
  BY RunAt DEF Acquire, Shaped, Working, Interruptible
<1>2. state \in RunStates /\ run' = [run EXCEPT ![r] = state]
  BY <1>1, RunPermit DEF Acquire, RunPoints
<1>3. Moves(r, state, poller[r])
  BY <1>1, <1>2, RunAt DEF Acquire, Moves, Shaped, TypeOK, RunStates, Executing, Interruptible
<1> QED BY <1>1, <1>3, RunAt, NoWrites, MoveKeeps DEF Acquire, TypeOK

\* A pause while waiting for the ASR stage leads back to the loop.
LEMMA WithdrawKeeps ==
  ASSUME IInv, NEW r \in Runs, Withdraw(r)
  PROVE  IInv'
<1> DEFINE state == [run[r] EXCEPT !.pc = "waiting", !.unseen = FALSE]
<1>1. run[r].pc = "acquiring" /\ ~ poller[r].on
  BY RunAt DEF Withdraw, Shaped, Working, Interruptible
<1>2. state \in RunStates /\ run' = [run EXCEPT ![r] = state]
  BY <1>1, RunAt DEF Withdraw, TypeOK, RunStates, RunPoints
<1>3. Moves(r, state, poller[r])
  BY <1>1, <1>2, RunAt DEF Withdraw, Moves, Shaped, TypeOK, RunStates, Executing, Interruptible
<1> QED BY <1>1, <1>3, RunAt, NoWrites, MoveKeeps DEF Withdraw, TypeOK

\* The workspace is picked up and the poller of this run goes on.
LEMMA BeginKeeps ==
  ASSUME IInv, NEW r \in Runs, Begin(r)
  PROVE  IInv'
<1> DEFINE auto    == run[r].job \in automatic
           state   == [run[r] EXCEPT !.pc = "entering", !.auto = auto]
           polling == [poller[r] EXCEPT !.on = TRUE]
<1>1. run[r].pc = "starting"
  BY DEF Begin
<1>2. state \in RunStates /\ run' = [run EXCEPT ![r] = state]
  <2>1. auto \in BOOLEAN /\ run' = [run EXCEPT ![r].pc = "entering", ![r].auto = auto]
    BY DEF Begin
  <2> HIDE DEF auto
  <2> QED BY <1>1, <2>1, RunAuto DEF RunPoints, Executing, Interruptible
<1>3. polling \in PollerStates /\ poller' = [poller EXCEPT ![r] = polling]
  BY <1>1, RunAt DEF Begin, TypeOK, PollerStates
<1>4. Moves(r, state, polling)
  BY <1>1, <1>2, <1>3, RunAt DEF Moves, Shaped, RunStates, PollerStates, Working, Executing, Interruptible
<1> QED BY <1>1, <1>4, RunAt, NoWrites, MoveKeeps DEF Begin, TypeOK

\* A pause that stops the work joins the poller with it.
LEMMA StopOnPauseKeeps ==
  ASSUME IInv, NEW r \in Runs, StopOnPause(r)
  PROVE  IInv'
<1>1. run[r].pc \in Executing /\ run[r].pc # "none"
  BY DEF StopOnPause, Executing, Interruptible
<1> QED BY <1>1, RunAt, FinishMoves, NoWrites, MoveKeeps DEF StopOnPause, TypeOK

\* So does an error of the work.
LEMMA WorkFailsKeeps ==
  ASSUME IInv, NEW r \in Runs, WorkFails(r)
  PROVE  IInv'
<1>1. run[r].pc \in Executing /\ run[r].pc # "none"
  BY DEF WorkFails, Executing, Interruptible
<1> QED BY <1>1, RunAt, FinishMoves, NoWrites, MoveKeeps DEF WorkFails, TypeOK

\* The work begins, or a late pause or a missing directory refuses it.
LEMMA EnterKeeps ==
  ASSUME IInv, NEW r \in Runs, Enter(r)
  PROVE  IInv'
<1>1. run[r].pc = "entering" /\ run[r].pc \in Executing
  BY DEF Enter, Executing, Interruptible
<1>2. CASE FinishWork(r, "failing")
  BY <1>1, <1>2, RunAt, FinishMoves, NoWrites, MoveKeeps DEF Enter, TypeOK
<1>3. CASE UNCHANGED poller /\ \E p \in {"translate", "recognize"} : Goto(r, p)
  <2>1. PICK p \in {"translate", "recognize"} : Goto(r, p)
    BY <1>3
  <2>2. Moves(r, [run[r] EXCEPT !.pc = p], poller[r])
    BY <1>1, <1>3, <2>1, GotoMoves DEF RunPoints, Executing, Interruptible, Working
  <2> QED BY <1>1, <2>2, RunAt, NoWrites, MoveKeeps DEF Enter, TypeOK
<1> QED BY <1>2, <1>3 DEF Enter

\* The first stage writes a manifest with the media path of the run.
LEMMA RecognizeKeeps ==
  ASSUME IInv, NEW r \in Runs, Recognize(r)
  PROVE  IInv'
<1> DEFINE m == [status |-> "active", input |-> run[r].input]
<1>1. run[r].pc = "recognize" /\ WriteManifest(run[r].job, m) /\ Goto(r, "recognizing")
      /\ UNCHANGED <<row, memory, poller, call, bounds>>
  BY DEF Recognize, WriteStage
<1>2. m \in Manifests
  BY <1>1, RunAt DEF Manifests, Statuses
<1>3. OwnWrites(r)
  BY <1>1, <1>2, ManifestWrites
<1>4. Moves(r, [run[r] EXCEPT !.pc = "recognizing"], poller[r])
  BY <1>1, RunAt, GotoMoves DEF Shaped, Working, RunPoints, Executing, Interruptible
<1> QED BY <1>1, <1>3, <1>4, RunAt, MoveKeeps DEF TypeOK

\* So does every later stage.
LEMMA NextStageKeeps ==
  ASSUME IInv, NEW r \in Runs, NextStage(r)
  PROVE  IInv'
<1> DEFINE m == [status |-> "active", input |-> run[r].input]
<1>1. run[r].pc = "recognizing" /\ WriteManifest(run[r].job, m) /\ Goto(r, "recognizing")
      /\ UNCHANGED <<row, memory, poller, call, bounds>>
  BY DEF NextStage, WriteStage
<1>2. m \in Manifests
  BY <1>1, RunAt DEF Manifests, Statuses
<1>3. OwnWrites(r)
  BY <1>1, <1>2, ManifestWrites
<1>4. Moves(r, [run[r] EXCEPT !.pc = "recognizing"], poller[r])
  BY <1>1, RunAt, GotoMoves DEF Shaped, Working, RunPoints, Executing, Interruptible
<1> QED BY <1>1, <1>3, <1>4, RunAt, MoveKeeps DEF TypeOK

\* The end of the recognition writes segments and manifest in one step.
LEMMA RecognizedKeeps ==
  ASSUME IInv, NEW r \in Runs, Recognized(r)
  PROVE  IInv'
<1> DEFINE j     == run[r].job
           m     == [status |-> "done", input |-> run[r].input]
           task  == [exists |-> TRUE, manifest |-> m, files |-> dir[j].files \cup {"segments"}]
           state == [run[r] EXCEPT !.pc = "recognized", !.permit = FALSE]
<1>1. run[r].pc = "recognizing" /\ j \in Jobs /\ UNCHANGED <<row, memory, poller, call, bounds>>
  BY RunAt DEF Recognized
<1>2. m \in Manifests
  BY <1>1, RunAt DEF Manifests, Statuses
<1>3. task \in Directories /\ task.exists /\ task.manifest = m
  BY <1>1, <1>2, RunAt DEF TypeOK, Directories, Files
<1>4. dir' = [dir EXCEPT ![j] = task] /\ newer' \in [Jobs -> BOOLEAN]
  BY <1>1, RunAt DEF Recognized, TypeOK
<1>5. m # None
  BY <1>2, NoneAssumption
<1>6. OwnWrites(r)
  <2> HIDE DEF task
  <2> QED BY <1>1, <1>3, <1>4, <1>5, RunAt DEF OwnWrites, TaskWrites, TypeOK
<1>7. state \in RunStates /\ run' = [run EXCEPT ![r] = state]
  BY <1>1, RunPermit DEF Recognized, RunPoints, Executing, Interruptible
<1>8. Moves(r, state, poller[r])
  BY <1>1, <1>7, RunAt DEF Moves, Shaped, TypeOK, RunStates, Working, Executing, Interruptible
<1> QED BY <1>1, <1>6, <1>8, RunAt, MoveKeeps DEF TypeOK

\* A failed recognition leaves a manifest that can be loaded.
LEMMA RecognitionFailsKeeps ==
  ASSUME IInv, NEW r \in Runs, RecognitionFails(r)
  PROVE  IInv'
<1> DEFINE m     == [status |-> "failed", input |-> run[r].input]
           state == [run[r] EXCEPT !.pc = "unrecognized", !.permit = FALSE]
<1>1. run[r].pc = "recognizing" /\ WriteManifest(run[r].job, m)
      /\ UNCHANGED <<row, memory, poller, call, bounds>>
  BY DEF RecognitionFails
<1>2. m \in Manifests
  BY <1>1, RunAt DEF Manifests, Statuses
<1>3. OwnWrites(r)
  BY <1>1, <1>2, ManifestWrites
<1>4. state \in RunStates /\ run' = [run EXCEPT ![r] = state]
  BY <1>1, RunPermit DEF RecognitionFails, RunPoints, Executing, Interruptible
<1>5. Moves(r, state, poller[r])
  BY <1>1, <1>4, RunAt DEF Moves, Shaped, TypeOK, RunStates, Working, Executing, Interruptible
<1> QED BY <1>1, <1>3, <1>5, RunAt, MoveKeeps DEF TypeOK

\* An automatic task is marked translating, or its work ends.
LEMMA MarkTranslatingKeeps ==
  ASSUME IInv, NEW r \in Runs, MarkTranslating(r)
  PROVE  IInv'
<1>1. run[r].pc = "recognized" /\ run[r].pc \in Executing /\ UNCHANGED <<row, memory, call, bounds>>
  BY DEF MarkTranslating, Executing
<1>2. OwnWrites(r)
  <2>1. CASE UNCHANGED <<dir, newer>>
    BY <1>1, <2>1, NoWrites
  <2>2. CASE Loadable(run[r].job) /\ WriteStatus(run[r].job, "translating")
    BY <1>1, <2>2, StatusWrites DEF Statuses
  <2> QED BY <2>1, <2>2 DEF MarkTranslating
<1>3. CASE FinishWork(r, "failing")
  BY <1>1, <1>2, <1>3, RunAt, FinishMoves, MoveKeeps DEF TypeOK
<1>4. CASE Goto(r, "prefix") /\ UNCHANGED poller
  <2>1. Moves(r, [run[r] EXCEPT !.pc = "prefix"], poller[r])
    BY <1>1, <1>4, RunAt, GotoMoves DEF Shaped, Working, RunPoints, Executing, Interruptible
  <2> QED BY <1>1, <1>2, <2>1, RunAt, MoveKeeps DEF TypeOK
<1> QED BY <1>3, <1>4 DEF MarkTranslating

\* The snapshot to publish is a manifest with its cues.
LEMMA JoinPrefixKeeps ==
  ASSUME IInv, NEW r \in Runs, JoinPrefix(r)
  PROVE  IInv'
<1> DEFINE j == run[r].job
<1>1. run[r].pc \in {"prefix", "unrecognized"} /\ run[r].pc # "none" /\ run[r].pc \in Executing
      /\ UNCHANGED <<durable, memory, call, bounds>>
  BY DEF JoinPrefix, Executing, Interruptible
<1>2. CASE FinishWork(r, "failing")
  BY <1>1, <1>2, RunAt, FinishMoves, NoWrites, MoveKeeps DEF TypeOK
<1>3. CASE /\ Loadable(j) /\ UNCHANGED poller
           /\ run' = [run EXCEPT ![r].pc = "publishing", ![r].kept = Snapshot(j)]
  <2> DEFINE snapshot == Snapshot(j)
             state    == [run[r] EXCEPT !.pc = "publishing", !.kept = snapshot]
  <2>1. snapshot \in Snapshots
    BY <1>1, <1>3, RunAt, SnapshotType
  <2>2. run' = [run EXCEPT ![r].pc = "publishing", ![r].kept = snapshot]
    BY <1>3
  <2> HIDE DEF snapshot
  <2>3. state \in RunStates /\ run' = [run EXCEPT ![r] = state]
    BY <1>1, <2>1, <2>2, RunKept DEF RunPoints, Executing, Interruptible
  <2>4. Moves(r, state, poller[r])
    BY <1>1, <1>3, <2>1, <2>3, RunAt DEF Moves, Shaped, TypeOK, RunStates, Working, Interruptible
  <2> QED BY <1>1, <2>4, RunAt, NoWrites, MoveKeeps DEF TypeOK
<1> QED BY <1>2, <1>3 DEF JoinPrefix

\* Publishing the cues writes the row of this task only.
LEMMA PublishCuesKeeps ==
  ASSUME IInv, NEW r \in Runs, PublishCues(r)
  PROVE  IInv'
<1> DEFINE state == [run[r] EXCEPT !.pc = "marking", !.kept = None]
<1>1. run[r].pc = "publishing" /\ SyncRow(run[r].job, run[r].kept)
      /\ UNCHANGED <<dir, memory, poller, call, bounds>>
  BY DEF PublishCues
<1>2. OwnWrites(r)
  BY <1>1, RunAt, RowWrites DEF Shaped
<1>3. state \in RunStates /\ run' = [run EXCEPT ![r] = state]
  BY <1>1, RunKept DEF PublishCues, RunPoints, Executing, Interruptible
<1>4. Moves(r, state, poller[r])
  BY <1>1, <1>3, RunAt DEF Moves, Shaped, TypeOK, RunStates, Working, Executing, Interruptible
<1> QED BY <1>1, <1>2, <1>4, RunAt, MoveKeeps DEF TypeOK

\* The marker is added to a directory that keeps its manifest.
LEMMA MarkPublishedKeeps ==
  ASSUME IInv, NEW r \in Runs, MarkPublished(r)
  PROVE  IInv'
<1> DEFINE j    == run[r].job
           task == [dir[j] EXCEPT !.exists = TRUE, !.files = @ \cup {"published"}]
<1>1. run[r].pc = "marking" /\ j \in Jobs /\ Goto(r, "translate")
      /\ UNCHANGED <<row, newer, memory, poller, call, bounds>>
  BY RunAt DEF MarkPublished
<1>2. dir' = [dir EXCEPT ![j] = task]
  BY <1>1, RunAt DEF MarkPublished, TypeOK, Directories
<1>3. task \in Directories /\ task.exists /\ task.manifest = dir[j].manifest
  <2>1. dir[j] \in Directories
    BY <1>1, RunAt DEF TypeOK
  <2>2. dir[j].files \cup {"published"} \in SUBSET Files
    BY <2>1 DEF Directories, Files
  <2> QED BY <2>1, <2>2 DEF Directories
<1>4. OwnWrites(r)
  <2> HIDE DEF task
  <2> QED BY <1>1, <1>2, <1>3, RunAt DEF OwnWrites, TaskWrites, TypeOK
<1>5. Moves(r, [run[r] EXCEPT !.pc = "translate"], poller[r])
  BY <1>1, RunAt, GotoMoves DEF Shaped, Working, RunPoints, Executing, Interruptible
<1> QED BY <1>1, <1>4, <1>5, RunAt, MoveKeeps DEF TypeOK

\* The translation keeps the manifest it will write back as done.
LEMMA TranslateKeeps ==
  ASSUME IInv, NEW r \in Runs, Translate(r)
  PROVE  IInv'
<1> DEFINE j == run[r].job
<1>1. run[r].pc = "translate" /\ run[r].pc \in Executing /\ UNCHANGED <<memory, call, bounds>>
  BY DEF Translate, Executing
<1>2. CASE UNCHANGED durable /\ \E p \in {"ending", "failing"} : FinishWork(r, p)
  BY <1>1, <1>2, RunAt, FinishMoves, NoWrites, MoveKeeps DEF TypeOK
<1>3. CASE /\ Loadable(j) /\ WriteStatus(j, "translating") /\ UNCHANGED <<row, poller>>
           /\ run' = [run EXCEPT ![r].pc = "translating", ![r].kept = dir[j].manifest]
  <2> DEFINE manifest == dir[j].manifest
             state    == [run[r] EXCEPT !.pc = "translating", !.kept = manifest]
  <2>1. manifest \in Manifests
    BY <1>1, <1>3, RunAt DEF Loadable, TypeOK, Directories
  <2>0. run' = [run EXCEPT ![r].pc = "translating", ![r].kept = manifest] /\ UNCHANGED poller
    BY <1>3
  <2>2. OwnWrites(r)
    BY <1>1, <1>3, StatusWrites DEF Statuses
  <2> HIDE DEF manifest
  <2>3. state \in RunStates /\ run' = [run EXCEPT ![r] = state]
    BY <1>1, <2>0, <2>1, RunKept DEF RunPoints, Executing, Interruptible
  <2>4. Moves(r, state, poller[r])
    BY <1>1, <2>0, <2>1, <2>3, RunAt DEF Moves, Shaped, TypeOK, RunStates, Working, Interruptible
  <2> QED BY <1>1, <2>2, <2>4, RunAt, MoveKeeps DEF TypeOK
<1> QED BY <1>2, <1>3 DEF Translate

\* The last group of the translation goes to the row of this task.
LEMMA TranslatePendingKeeps ==
  ASSUME IInv, NEW r \in Runs, TranslatePending(r)
  PROVE  IInv'
<1> DEFINE j   == run[r].job
           new == [row[j] EXCEPT !.translated = TRUE]
<1>1. run[r].pc = "translating" /\ row[j] # None /\ j \in Jobs /\ Goto(r, "translated")
      /\ UNCHANGED <<dir, newer, memory, poller, call, bounds>>
  BY RunAt DEF TranslatePending
<1>2. row' = [row EXCEPT ![j] = new] /\ new \in Rows
  <2>1. row \in [Jobs -> Rows \cup {None}] /\ row[j] \in Rows
    BY <1>1, RunAt DEF TypeOK
  <2>2. new \in Rows
    BY <2>1 DEF Rows
  <2>3. row' = [row EXCEPT ![j] = new]
    BY <1>1, <2>1 DEF TranslatePending, Rows
  <2> QED BY <2>2, <2>3
<1>3. OwnWrites(r)
  BY <1>1, <1>2, RunAt DEF OwnWrites, TaskWrites, TypeOK
<1>4. Moves(r, [run[r] EXCEPT !.pc = "translated"], poller[r])
  BY <1>1, RunAt, GotoMoves DEF Shaped, Working, RunPoints, Executing, Interruptible
<1> QED BY <1>1, <1>3, <1>4, RunAt, MoveKeeps DEF TypeOK

\* The manifest kept since the start of the translation is written as done.
LEMMA MarkDoneKeeps ==
  ASSUME IInv, NEW r \in Runs, MarkDone(r)
  PROVE  IInv'
<1> DEFINE m == [run[r].kept EXCEPT !.status = "done"]
<1>1. run[r].pc = "translated" /\ run[r].pc \in Executing /\ WriteManifest(run[r].job, m)
      /\ FinishWork(r, "ending") /\ UNCHANGED <<row, memory, call, bounds>>
  BY DEF MarkDone, Executing
<1>2. m \in Manifests
  BY <1>1, RunAt DEF Shaped, Manifests, Statuses
<1>3. OwnWrites(r)
  BY <1>1, <1>2, ManifestWrites
<1> QED BY <1>1, <1>3, RunAt, FinishMoves, MoveKeeps DEF TypeOK

\* A poller reads a task that can be loaded, or recreates its directory.
LEMMA PollerLoadsKeeps ==
  ASSUME IInv, NEW r \in Runs, PollerLoads(r)
  PROVE  IInv'
<1> DEFINE j == run[r].job
<1>1. /\ poller[r].on /\ UNCHANGED <<row, newer, memory, run, call, bounds>>
      /\ IInv /\ poller[r] \in PollerStates /\ Shaped(run[r], poller[r])
  BY DEF PollerLoads, IInv, TypeOK, RunShape
<1>2. run[r].pc # "none"
  BY <1>1 DEF Shaped, Working, Interruptible
<1>3. run' = [run EXCEPT ![r] = run[r]]
  BY <1>1, <1>2, RunAt DEF TypeOK
<1>4. CASE Loadable(j) /\ UNCHANGED dir /\ poller' = [poller EXCEPT ![r].seen = Snapshot(j)]
  <2> DEFINE snapshot == Snapshot(j)
             polling  == [poller[r] EXCEPT !.seen = snapshot]
  <2>1. snapshot \in Snapshots /\ poller' = [poller EXCEPT ![r].seen = snapshot]
    BY <1>2, <1>4, RunAt, SnapshotType
  <2> HIDE DEF snapshot
  <2>2. polling \in PollerStates /\ polling.on /\ poller' = [poller EXCEPT ![r] = polling]
    BY <1>1, <1>2, <2>1, RunAt DEF TypeOK, PollerStates
  <2>3. Moves(r, run[r], polling)
    BY <1>1, <1>2, <1>3, <2>2, RunAt DEF Moves, Shaped
  <2> QED BY <1>1, <1>4, <2>3, NoWrites, MoveKeeps DEF IInv, TypeOK
<1>5. CASE ~ dir[j].exists /\ UNCHANGED poller /\ dir' = [dir EXCEPT ![j].exists = TRUE]
  <2>1. OwnWrites(r)
    BY <1>1, <1>2, <1>5, RunAt DEF OwnWrites, TaskWrites, TypeOK, Directories
  <2>2. Moves(r, run[r], poller[r])
    BY <1>1, <1>2, <1>3, <1>5, RunAt DEF Moves, TypeOK
  <2> QED BY <1>1, <2>1, <2>2, MoveKeeps DEF IInv, TypeOK
<1> QED BY <1>4, <1>5 DEF PollerLoads

\* A poller publishes what it has read, into the row of its own task.
LEMMA PollerSyncsKeeps ==
  ASSUME IInv, NEW r \in Runs, PollerSyncs(r)
  PROVE  IInv'
<1> DEFINE polling == [poller[r] EXCEPT !.seen = None]
<1>1. /\ poller[r].seen # None /\ UNCHANGED <<dir, memory, run, call, bounds>>
      /\ SyncRow(run[r].job, poller[r].seen) /\ poller' = [poller EXCEPT ![r].seen = None]
      /\ poller[r] \in PollerStates /\ Shaped(run[r], poller[r])
  BY DEF PollerSyncs, IInv, TypeOK, RunShape
<1>2. run[r].pc # "none" /\ poller[r].on /\ poller[r].seen \in Snapshots
  BY <1>1 DEF Shaped, Working, Interruptible, PollerStates
<1>3. polling \in PollerStates /\ polling.on /\ polling.seen = None /\ poller' = [poller EXCEPT ![r] = polling]
  BY <1>1, <1>2, RunAt DEF TypeOK, PollerStates
<1>4. Moves(r, run[r], polling)
  BY <1>1, <1>2, <1>3, RunAt DEF Moves, Shaped, TypeOK
<1>5. OwnWrites(r)
  BY <1>1, <1>2, RowWrites
<1> QED BY <1>1, <1>4, <1>5, MoveKeeps DEF IInv, TypeOK

\* The failure is written over the manifest, which stays one.
LEMMA FailManifestKeeps ==
  ASSUME IInv, NEW r \in Runs, FailManifest(r)
  PROVE  IInv'
<1>1. run[r].pc = "failing" /\ Goto(r, "ending") /\ UNCHANGED <<row, memory, poller, call, bounds>>
  BY DEF FailManifest
<1>2. OwnWrites(r)
  <2>1. CASE UNCHANGED <<dir, newer>>
    BY <1>1, <2>1, NoWrites
  <2>2. CASE Loadable(run[r].job) /\ WriteStatus(run[r].job, "failed")
    BY <1>1, <2>2, StatusWrites DEF Statuses
  <2> QED BY <2>1, <2>2 DEF FailManifest
<1>3. Moves(r, [run[r] EXCEPT !.pc = "ending"], poller[r])
  BY <1>1, RunAt, GotoMoves DEF Shaped, Working, RunPoints, Executing, Interruptible
<1> QED BY <1>1, <1>2, <1>3, RunAt, MoveKeeps DEF TypeOK

\* The final snapshot of a run is one of its own task.
LEMMA LoadFinalKeeps ==
  ASSUME IInv, NEW r \in Runs, LoadFinal(r)
  PROVE  IInv'
<1> DEFINE snapshot == Snapshot(run[r].job)
           state    == [run[r] EXCEPT !.pc = "reporting", !.kept = snapshot]
<1>1. run[r].pc = "ending" /\ UNCHANGED <<durable, memory, poller, call, bounds>>
  BY DEF LoadFinal
<1>2. CASE Goto(r, "leaving")
  <2>1. Moves(r, [run[r] EXCEPT !.pc = "leaving"], poller[r])
    BY <1>1, <1>2, RunAt, GotoMoves DEF Shaped, Working, RunPoints, Executing, Interruptible
  <2> QED BY <1>1, <2>1, RunAt, NoWrites, MoveKeeps DEF TypeOK
<1>3. CASE Loadable(run[r].job) /\ run' = [run EXCEPT ![r].pc = "reporting", ![r].kept = snapshot]
  <2>1. snapshot \in Snapshots
    BY <1>1, <1>3, RunAt, SnapshotType
  <2> HIDE DEF snapshot
  <2>2. state \in RunStates /\ run' = [run EXCEPT ![r] = state]
    BY <1>1, <1>3, <2>1, RunKept DEF RunPoints, Executing, Interruptible
  <2>3. Moves(r, state, poller[r])
    BY <1>1, <2>1, <2>2, RunAt DEF Moves, Shaped, TypeOK, RunStates, Working, Executing, Interruptible
  <2> QED BY <1>1, <2>3, RunAt, NoWrites, MoveKeeps DEF TypeOK
<1> QED BY <1>2, <1>3 DEF LoadFinal

\* The final state reaches the row of this task only.
LEMMA SyncFinalKeeps ==
  ASSUME IInv, NEW r \in Runs, SyncFinal(r)
  PROVE  IInv'
<1> DEFINE state == [run[r] EXCEPT !.pc = "leaving", !.kept = None]
<1>1. run[r].pc = "reporting" /\ SyncRow(run[r].job, run[r].kept)
      /\ UNCHANGED <<dir, memory, poller, call, bounds>>
  BY DEF SyncFinal
<1>2. OwnWrites(r)
  BY <1>1, RunAt, RowWrites DEF Shaped
<1>3. state \in RunStates /\ run' = [run EXCEPT ![r] = state]
  BY <1>1, RunKept DEF SyncFinal, RunPoints, Executing, Interruptible
<1>4. Moves(r, state, poller[r])
  BY <1>1, <1>3, RunAt DEF Moves, Shaped, TypeOK, RunStates, Working, Executing, Interruptible
<1> QED BY <1>1, <1>2, <1>4, RunAt, MoveKeeps DEF TypeOK

\* Forgetting the workspace changes neither files nor controls.
LEMMA ForgetAutomaticKeeps ==
  ASSUME IInv, NEW r \in Runs, ForgetAutomatic(r)
  PROVE  IInv'
<1>1. run[r].pc = "leaving" /\ Goto(r, "closing") /\ automatic' = automatic \ {run[r].job}
      /\ UNCHANGED <<durable, control, lock, up, poller, call, bounds>>
  BY DEF ForgetAutomatic
<1>2. Moves(r, [run[r] EXCEPT !.pc = "closing"], poller[r])
  BY <1>1, RunAt, GotoMoves DEF Shaped, Working, RunPoints, Executing, Interruptible
<1> QED BY <1>1, <1>2, RunAt, NoWrites, MoveKeeps DEF TypeOK

\* The end of a run takes its control along: no other run and no dispatch of
\* the same task needs it.
LEMMA DropKeeps ==
  ASSUME IInv, NEW r \in Runs, run[r].pc # "none", ~ poller[r].on, lock = None,
         run' = [run EXCEPT ![r] = NoRun],
         control' = [control EXCEPT ![run[r].job] = None],
         call' \in {call, Released(run[r].job)},
         UNCHANGED <<durable, lock, up, poller, bounds>>, automatic' \in SUBSET Jobs
  PROVE  IInv'
<1> DEFINE j == run[r].job
<1> USE DEF IInv
<1>1. /\ NoRun \in RunStates /\ NoRun.pc = "none" /\ NoRun.job = None
      /\ NoCall \in CallStates /\ NoCall.pc = "none" /\ NoCall.job = None
  BY DEF NoRun, RunStates, RunPoints, NoCall, CallStates, CallPoints
<1>2. /\ j \in Jobs /\ run' \in [Runs -> RunStates] /\ run'[r] = NoRun
      /\ \A s \in Runs \ {r} : run'[s] = run[s]
  BY <1>1, RunAt DEF TypeOK
<1>3. /\ control' \in [Jobs -> Controls \cup {None}] /\ control'[j] = None
      /\ \A k \in Jobs \ {j} : control'[k] = control[k]
  BY <1>2 DEF TypeOK
<1>4. /\ call' \in [Callers -> CallStates]
      /\ \A c \in Callers : call'[c] = call[c] \/ call'[c] = NoCall
  BY <1>1 DEF TypeOK, Released
<1>5. TypeOK' /\ RunShape'
  BY <1>1, <1>2, <1>3, <1>4 DEF TypeOK, RunShape, Shaped
<1>6. CallShape'
  BY <1>1, <1>4, NoneAssumption DEF CallShape
<1>7. DownIsIdle' /\ Untouched' /\ Kept'
  BY <1>1, <1>2, <1>3, <1>4, NoneAssumption DEF DownIsIdle, Untouched, Kept
<1>8. \A c \in Callers : Dispatching(c)' => Dispatching(c) /\ call'[c] = call[c]
  BY <1>1, <1>4 DEF Dispatching
<1>9. Controlled' /\ OneDispatch'
  BY <1>1, <1>2, <1>3, <1>8, NoneAssumption DEF Controlled, OneDispatch, Executing, Interruptible
<1>10. SubmissionIsQuiet'
  <2> SUFFICES ASSUME NEW c \in Callers, Submitting(c)'
               PROVE  Quiet(c)'
    BY DEF SubmissionIsQuiet
  <2>1. Submitting(c) /\ call'[c] = call[c] /\ Quiet(c) /\ call[c].job \in Jobs
    BY <1>1, <1>4 DEF Submitting, SubmissionIsQuiet, CallShape
  <2> QED BY <1>1, <1>2, <1>3, <1>4, <2>1, NoneAssumption DEF Quiet
<1> QED BY <1>5, <1>6, <1>7, <1>9, <1>10

\* A run whose control or directory is gone goes; the others are admitted.
LEMMA LookupKeeps ==
  ASSUME IInv, NEW r \in Runs, Lookup(r)
  PROVE  IInv'
<1>1. run[r].pc = "sent" /\ ~ poller[r].on /\ lock = None
      /\ UNCHANGED <<durable, poller, call, lock, up, bounds>>
  BY RunAt DEF Lookup, Shaped, Working, Interruptible
<1>2. CASE run' = [run EXCEPT ![r] = NoRun] /\ UNCHANGED <<control, automatic>>
  BY <1>1, <1>2, RunAt, LeaveMoves, NoWrites, MoveKeeps DEF TypeOK
<1>3. CASE /\ run' = [run EXCEPT ![r] = NoRun] /\ control' = [control EXCEPT ![run[r].job] = None]
           /\ automatic' = automatic \ {run[r].job}
  BY <1>1, <1>3, RunAt, DropKeeps DEF TypeOK
<1> DEFINE pending == "published" \notin dir[run[r].job].files
           state   == [run[r] EXCEPT !.pc = "waiting", !.pending = pending]
<1>4. CASE /\ run' = [run EXCEPT ![r].pc = "waiting", ![r].pending = pending]
           /\ UNCHANGED <<control, automatic>>
  <2>1. pending \in BOOLEAN /\ run' = [run EXCEPT ![r].pc = "waiting", ![r].pending = pending]
    BY <1>4
  <2> HIDE DEF pending
  <2>2. state \in RunStates /\ run' = [run EXCEPT ![r] = state]
    BY <1>1, <2>1, RunAt DEF TypeOK, RunStates, RunPoints
  <2>3. Moves(r, state, poller[r])
    BY <1>1, <2>2, RunAt DEF Moves, Shaped, TypeOK, RunStates, Executing, Interruptible
  <2> QED BY <1>1, <1>4, <2>3, RunAt, NoWrites, MoveKeeps DEF TypeOK
<1> QED BY <1>2, <1>3, <1>4 DEF Lookup

\* Close removes the control of a task that has no other run and no dispatch.
LEMMA CloseKeeps ==
  ASSUME IInv, NEW r \in Runs, Close(r)
  PROVE  IInv'
<1>1. run[r].pc = "closing" /\ ~ poller[r].on
  BY RunAt DEF Close, Shaped, Working, Interruptible
<1> QED BY <1>1, RunAt, DropKeeps DEF Close, TypeOK

\* The point at which a run begins to execute.
LEMMA StartKeeps ==
  ASSUME IInv, NEW r \in Runs, Start(r)
  PROVE  IInv'
<1> DEFINE j == run[r].job
<1>1. run[r].pc = "granted" /\ ~ poller[r].on /\ j \in Jobs
      /\ UNCHANGED <<durable, automatic, lock, up, poller, call, bounds>>
  BY RunAt DEF Start, Shaped, Working, Interruptible
<1>2. CASE run' = [run EXCEPT ![r] = NoRun] /\ UNCHANGED control
  BY <1>1, <1>2, RunAt, LeaveMoves, NoWrites, MoveKeeps DEF TypeOK
<1>3. CASE run' = [run EXCEPT ![r].pc = "waiting", ![r].permit = FALSE] /\ UNCHANGED control
  <2> DEFINE state == [run[r] EXCEPT !.pc = "waiting", !.permit = FALSE]
  <2>1. state \in RunStates /\ run' = [run EXCEPT ![r] = state]
    BY <1>1, <1>3, RunPermit DEF RunPoints
  <2>2. Moves(r, state, poller[r])
    BY <1>1, <2>1, RunAt DEF Moves, Shaped, TypeOK, RunStates, Executing, Interruptible
  <2> QED BY <1>1, <1>3, <2>2, RunAt, NoWrites, MoveKeeps DEF TypeOK
<1>4. CASE control[j] # None /\ control' = [control EXCEPT ![j].started = TRUE] /\ Goto(r, "starting")
  <2> USE DEF IInv
  <2>1. /\ run' \in [Runs -> RunStates] /\ run'[r] = [run[r] EXCEPT !.pc = "starting"]
        /\ \A s \in Runs \ {r} : run'[s] = run[s]
    BY <1>4, GotoKeeps DEF RunPoints, Executing
  <2>2. run'[r].pc = "starting" /\ run'[r].job = j /\ run'[r].input = run[r].input
    BY <1>1, <2>1, RunAt DEF RunStates
  <2>3. control[j] \in Controls
    BY <1>1, <1>4 DEF TypeOK
  <2>4. /\ [control[j] EXCEPT !.started = TRUE] \in Controls
        /\ [control[j] EXCEPT !.started = TRUE].started
    BY <2>3 DEF Controls
  <2>5. /\ control' \in [Jobs -> Controls \cup {None}] /\ control'[j] # None /\ control'[j].started
        /\ \A k \in Jobs \ {j} : control'[k] = control[k]
    BY <1>1, <1>4, <2>4, NoneAssumption DEF TypeOK
  <2>6. TypeOK'
    BY <1>1, <2>1, <2>5 DEF TypeOK
  <2>12. RunShape'
    <3>1. Shaped(run'[r], poller'[r])
      BY <1>1, <2>2, RunAt DEF Shaped
    <3> QED BY <1>1, <2>1, <3>1 DEF RunShape
  <2>7. CallShape' /\ DownIsIdle' /\ Kept'
    BY <1>1, <2>1, <2>2, <2>5 DEF CallShape, DownIsIdle, Kept
  <2>13. \A s \in Runs : run'[s].job = run[s].job /\ (s # r => run'[s].pc = run[s].pc)
    BY <2>1, <2>2
  <2>8. Untouched'
    <3>1. j \in submitted
      BY <1>1 DEF Untouched
    <3> QED BY <1>1, <2>5, <2>13, <3>1 DEF Untouched
  <2>9. \A c \in Callers : Dispatching(c)' <=> Dispatching(c)
    BY <1>1 DEF Dispatching
  <2>10. Controlled'
    BY <1>1, <2>5, <2>9, <2>13 DEF Controlled
  <2>14. OneDispatch'
    BY <1>1, <2>9, <2>13 DEF OneDispatch
  <2>11. SubmissionIsQuiet'
    <3> SUFFICES ASSUME NEW c \in Callers, Submitting(c)
                 PROVE  Quiet(c)'
      BY <1>1 DEF SubmissionIsQuiet, Submitting
    <3>1. Quiet(c) /\ call[c].job \in Jobs /\ call[c].job # j
      BY <1>4 DEF SubmissionIsQuiet, Submitting, CallShape, Quiet
    <3> QED BY <1>1, <2>5, <3>1 DEF Quiet
  <2> QED BY <2>6, <2>7, <2>8, <2>10, <2>11, <2>12, <2>14
<1> QED BY <1>2, <1>3, <1>4 DEF Start

-----------------------------------------------------------------------------
(* The steps of a call *)

\* What is known of a call that is on.
LEMMA CallAtKnows ==
  ASSUME IInv, NEW c \in Callers, call[c].pc # "none"
  PROVE  /\ TypeOK /\ up /\ call[c].job \in Jobs /\ call[c].job \in submitted
         /\ call[c] \in CallStates /\ Fits(call[c])
         /\ [call EXCEPT ![c] = call[c]] = call
BY DEF IInv, TypeOK, CallShape, DownIsIdle, Untouched

\* A call that submits, or holds more than a look at its task, is the only one
\* beside a submission of that task.
LEMMA SubmissionIsAlone ==
  ASSUME IInv, NEW c \in Callers, NEW d \in Callers \ {c}, Submitting(d),
         call[c].job = call[d].job
  PROVE  LooksOn(call[c])
BY DEF IInv, SubmissionIsQuiet, Quiet

\* The step leaves the task quiet.
QuietAfter(j) ==
  /\ row'[j] # None => row'[j].status = "queued"
  /\ dir'[j].manifest # None => dir'[j].manifest.status = "queued"

USE DEF QuietAfter

\* A call for task j takes a new state and writes nothing that a submission of j
\* under way relies on.
CallStep(c, j, state) ==
  /\ call' = [call EXCEPT ![c] = state] /\ state \in CallStates /\ Fits(state)
  /\ state.pc = "none" \/ (state.pc # "none" /\ state.job = j /\ up)
  /\ state.pc = "delete_row" => j \in deleted
  /\ state.pc \in {"pause_sync", "unhold"} => lock' = c /\ control[j] # None
  /\ lock' = lock \/ lock \in {c, None}
  /\ Dispatches(state) => Dispatching(c) /\ call[c].job = j
  /\ Submits(state) =>
       Submitting(c) /\ call[c].job = j /\ state.kept = call[c].kept /\ QuietAfter(j)
  /\ \A d \in Callers \ {c} : Submitting(d) /\ call[d].job = j =>
       QuietAfter(j) /\ (state.pc # "none" => LooksOn(state))

\* Such a step keeps the invariant, if it leaves controls and runs alone.
LEMMA CallStepKeeps ==
  ASSUME IInv, NEW c \in Callers, NEW j \in Jobs, NEW state, j \in submitted,
         CallStep(c, j, state), TaskWrites(j),
         UNCHANGED <<control, run, poller, up, submitted, deleted>>,
         automatic' \in SUBSET Jobs, lock' \in Callers \cup {None}, commands' \in 0..MaxCommands
  PROVE  IInv'
<1> USE DEF IInv
<1>1. /\ j \in Jobs /\ call' \in [Callers -> CallStates] /\ call'[c] = state
      /\ \A d \in Callers \ {c} : call'[d] = call[d]
  BY DEF CallStep, TypeOK
<1>2. TypeOK'
  BY <1>1 DEF TypeOK, TaskWrites
<1>3. RunShape'
  BY DEF RunShape
<1>4. CallShape'
  BY <1>1, NoneAssumption DEF CallShape, CallStep
<1>5. DownIsIdle'
  BY <1>1 DEF DownIsIdle, CallStep
<1>6. Untouched'
  BY <1>1, NoneAssumption DEF Untouched, CallStep, TaskWrites
<1>7. Kept'
  <2>1. submitted \subseteq Jobs
    BY DEF TypeOK
  <2> QED BY <1>1, <2>1 DEF Kept, TaskWrites
<1>8. \A d \in Callers : Dispatching(d)' => Dispatching(d) /\ call'[d].job = call[d].job
  BY <1>1 DEF CallStep, Dispatching
<1>9. Controlled'
  BY <1>8 DEF Controlled
<1>10. OneDispatch'
  BY <1>8 DEF OneDispatch
<1>11. SubmissionIsQuiet'
  <2> SUFFICES ASSUME NEW d \in Callers, Submitting(d)'
               PROVE  Quiet(d)'
    BY DEF SubmissionIsQuiet
  <2>1. /\ Submitting(d) /\ Quiet(d) /\ call'[d].job = call[d].job /\ call'[d].kept = call[d].kept
        /\ call[d].job \in Jobs
    BY <1>1 DEF CallStep, Submitting, SubmissionIsQuiet, CallShape
  <2>2. TaskQuiet(call[d].job)'
    <3>1. CASE call[d].job # j
      BY <2>1, <3>1 DEF Quiet, TaskWrites
    <3>2. CASE call[d].job = j
      BY <1>1, <2>1, <3>2 DEF CallStep, Submitting
    <3> QED BY <3>1, <3>2
  <2>3. \A e \in Callers \ {d} : call'[e].job = call[d].job => LooksOn(call'[e])
    <3> SUFFICES ASSUME NEW e \in Callers \ {d}, call'[e].job = call[d].job
                 PROVE  LooksOn(call'[e])
      OBVIOUS
    <3>1. CASE e # c
      BY <1>1, <2>1, <3>1 DEF Quiet
    <3>2. CASE e = c
      BY <1>1, <2>1, <3>2, NoneAssumption DEF CallStep
    <3> QED BY <3>1, <3>2
  <2> QED BY <2>1, <2>2, <2>3 DEF Quiet
<1> QED BY <1>2, <1>3, <1>4, <1>5, <1>6, <1>7, <1>9, <1>10, <1>11

\* A call that moves to another point of the same command.
LEMMA CallGotoState ==
  ASSUME IInv, NEW c \in Callers, call[c].pc # "none", NEW p \in CallPoints, CallGoto(c, p)
  PROVE  LET state == [call[c] EXCEPT !.pc = p] IN
         /\ call' = [call EXCEPT ![c] = state] /\ state \in CallStates
         /\ state.pc = p /\ state.job = call[c].job /\ state.kept = call[c].kept
<1>1. call \in [Callers -> CallStates] /\ call[c] \in CallStates
  BY DEF IInv, TypeOK
<1>2. call' = [call EXCEPT ![c] = [call[c] EXCEPT !.pc = p]]
  BY <1>1
<1> QED BY <1>1, <1>2 DEF CallStates

\* A call that returns is a step of its task.
LEMMA ReturnStep ==
  ASSUME IInv, NEW c \in Callers, NEW j \in Jobs, Leaves(c),
         lock' = lock \/ lock \in {c, None},
         \A d \in Callers \ {c} : Submitting(d) /\ call[d].job = j => QuietAfter(j)
  PROVE  CallStep(c, j, NoCall)
<1>1. NoCall \in CallStates /\ NoCall.pc = "none" /\ NoCall.job = None
  BY DEF NoCall, CallStates, CallPoints
<1> QED BY <1>1 DEF CallStep

\* A command that begins holds its task and what it has read of it.
LEMMA IssuedState ==
  ASSUME IInv, NEW c \in Callers, NEW j \in Jobs, NEW p \in CallPoints,
         NEW kept \in Manifests \cup Snapshots \cup Directories \cup {None}
  PROVE  LET state == [pc |-> p, job |-> j, kept |-> kept] IN
         state \in CallStates /\ state.pc = p /\ state.job = j /\ state.kept = kept
BY DEF CallStates

\* A task with a row, or with a manifest, was submitted.
LEMMA TracedIsSubmitted ==
  ASSUME IInv, NEW j \in Jobs,
         \/ row[j] # None \/ dir[j].manifest # None \/ control[j] # None \/ dir[j].exists
  PROVE  j \in submitted
BY DEF IInv, Untouched, Absent

\* Writing a manifest or a row touches nothing but its task.
LEMMA TaskManifestWrites ==
  ASSUME IInv, NEW j \in Jobs, NEW m \in Manifests, WriteManifest(j, m), UNCHANGED row
  PROVE  TaskWrites(j) /\ dir'[j].manifest = m
<1>1. m # None /\ TypeOK
  BY NoneAssumption DEF IInv
<1> QED BY <1>1, WriteManifestKeeps DEF TypeOK, TaskWrites

\* Marking the status of a task writes to that task only.
LEMMA TaskStatusWrites ==
  ASSUME IInv, NEW j \in Jobs, NEW s \in Statuses, Loadable(j), WriteStatus(j, s), UNCHANGED row
  PROVE  TaskWrites(j) /\ dir'[j].manifest.status = s
BY WriteStatusKeeps DEF IInv, TypeOK, TaskWrites

\* Publishing a snapshot of a task writes to the row of that task only.
LEMMA TaskRowWrites ==
  ASSUME IInv, NEW j \in Jobs, NEW s \in Snapshots, SyncRow(j, s), UNCHANGED dir
  PROVE  TaskWrites(j) /\ row'[j] # None /\ row'[j].status = s.manifest.status
BY SyncRowKeeps DEF IInv, TypeOK, TaskWrites

\* A step that writes nothing leaves a quiet task quiet.
LEMMA TaskNoWrites ==
  ASSUME IInv, NEW j \in Jobs, UNCHANGED durable
  PROVE  TaskWrites(j) /\ (TaskQuiet(j) => QuietAfter(j))
BY DEF IInv, TypeOK, TaskWrites

\* The first row of a new task says queued.
LEMMA SubmitSyncKeeps ==
  ASSUME IInv, NEW c \in Callers, SubmitSync(c)
  PROVE  IInv'
<1> DEFINE j == call[c].job
           state == [call[c] EXCEPT !.pc = "submit_prepare"]
<1>1. call[c].pc = "submit_sync" /\ SyncRow(j, call[c].kept) /\ CallGoto(c, "submit_prepare")
      /\ UNCHANGED <<dir, memory, run, poller, bounds>>
  BY DEF SubmitSync
<1>2. j \in Jobs /\ j \in submitted /\ call[c].kept \in Snapshots /\ up
  BY <1>1, CallAtKnows
<1>3. TaskWrites(j) /\ row'[j].status = call[c].kept.manifest.status
  BY <1>1, <1>2, TaskRowWrites
<1>4. Quiet(c) /\ Submitting(c)
  BY <1>1 DEF IInv, SubmissionIsQuiet, Submitting
<1>5. QuietAfter(j)
  BY <1>1, <1>3, <1>4 DEF Quiet
<1>6. \A d \in Callers \ {c} : Submitting(d) => call[d].job # j
  BY <1>1, SubmissionIsAlone
<1>7. call' = [call EXCEPT ![c] = state] /\ state \in CallStates
      /\ state.pc = "submit_prepare" /\ state.job = j /\ state.kept = call[c].kept
  BY <1>1, CallGotoState DEF CallPoints
<1>8. CallStep(c, j, state)
  BY <1>1, <1>2, <1>4, <1>5, <1>6, <1>7 DEF CallStep
<1>12. automatic' \in SUBSET Jobs /\ lock' \in Callers \cup {None} /\ commands' \in 0..MaxCommands
  BY <1>1, <1>3 DEF IInv, TypeOK
<1>13. UNCHANGED <<control, run, poller, up, submitted, deleted>>
  BY <1>1
<1> HIDE DEF state, j
<1> QED BY <1>2, <1>3, <1>8, <1>12, <1>13, CallStepKeeps

\* The preparation of a new task leaves its status alone.
LEMMA SubmitPrepareKeeps ==
  ASSUME IInv, NEW c \in Callers, SubmitPrepare(c)
  PROVE  IInv'
<1> DEFINE j     == call[c].job
           state == [call[c] EXCEPT !.pc = "enqueue"]
<1>1. call[c].pc = "submit_prepare" /\ CallGoto(c, "enqueue")
      /\ UNCHANGED <<row, newer, control, lock, up, run, poller, bounds>>
  BY DEF SubmitPrepare
<1>2. j \in Jobs /\ j \in submitted /\ call[c].kept \in Snapshots /\ up
  BY <1>1, CallAtKnows
<1>3. automatic' \in SUBSET Jobs
  BY <1>2 DEF SubmitPrepare, IInv, TypeOK
<1>4. PICK more \in SUBSET Files : dir' = [dir EXCEPT ![j].files = @ \cup more]
  <2>1. CASE j \in Automatic
    BY <2>1 DEF SubmitPrepare, Files
  <2>2. CASE j \notin Automatic
    BY <2>2 DEF SubmitPrepare, Files
  <2> QED BY <2>1, <2>2
<1>5. TaskWrites(j) /\ dir'[j].manifest = dir[j].manifest
  <2>1. dir[j] \in Directories /\ dir \in [Jobs -> Directories] /\ row \in [Jobs -> Rows \cup {None}]
        /\ newer \in [Jobs -> BOOLEAN]
    BY <1>2 DEF IInv, TypeOK
  <2> DEFINE task == [dir[j] EXCEPT !.files = @ \cup more]
  <2>2. task \in Directories /\ task.exists = dir[j].exists /\ task.manifest = dir[j].manifest
    BY <2>1 DEF Directories
  <2>3. dir' = [dir EXCEPT ![j] = task]
    BY <1>4, <2>1 DEF Directories
  <2> HIDE DEF task
  <2> QED BY <1>1, <1>2, <2>1, <2>2, <2>3 DEF TaskWrites
<1>6. Quiet(c) /\ Submitting(c)
  BY <1>1 DEF IInv, SubmissionIsQuiet, Submitting
<1>7. QuietAfter(j)
  BY <1>1, <1>5, <1>6 DEF Quiet
<1>8. \A d \in Callers \ {c} : Submitting(d) => call[d].job # j
  BY <1>1, SubmissionIsAlone
<1>9. call' = [call EXCEPT ![c] = state] /\ state \in CallStates
      /\ state.pc = "enqueue" /\ state.job = j /\ state.kept = call[c].kept
  BY <1>1, CallGotoState DEF CallPoints
<1>10. ~ Dispatches(state)
  BY <1>2, <1>9, ManifestsAreNoSnapshots
<1>11. CallStep(c, j, state)
  BY <1>1, <1>2, <1>6, <1>7, <1>8, <1>9, <1>10 DEF CallStep
<1>12. automatic' \in SUBSET Jobs /\ lock' \in Callers \cup {None} /\ commands' \in 0..MaxCommands
  BY <1>1, <1>3 DEF IInv, TypeOK
<1> HIDE DEF state
<1> QED BY <1>1, <1>2, <1>3, <1>5, <1>11, <1>12, CallStepKeeps

\* A call that returns.
LEMMA ReturnKeeps ==
  ASSUME IInv, NEW c \in Callers, NEW j \in Jobs, j \in submitted, Leaves(c), TaskWrites(j),
         UNCHANGED <<control, automatic, up, run, poller, bounds>>, lock' \in {lock, None},
         lock' # lock => lock = c,
         \A d \in Callers \ {c} : Submitting(d) /\ call[d].job = j => QuietAfter(j)
  PROVE  IInv'
<1>1. CallStep(c, j, NoCall)
  BY ReturnStep
<1>2. automatic' \in SUBSET Jobs /\ lock' \in Callers \cup {None} /\ commands' \in 0..MaxCommands
  BY DEF IInv, TypeOK
<1> QED BY <1>1, <1>2, CallStepKeeps

\* A pause that fails a task publishes it and lets go of the lock.
LEMMA PauseSyncKeeps ==
  ASSUME IInv, NEW c \in Callers, PauseSync(c)
  PROVE  IInv'
<1> DEFINE j == call[c].job
<1>1. call[c].pc = "pause_sync" /\ lock' = None /\ Leaves(c)
      /\ UNCHANGED <<dir, control, automatic, up, run, poller, bounds>>
  BY DEF PauseSync
<1>2. j \in Jobs /\ j \in submitted /\ lock = c
  BY <1>1, CallAtKnows DEF IInv, CallShape
<1>3. TaskWrites(j)
  <2>1. CASE Loadable(j)
    BY <1>1, <1>2, <2>1, SnapshotType, TaskRowWrites DEF PauseSync, IInv
  <2>2. CASE ~ Loadable(j)
    BY <1>1, <1>2, <2>2, TaskNoWrites DEF PauseSync
  <2> QED BY <2>1, <2>2
<1>4. \A d \in Callers \ {c} : Submitting(d) => call[d].job # j
  BY <1>1, SubmissionIsAlone
<1> HIDE DEF j
<1> QED BY <1>1, <1>2, <1>3, <1>4, ReturnKeeps

\* A resume may configure a workspace before it looks at anything.
LEMMA ResumeConfigureKeeps ==
  ASSUME IInv, NEW c \in Callers, NEW j \in Jobs, ResumeConfigure(c, j)
  PROVE  IInv'
<1> DEFINE state == [pc |-> "resume_check", job |-> j, kept |-> None]
<1>1. /\ up /\ row[j] # None /\ call' = [call EXCEPT ![c] = state]
      /\ automatic' \in {automatic, automatic \cup {j}} /\ commands' = commands + 1
      /\ commands < MaxCommands
      /\ UNCHANGED <<durable, control, lock, up, run, poller, submitted, deleted>>
  BY DEF ResumeConfigure, Issues
<1>2. j \in submitted /\ TaskWrites(j) /\ (TaskQuiet(j) => QuietAfter(j))
  BY <1>1, TracedIsSubmitted, TaskNoWrites
<1>3. automatic' \in SUBSET Jobs /\ lock' \in Callers \cup {None} /\ commands' \in 0..MaxCommands
  BY <1>1, BoundsAssumption DEF IInv, TypeOK
<1>4. state \in CallStates /\ state.pc = "resume_check" /\ state.job = j
  BY DEF CallStates, CallPoints
<1>5. \A d \in Callers \ {c} : Submitting(d) /\ call[d].job = j => TaskQuiet(j)
  BY DEF IInv, SubmissionIsQuiet, Quiet
<1> HIDE DEF state
<1>6. CallStep(c, j, state)
  BY <1>1, <1>2, <1>4, <1>5 DEF CallStep
<1> QED BY <1>1, <1>2, <1>3, <1>6, CallStepKeeps

\* A resume gets past its check only where no submission is under way.
LEMMA ResumeCheckKeeps ==
  ASSUME IInv, NEW c \in Callers, ResumeCheck(c)
  PROVE  IInv'
<1> DEFINE j == call[c].job
           state == [call[c] EXCEPT !.pc = "resume_lock"]
<1>1. call[c].pc = "resume_check" /\ UNCHANGED <<durable, memory, run, poller, bounds>>
  BY DEF ResumeCheck
<1>2. j \in Jobs /\ j \in submitted /\ TaskWrites(j) /\ (TaskQuiet(j) => QuietAfter(j)) /\ up
  BY <1>1, CallAtKnows, TaskNoWrites
<1>3. \A d \in Callers \ {c} : Submitting(d) /\ call[d].job = j => TaskQuiet(j)
  BY DEF IInv, SubmissionIsQuiet, Quiet
<1>4. automatic' \in SUBSET Jobs /\ lock' \in Callers \cup {None} /\ commands' \in 0..MaxCommands
  BY <1>1 DEF IInv, TypeOK
<1>5. CASE Leaves(c)
  <2> HIDE DEF j
  <2> QED BY <1>1, <1>2, <1>3, <1>5, ReturnKeeps
<1>6. CASE row[j] # None /\ row[j].status = "failed" /\ CallGoto(c, "resume_lock")
  <2>1. \A d \in Callers \ {c} : Submitting(d) => call[d].job # j
    BY <1>3, <1>6
  <2>2. call' = [call EXCEPT ![c] = state] /\ state \in CallStates
        /\ state.pc = "resume_lock" /\ state.job = j
    BY <1>1, <1>6, CallGotoState DEF CallPoints
  <2> HIDE DEF state, j
  <2>3. CallStep(c, j, state)
    BY <1>1, <1>2, <2>1, <2>2 DEF CallStep
  <2> QED BY <1>1, <1>2, <1>4, <2>3, CallStepKeeps
<1> QED BY <1>5, <1>6 DEF ResumeCheck

\* A resume requeues a held task in place, or goes on to reserve a control.
LEMMA ResumeLockKeeps ==
  ASSUME IInv, NEW c \in Callers, ResumeLock(c)
  PROVE  IInv'
<1> DEFINE j == call[c].job
<1>1. call[c].pc = "resume_lock" /\ lock = None
      /\ UNCHANGED <<row, control, automatic, up, run, poller, bounds>>
  BY DEF ResumeLock
<1>2. j \in Jobs /\ j \in submitted /\ up /\ TypeOK
  BY <1>1, CallAtKnows
<1>3. \A d \in Callers \ {c} : Submitting(d) => call[d].job # j
  BY <1>1, SubmissionIsAlone
<1>4. automatic' \in SUBSET Jobs /\ commands' \in 0..MaxCommands
  BY <1>1 DEF IInv, TypeOK
<1>5. CASE Leaves(c) /\ UNCHANGED <<dir, newer, lock>>
  <2>1. TaskWrites(j)
    BY <1>1, <1>2, <1>5, TaskNoWrites
  <2> HIDE DEF j
  <2> QED BY <1>1, <1>2, <1>3, <1>5, <2>1, ReturnKeeps
<1>6. CASE /\ control[j] # None /\ Loadable(j) /\ WriteStatus(j, "queued")
           /\ lock' = c /\ CallGoto(c, "unhold")
  <2> DEFINE state == [call[c] EXCEPT !.pc = "unhold"]
  <2>1. TaskWrites(j)
    BY <1>1, <1>2, <1>6, TaskStatusWrites DEF Statuses
  <2>2. call' = [call EXCEPT ![c] = state] /\ state \in CallStates
        /\ state.pc = "unhold" /\ state.job = j
    BY <1>1, <1>6, CallGotoState DEF CallPoints
  <2> HIDE DEF state, j
  <2>3. CallStep(c, j, state)
    BY <1>1, <1>2, <1>3, <1>6, <2>2 DEF CallStep
  <2> QED BY <1>1, <1>2, <1>4, <1>6, <2>1, <2>3, CallStepKeeps
<1>7. CASE Loadable(j) /\ CallEnters(c, "reserve", j, dir[j].manifest) /\ UNCHANGED <<dir, newer, lock>>
  <2> DEFINE manifest == dir[j].manifest
             state == [pc |-> "reserve", job |-> j, kept |-> manifest]
  <2>1. TaskWrites(j)
    BY <1>1, <1>2, <1>7, TaskNoWrites
  <2>2. manifest \in Manifests
    BY <1>2, <1>7 DEF TypeOK, Directories, Loadable
  <2>3. call' = [call EXCEPT ![c] = state]
    BY <1>7
  <2> HIDE DEF manifest
  <2>4. state \in CallStates /\ state.pc = "reserve" /\ state.job = j /\ state.kept = manifest
    BY <1>2, <2>2 DEF CallStates, CallPoints
  <2> HIDE DEF state, j
  <2>5. CallStep(c, j, state)
    BY <1>1, <1>2, <1>3, <1>7, <2>2, <2>3, <2>4 DEF CallStep
  <2>6. lock' \in Callers \cup {None}
    BY <1>7, <1>1
  <2> QED BY <1>1, <1>2, <1>4, <2>1, <2>5, <2>6, CallStepKeeps
<1> QED BY <1>5, <1>6, <1>7 DEF ResumeLock

\* The manifest a resume has read goes back as queued.
LEMMA RequeueKeeps ==
  ASSUME IInv, NEW c \in Callers, Requeue(c)
  PROVE  IInv'
<1> DEFINE j     == call[c].job
           m     == [call[c].kept EXCEPT !.status = "queued"]
           state == [call[c] EXCEPT !.pc = "requeue_sync"]
<1>1. call[c].pc = "requeue" /\ WriteManifest(j, m) /\ CallGoto(c, "requeue_sync")
      /\ UNCHANGED <<row, memory, run, poller, bounds>>
  BY DEF Requeue
<1>2. j \in Jobs /\ j \in submitted /\ up /\ call[c].kept \in Manifests
  BY <1>1, CallAtKnows
<1>3. m \in Manifests
  BY <1>2 DEF Manifests, Statuses
<1>4. TaskWrites(j)
  BY <1>1, <1>2, <1>3, TaskManifestWrites
<1>5. \A d \in Callers \ {c} : Submitting(d) => call[d].job # j
  BY <1>1, SubmissionIsAlone
<1>6. automatic' \in SUBSET Jobs /\ lock' \in Callers \cup {None} /\ commands' \in 0..MaxCommands
  BY <1>1 DEF IInv, TypeOK
<1>7. call' = [call EXCEPT ![c] = state] /\ state \in CallStates
      /\ state.pc = "requeue_sync" /\ state.job = j /\ state.kept \in Manifests
  BY <1>1, <1>2, CallGotoState DEF CallPoints
<1>8. Dispatching(c)
  BY <1>1 DEF Dispatching
<1> HIDE DEF state, j
<1>9. CallStep(c, j, state)
  BY <1>1, <1>2, <1>5, <1>7, <1>8 DEF CallStep, j
<1> QED BY <1>1, <1>2, <1>4, <1>6, <1>9, CallStepKeeps

\* A task that has been deleted loses its control: nothing is claimed of it, and
\* no call under the lock works on it.
LEMMA ForgetKeeps ==
  ASSUME IInv, NEW c \in Callers, NEW j \in Jobs, j \in deleted, j \in submitted, lock = None,
         control' = [control EXCEPT ![j] = None],
         call' = [call EXCEPT ![c] = NoCall] \/ call' = [Released(j) EXCEPT ![c] = NoCall],
         UNCHANGED <<durable, automatic, lock, up, run, poller, bounds>>
  PROVE  IInv'
<1> USE DEF IInv
<1>1. /\ NoCall \in CallStates /\ NoCall.pc = "none" /\ NoCall.job = None
  BY DEF NoCall, CallStates, CallPoints
<1>2. /\ control' \in [Jobs -> Controls \cup {None}] /\ control'[j] = None
      /\ \A k \in Jobs \ {j} : control'[k] = control[k]
  BY DEF TypeOK
<1>3. /\ call' \in [Callers -> CallStates]
      /\ \A d \in Callers : call'[d] = call[d] \/ call'[d] = NoCall
  BY <1>1 DEF TypeOK, Released
<1>4. TypeOK'
  BY <1>2, <1>3 DEF TypeOK
<1>5. RunShape'
  BY DEF RunShape
<1>6. CallShape'
  BY <1>1, <1>3, NoneAssumption DEF CallShape
<1>7. DownIsIdle' /\ Untouched' /\ Kept'
  BY <1>1, <1>2, <1>3, NoneAssumption DEF DownIsIdle, Untouched, Kept
<1>8. \A d \in Callers : Dispatching(d)' => Dispatching(d) /\ call'[d] = call[d]
  BY <1>1, <1>3 DEF Dispatching
<1>9. Controlled'
  BY <1>2, <1>8 DEF Controlled
<1>10. OneDispatch'
  BY <1>8 DEF OneDispatch
<1>11. SubmissionIsQuiet'
  <2> SUFFICES ASSUME NEW d \in Callers, Submitting(d)'
               PROVE  Quiet(d)'
    BY DEF SubmissionIsQuiet
  <2>1. Submitting(d) /\ call'[d] = call[d] /\ Quiet(d) /\ call[d].job \in Jobs
    BY <1>1, <1>3 DEF Submitting, SubmissionIsQuiet, CallShape
  <2> QED BY <1>1, <1>2, <1>3, <2>1, NoneAssumption DEF Quiet
<1> QED BY <1>4, <1>5, <1>6, <1>7, <1>9, <1>10, <1>11

\* A requeued task is published, or its control is taken back.
LEMMA RequeueSyncKeeps ==
  ASSUME IInv, NEW c \in Callers, RequeueSync(c)
  PROVE  IInv'
<1> DEFINE j     == call[c].job
           state == [call[c] EXCEPT !.pc = "enqueue"]
<1>1. call[c].pc = "requeue_sync" /\ UNCHANGED <<dir, automatic, lock, up, run, poller, bounds>>
  BY DEF RequeueSync
<1>2. j \in Jobs /\ j \in submitted /\ up /\ call[c].kept \in Manifests /\ TypeOK /\ Dispatching(c)
  BY <1>1, CallAtKnows DEF Dispatching
<1>3. CASE Loadable(j) /\ SyncRow(j, Snapshot(j)) /\ CallGoto(c, "enqueue") /\ UNCHANGED control
  <2>1. TaskWrites(j)
    BY <1>1, <1>2, <1>3, SnapshotType, TaskRowWrites
  <2>2. \A d \in Callers \ {c} : Submitting(d) => call[d].job # j
    BY <1>1, SubmissionIsAlone
  <2>3. automatic' \in SUBSET Jobs /\ lock' \in Callers \cup {None} /\ commands' \in 0..MaxCommands
    BY <1>1 DEF IInv, TypeOK
  <2>4. call' = [call EXCEPT ![c] = state] /\ state \in CallStates
        /\ state.pc = "enqueue" /\ state.job = j /\ state.kept \in Manifests
    BY <1>1, <1>2, <1>3, CallGotoState DEF CallPoints
  <2>5. ~ Submits(state)
    BY <2>4, ManifestsAreNoSnapshots
  <2> HIDE DEF state
  <2>6. CallStep(c, j, state)
    BY <1>1, <1>2, <2>2, <2>4, <2>5 DEF CallStep
  <2> HIDE DEF j
  <2> QED BY <1>1, <1>2, <1>3, <2>1, <2>3, <2>6, CallStepKeeps
<1>4. CASE ~ Loadable(j) /\ lock = None /\ control' = [control EXCEPT ![j] = None] /\ Leaves(c)
           /\ UNCHANGED <<row, newer>>
  <2>1. j \in deleted
    BY <1>2, <1>4 DEF IInv, Kept, Loadable
  <2> HIDE DEF j
  <2> QED BY <1>1, <1>2, <1>4, <2>1, ForgetKeeps
<1> QED BY <1>3, <1>4 DEF RequeueSync

\* A resume returns, or takes the control of a deleted task back.
LEMMA ReturnResumedKeeps ==
  ASSUME IInv, NEW c \in Callers, ReturnResumed(c)
  PROVE  IInv'
<1> DEFINE j == call[c].job
<1>1. call[c].pc = "sent" /\ UNCHANGED <<durable, automatic, lock, up, run, poller, bounds>>
  BY DEF ReturnResumed
<1>2. j \in Jobs /\ j \in submitted
  BY <1>1, CallAtKnows
<1>3. CASE Leaves(c) /\ UNCHANGED control
  <2>1. TaskWrites(j)
    BY <1>1, <1>2, TaskNoWrites
  <2>2. \A d \in Callers \ {c} : Submitting(d) => call[d].job # j
    BY <1>1, SubmissionIsAlone
  <2> HIDE DEF j
  <2> QED BY <1>1, <1>2, <1>3, <2>1, <2>2, ReturnKeeps
<1>4. CASE ~ Loadable(j) /\ lock = None /\ control' = [control EXCEPT ![j] = None]
           /\ call' = [Released(j) EXCEPT ![c] = NoCall]
  <2>1. j \in deleted
    BY <1>2, <1>4 DEF IInv, Kept, Loadable
  <2> HIDE DEF j
  <2> QED BY <1>1, <1>2, <1>4, <2>1, ForgetKeeps
<1> QED BY <1>3, <1>4 DEF ReturnResumed

\* What a refresh reads of a task being submitted says queued.
LEMMA RefreshLoadKeeps ==
  ASSUME IInv, NEW c \in Callers, NEW j \in Jobs, RefreshLoad(c, j)
  PROVE  IInv'
<1> DEFINE snapshot == Snapshot(j)
           state == [pc |-> "refresh_sync", job |-> j, kept |-> snapshot]
<1>1. /\ up /\ row[j] # None /\ Loadable(j) /\ call' = [call EXCEPT ![c] = state]
      /\ commands' = commands + 1 /\ commands < MaxCommands
      /\ UNCHANGED <<durable, memory, run, poller, submitted, deleted>>
  BY DEF RefreshLoad, Issues
<1>2. j \in submitted /\ TaskWrites(j) /\ (TaskQuiet(j) => QuietAfter(j))
  BY <1>1, TracedIsSubmitted, TaskNoWrites
<1>3. automatic' \in SUBSET Jobs /\ lock' \in Callers \cup {None} /\ commands' \in 0..MaxCommands
  BY <1>1, BoundsAssumption DEF IInv, TypeOK
<1>4. snapshot \in Snapshots /\ snapshot.manifest = dir[j].manifest /\ dir[j].manifest # None
  BY <1>1, SnapshotType DEF IInv, Snapshot, Loadable
<1> HIDE DEF snapshot
<1>5. state \in CallStates /\ state.pc = "refresh_sync" /\ state.job = j /\ state.kept = snapshot
  BY <1>4 DEF CallStates, CallPoints
<1>6. \A d \in Callers \ {c} : Submitting(d) /\ call[d].job = j => TaskQuiet(j)
  BY DEF IInv, SubmissionIsQuiet, Quiet
<1> HIDE DEF state
<1>7. CallStep(c, j, state)
  BY <1>1, <1>2, <1>4, <1>5, <1>6 DEF CallStep
<1> QED BY <1>1, <1>2, <1>3, <1>7, CallStepKeeps

\* Hence what it publishes of such a task, however late, says queued.
LEMMA RefreshSyncKeeps ==
  ASSUME IInv, NEW c \in Callers, RefreshSync(c)
  PROVE  IInv'
<1> DEFINE j == call[c].job
<1>1. call[c].pc = "refresh_sync" /\ SyncRow(j, call[c].kept) /\ Leaves(c)
      /\ UNCHANGED <<dir, memory, run, poller, bounds>>
  BY DEF RefreshSync
<1>2. j \in Jobs /\ j \in submitted /\ call[c].kept \in Snapshots
  BY <1>1, CallAtKnows
<1>3. TaskWrites(j) /\ row'[j].status = call[c].kept.manifest.status
  BY <1>1, <1>2, TaskRowWrites
<1>4. \A d \in Callers \ {c} : Submitting(d) /\ call[d].job = j =>
        TaskQuiet(j) /\ call[c].kept.manifest.status = "queued"
  BY <1>1, SubmissionIsAlone DEF IInv, SubmissionIsQuiet, Quiet
<1>5. \A d \in Callers \ {c} : Submitting(d) /\ call[d].job = j => QuietAfter(j)
  BY <1>1, <1>3, <1>4
<1> HIDE DEF j
<1> QED BY <1>1, <1>2, <1>3, <1>5, ReturnKeeps

\* Relinking changes no status in the manifest ...
LEMMA RelinkManifestKeeps ==
  ASSUME IInv, NEW c \in Callers, NEW j \in Jobs, RelinkManifest(c, j)
  PROVE  IInv'
<1> DEFINE m     == [dir[j].manifest EXCEPT !.input = "relinked"]
           state == [pc |-> "relink_row", job |-> j, kept |-> None]
<1>1. /\ up /\ row[j] # None /\ Loadable(j) /\ WriteManifest(j, m)
      /\ call' = [call EXCEPT ![c] = state] /\ commands' = commands + 1 /\ commands < MaxCommands
      /\ UNCHANGED <<row, memory, run, poller, submitted, deleted>>
  BY DEF RelinkManifest, Issues
<1>2. j \in submitted
  BY <1>1, TracedIsSubmitted
<1>3. m \in Manifests /\ m.status = dir[j].manifest.status /\ dir[j].manifest # None
  BY <1>1 DEF IInv, TypeOK, Loadable, Directories, Manifests
<1> HIDE DEF m
<1>4. TaskWrites(j) /\ dir'[j].manifest = m
  BY <1>1, <1>3, TaskManifestWrites
<1>5. automatic' \in SUBSET Jobs /\ lock' \in Callers \cup {None} /\ commands' \in 0..MaxCommands
  BY <1>1, BoundsAssumption DEF IInv, TypeOK
<1>6. state \in CallStates /\ state.pc = "relink_row" /\ state.job = j
  BY DEF CallStates, CallPoints
<1>7. \A d \in Callers \ {c} : Submitting(d) /\ call[d].job = j => TaskQuiet(j)
  BY DEF IInv, SubmissionIsQuiet, Quiet
<1> HIDE DEF state
<1>8. CallStep(c, j, state)
  BY <1>1, <1>2, <1>3, <1>4, <1>6, <1>7 DEF CallStep
<1> QED BY <1>1, <1>2, <1>4, <1>5, <1>8, CallStepKeeps

\* ... and none in the row.
LEMMA RelinkRowKeeps ==
  ASSUME IInv, NEW c \in Callers, RelinkRow(c)
  PROVE  IInv'
<1> DEFINE j   == call[c].job
           new == [row[j] EXCEPT !.input = "relinked"]
<1>1. call[c].pc = "relink_row" /\ Leaves(c) /\ UNCHANGED <<dir, newer, memory, run, poller, bounds>>
  BY DEF RelinkRow
<1>2. j \in Jobs /\ j \in submitted /\ TypeOK
  BY <1>1, CallAtKnows
<1>3. \A d \in Callers \ {c} : Submitting(d) /\ call[d].job = j => TaskQuiet(j)
  BY DEF IInv, SubmissionIsQuiet, Quiet
<1>4. CASE row[j] = None /\ UNCHANGED row
  <2>1. TaskWrites(j) /\ (TaskQuiet(j) => QuietAfter(j))
    BY <1>1, <1>2, <1>4, TaskNoWrites
  <2> HIDE DEF j
  <2> QED BY <1>1, <1>2, <1>3, <2>1, ReturnKeeps
<1>5. CASE row[j] # None /\ row' = [row EXCEPT ![j].input = "relinked"]
  <2>1. new \in Rows /\ new.status = row[j].status /\ row' = [row EXCEPT ![j] = new]
    BY <1>2, <1>5 DEF TypeOK, Rows
  <2> HIDE DEF new
  <2>2. TaskWrites(j) /\ row'[j] = new
    BY <1>1, <1>2, <2>1 DEF TypeOK, TaskWrites
  <2>3. \A d \in Callers \ {c} : Submitting(d) /\ call[d].job = j => QuietAfter(j)
    BY <1>1, <1>3, <1>5, <2>1, <2>2
  <2> HIDE DEF j
  <2> QED BY <1>1, <1>2, <2>2, <2>3, ReturnKeeps
<1> QED BY <1>4, <1>5 DEF RelinkRow

\* A settled row belongs to no submission under way.
LEMMA DeleteCheckKeeps ==
  ASSUME IInv, NEW c \in Callers, NEW j \in Jobs, DeleteCheck(c, j)
  PROVE  IInv'
<1> DEFINE state == [pc |-> "delete_move", job |-> j, kept |-> None]
<1>1. /\ up /\ row[j] # None /\ row[j].status \in Terminal /\ call' = [call EXCEPT ![c] = state]
      /\ commands' = commands + 1 /\ commands < MaxCommands
      /\ UNCHANGED <<durable, memory, run, poller, submitted, deleted>>
  BY DEF DeleteCheck, Issues
<1>2. j \in submitted /\ TaskWrites(j)
  BY <1>1, TracedIsSubmitted, TaskNoWrites
<1>3. automatic' \in SUBSET Jobs /\ lock' \in Callers \cup {None} /\ commands' \in 0..MaxCommands
  BY <1>1, BoundsAssumption DEF IInv, TypeOK
<1>4. state \in CallStates /\ state.pc = "delete_move" /\ state.job = j
  BY DEF CallStates, CallPoints
<1>5. \A d \in Callers \ {c} : Submitting(d) => call[d].job # j
  BY <1>1 DEF IInv, SubmissionIsQuiet, Quiet, Terminal
<1> HIDE DEF state
<1>6. CallStep(c, j, state)
  BY <1>1, <1>2, <1>4, <1>5 DEF CallStep
<1> QED BY <1>1, <1>2, <1>3, <1>6, CallStepKeeps

\* The end of a deletion concerns a task nothing is claimed of any more.
LEMMA DeleteRowKeeps ==
  ASSUME IInv, NEW c \in Callers, DeleteRow(c)
  PROVE  IInv'
<1> DEFINE j    == call[c].job
           kept == call[c].kept
<1>1. call[c].pc = "delete_row" /\ Leaves(c) /\ UNCHANGED <<memory, run, poller, bounds>>
  BY DEF DeleteRow
<1>2. j \in Jobs /\ j \in submitted /\ kept \in Directories /\ TypeOK
  BY <1>1, CallAtKnows
<1>3. \A d \in Callers \ {c} : Submitting(d) => call[d].job # j
  BY <1>1, SubmissionIsAlone
<1>4. TaskWrites(j)
  <2>1. CASE /\ row' = [row EXCEPT ![j] = None] /\ newer' = [newer EXCEPT ![j] = FALSE]
             /\ UNCHANGED dir
    BY <1>2, <2>1 DEF TypeOK, TaskWrites
  <2>2. CASE ~ dir[j].exists /\ dir' = [dir EXCEPT ![j] = kept] /\ UNCHANGED <<row, newer>>
    <3> HIDE DEF kept
    <3> QED BY <1>2, <2>2 DEF TypeOK, TaskWrites
  <2>3. CASE UNCHANGED durable
    BY <1>2, <2>3, TaskNoWrites
  <2> QED BY <2>1, <2>2, <2>3 DEF DeleteRow
<1> HIDE DEF j
<1> QED BY <1>1, <1>2, <1>3, <1>4, ReturnKeeps

\* From here on nothing is claimed of the task.
LEMMA DeleteMoveKeeps ==
  ASSUME IInv, NEW c \in Callers, DeleteMove(c)
  PROVE  IInv'
<1> USE DEF IInv
<1> DEFINE j     == call[c].job
           task  == dir[j]
           state == [pc |-> "delete_row", job |-> j, kept |-> task]
<1>1. /\ call[c].pc = "delete_move" /\ dir' = [dir EXCEPT ![j] = Absent]
      /\ call' = [call EXCEPT ![c] = state] /\ deleted' = deleted \cup {j}
      /\ UNCHANGED <<row, newer, memory, run, poller, submitted, commands>>
  BY DEF DeleteMove
<1>2. j \in Jobs /\ j \in submitted /\ task \in Directories /\ up
  BY <1>1, CallAtKnows DEF TypeOK
<1> HIDE DEF task
<1>3. state \in CallStates /\ state.pc = "delete_row" /\ state.job = j /\ state.kept = task
  BY <1>2 DEF CallStates, CallPoints
<1> HIDE DEF state
<1>4. call' \in [Callers -> CallStates] /\ call'[c] = state
      /\ \A d \in Callers \ {c} : call'[d] = call[d]
  BY <1>1, <1>3 DEF TypeOK
<1>5. Absent \in Directories
  BY DEF Absent, Directories
<1>6. dir' \in [Jobs -> Directories] /\ \A k \in Jobs \ {j} : dir'[k] = dir[k]
  BY <1>1, <1>5 DEF TypeOK
<1>7. TypeOK'
  BY <1>1, <1>2, <1>4, <1>6 DEF TypeOK
<1>8. RunShape'
  BY <1>1 DEF RunShape
<1>9. CallShape'
  BY <1>1, <1>2, <1>3, <1>4 DEF CallShape
<1>10. DownIsIdle'
  BY <1>1, <1>2, <1>4 DEF DownIsIdle
<1>11. Untouched'
  BY <1>1, <1>2, <1>3, <1>4, <1>6 DEF Untouched
<1>12. Kept'
  <2>1. submitted \subseteq Jobs
    BY DEF TypeOK
  <2> QED BY <1>1, <1>6, <2>1 DEF Kept
<1>13. \A d \in Callers : Dispatching(d)' => Dispatching(d) /\ call'[d] = call[d]
  BY <1>3, <1>4 DEF Dispatching
<1>14. Controlled'
  BY <1>1, <1>13 DEF Controlled
<1>15. OneDispatch'
  BY <1>1, <1>13 DEF OneDispatch
<1>16. SubmissionIsQuiet'
  <2> SUFFICES ASSUME NEW d \in Callers, Submitting(d)'
               PROVE  Quiet(d)'
    BY DEF SubmissionIsQuiet
  <2>1. d # c /\ Submitting(d) /\ call'[d] = call[d] /\ Quiet(d) /\ call[d].job \in Jobs
    BY <1>3, <1>4 DEF Submitting, SubmissionIsQuiet, CallShape
  <2>2. call[d].job # j
    BY <1>1, <2>1, SubmissionIsAlone
  <2>3. \A e \in Callers \ {d} : call'[e].job = call[d].job => LooksOn(call'[e])
    BY <1>3, <1>4, <2>1, <2>2 DEF Quiet
  <2> QED BY <1>1, <1>6, <2>1, <2>2, <2>3 DEF Quiet
<1> QED BY <1>7, <1>8, <1>9, <1>10, <1>11, <1>12, <1>14, <1>15, <1>16

\* A new task: nobody has anything of it yet.
LEMMA CreateKeeps ==
  ASSUME IInv, NEW c \in Callers, NEW j \in Jobs, NEW input \in {"original", "relinked"},
         up, Create(c, j, input), commands' \in 0..MaxCommands
  PROVE  IInv'
<1> USE DEF IInv
<1> DEFINE m     == [status |-> "queued", input |-> input]
           first == [manifest |-> m, cues |-> FALSE]
           state == [pc |-> "submit_sync", job |-> j, kept |-> first]
<1>1. /\ j \notin submitted /\ submitted' = submitted \cup {j} /\ WriteManifest(j, m)
      /\ call' = [call EXCEPT ![c] = state]
      /\ UNCHANGED <<row, memory, run, poller, deleted>>
  BY DEF Create
<1>2. m \in Manifests /\ m.status = "queued" /\ m # None
  BY NoneAssumption DEF Manifests, Statuses
<1> HIDE DEF m
<1>3. first \in Snapshots /\ first.manifest = m
  BY <1>2 DEF Snapshots
<1> HIDE DEF first
<1>4. state \in CallStates /\ state.pc = "submit_sync" /\ state.job = j /\ state.kept = first
  BY <1>3 DEF CallStates, CallPoints
<1> HIDE DEF state
<1>5. call' \in [Callers -> CallStates] /\ call'[c] = state
      /\ \A d \in Callers \ {c} : call'[d] = call[d]
  BY <1>1, <1>4 DEF TypeOK
<1>6. /\ dir' \in [Jobs -> Directories] /\ newer' \in [Jobs -> BOOLEAN]
      /\ dir'[j].exists /\ dir'[j].manifest = m
      /\ \A k \in Jobs \ {j} : dir'[k] = dir[k]
  BY <1>1, <1>2, WriteManifestKeeps
<1>7. /\ row[j] = None /\ control[j] = None /\ j \notin deleted
      /\ \A d \in Callers : call[d].job # j
      /\ \A r \in Runs : run[r].job # j
  BY <1>1 DEF Untouched
<1>8. TypeOK'
  BY <1>1, <1>5, <1>6 DEF TypeOK
<1>9. RunShape'
  BY <1>1 DEF RunShape
<1>10. CallShape'
  BY <1>1, <1>3, <1>4, <1>5 DEF CallShape
<1>11. DownIsIdle'
  BY <1>1 DEF DownIsIdle
<1>12. Untouched'
  BY <1>1, <1>4, <1>5, <1>6 DEF Untouched
<1>13. Kept'
  <2>1. submitted \subseteq Jobs
    BY DEF TypeOK
  <2> QED BY <1>1, <1>2, <1>6, <2>1 DEF Kept
<1>14. \A d \in Callers : Dispatching(d)' => Dispatching(d) /\ call'[d] = call[d]
  BY <1>3, <1>4, <1>5 DEF Dispatching
<1>15. Controlled'
  BY <1>1, <1>14 DEF Controlled
<1>16. OneDispatch'
  BY <1>1, <1>14 DEF OneDispatch
<1>17. SubmissionIsQuiet'
  <2> SUFFICES ASSUME NEW d \in Callers, Submitting(d)'
               PROVE  Quiet(d)'
    BY DEF SubmissionIsQuiet
  <2>1. CASE d = c
    BY <1>1, <1>2, <1>3, <1>4, <1>5, <1>6, <1>7, <2>1 DEF Quiet
  <2>2. CASE d # c
    <3>1. Submitting(d) /\ call'[d] = call[d] /\ Quiet(d) /\ call[d].job \in Jobs
      BY <1>5, <2>2 DEF Submitting, SubmissionIsQuiet, CallShape
    <3>2. \A e \in Callers \ {d} : call'[e].job = call[d].job => LooksOn(call'[e])
      BY <1>4, <1>5, <1>7, <3>1 DEF Quiet
    <3> QED BY <1>1, <1>6, <1>7, <3>1, <3>2 DEF Quiet
  <2> QED BY <2>1, <2>2
<1> QED BY <1>8, <1>9, <1>10, <1>11, <1>12, <1>13, <1>15, <1>16, <1>17

\* A submission creates its task.
LEMMA SubmitCreateKeeps ==
  ASSUME IInv, NEW c \in Callers, NEW j \in Jobs, SubmitCreate(c, j)
  PROVE  IInv'
<1>1. up /\ Create(c, j, "original") /\ commands' \in 0..MaxCommands
  BY BoundsAssumption DEF SubmitCreate, Issues, IInv, TypeOK
<1> QED BY <1>1, CreateKeeps

\* A retry creates a task with the media path of another.
LEMMA RetryCreateKeeps ==
  ASSUME IInv, NEW c \in Callers, NEW j \in Jobs, RetryCreate(c, j)
  PROVE  IInv'
<1>1. PICK k \in Jobs : Loadable(k) /\ Create(c, j, dir[k].manifest.input)
  BY DEF RetryCreate
<1>2. up /\ commands' \in 0..MaxCommands
  BY BoundsAssumption DEF RetryCreate, Issues, IInv, TypeOK
<1>3. dir[k].manifest.input \in {"original", "relinked"}
  BY <1>1 DEF Loadable, IInv, TypeOK, Directories, Manifests
<1> DEFINE input == dir[k].manifest.input
<1> HIDE DEF input
<1>4. input \in {"original", "relinked"} /\ Create(c, j, input)
  BY <1>1, <1>3 DEF input
<1> QED BY <1>2, <1>4, CreateKeeps

\* A call registers the control of its task, or finds the one it registered.
LEMMA RegisterKeeps ==
  ASSUME IInv, NEW c \in Callers, NEW j \in Jobs, NEW state, j \in submitted, lock = None, up,
         call[c].job = j, ~ LooksOn(call[c]),
         call' = [call EXCEPT ![c] = state], state \in CallStates, Fits(state),
         state.pc \in {"requeue", "send"}, state.job = j,
         control' = [control EXCEPT ![j] = IF @ = None THEN NewControl ELSE @],
         j \notin deleted => control[j] = None \/ Dispatching(c),
         TaskWrites(j), UNCHANGED <<automatic, lock, up, run, poller, bounds>>
  PROVE  IInv'
<1> USE DEF IInv
<1>1. call' \in [Callers -> CallStates] /\ call'[c] = state
      /\ \A d \in Callers \ {c} : call'[d] = call[d]
  BY DEF TypeOK
<1>2. NewControl \in Controls /\ NewControl # None
  <2>1. NewControl \in Controls
    BY DEF NewControl, Controls
  <2> QED BY <2>1, NoneAssumption
<1>3. /\ control' \in [Jobs -> Controls \cup {None}] /\ control'[j] # None
      /\ control[j] # None => control' = control
      /\ \A k \in Jobs \ {j} : control'[k] = control[k]
  BY <1>2 DEF TypeOK
<1>4. TypeOK'
  BY <1>1, <1>3 DEF TypeOK, TaskWrites
<1>5. RunShape'
  BY DEF RunShape
<1>6. CallShape'
  BY <1>1, NoneAssumption DEF CallShape
<1>7. DownIsIdle'
  BY <1>1 DEF DownIsIdle
<1>8. Untouched'
  BY <1>1, <1>3 DEF Untouched, TaskWrites
<1>9. Kept'
  <2>1. submitted \subseteq Jobs
    BY DEF TypeOK
  <2> QED BY <2>1 DEF Kept, TaskWrites
<1>10. \A d \in Callers \ {c} : Dispatching(d)' => Dispatching(d) /\ call'[d] = call[d]
  BY <1>1 DEF Dispatching
<1>11. j \notin deleted => \A d \in Callers \ {c} : call[d].job = j => ~ Dispatching(d)
  BY DEF Controlled, OneDispatch
<1>12. j \notin deleted => \A r \in Runs : run[r].job # j
  BY DEF Controlled, OneDispatch
<1>13. Controlled'
  BY <1>1, <1>3, <1>10, <1>12 DEF Controlled
<1>14. OneDispatch'
  <2> SUFFICES ASSUME NEW k \in Jobs \ deleted
               PROVE  /\ \A d, e \in Callers : call'[d].job = k /\ Dispatching(d)' /\ call'[e].job = k
                            /\ Dispatching(e)' => d = e
                      /\ \A d \in Callers, r \in Runs : call'[d].job = k /\ Dispatching(d)' => run'[r].job # k
                      /\ \A r, s \in Runs : run'[r].job = k /\ run'[s].job = k => r = s
    BY DEF OneDispatch
  <2>1. CASE k = j
    BY <1>1, <1>10, <1>11, <1>12, <2>1
  <2>2. CASE k # j
    BY <1>1, <1>10, <2>2 DEF OneDispatch
  <2> QED BY <2>1, <2>2
<1>15. SubmissionIsQuiet'
  <2> SUFFICES ASSUME NEW d \in Callers, Submitting(d)'
               PROVE  Quiet(d)'
    BY DEF SubmissionIsQuiet
  <2>1. CASE d = c
    BY <1>1, <2>1 DEF Submitting
  <2>2. CASE d # c
    <3>1. Submitting(d) /\ call'[d] = call[d] /\ Quiet(d) /\ call[d].job \in Jobs
      BY <1>1, <2>2 DEF Submitting, SubmissionIsQuiet, CallShape
    <3>2. call[d].job # j
      BY <2>2, <3>1, SubmissionIsAlone
    <3>3. \A e \in Callers \ {d} : call'[e].job = call[d].job => LooksOn(call'[e])
      BY <1>1, <3>1, <3>2 DEF Quiet
    <3> QED BY <1>3, <3>1, <3>2, <3>3 DEF Quiet, TaskWrites
  <2> QED BY <2>1, <2>2
<1> QED BY <1>4, <1>5, <1>6, <1>7, <1>8, <1>9, <1>13, <1>14, <1>15

\* Enqueue registers the control of a submission, and finds that of a resume.
LEMMA EnqueueKeeps ==
  ASSUME IInv, NEW c \in Callers, Enqueue(c)
  PROVE  IInv'
<1> DEFINE j     == call[c].job
           task  == [dir[j] EXCEPT !.exists = TRUE, !.files = @ \cup {"workflow"}]
           state == [call[c] EXCEPT !.pc = "send"]
<1>1. /\ call[c].pc = "enqueue" /\ lock = None /\ CallGoto(c, "send")
      /\ control' = [control EXCEPT ![j] = IF @ = None THEN NewControl ELSE @]
      /\ UNCHANGED <<row, newer, automatic, lock, up, run, poller, bounds>>
  BY DEF Enqueue
<1>2. j \in Jobs /\ j \in submitted /\ up /\ TypeOK /\ call[c].kept \in Manifests \cup Snapshots
  BY <1>1, CallAtKnows
<1>3. TaskWrites(j)
  <2>1. dir[j] \in Directories
    BY <1>2 DEF TypeOK
  <2>2. dir[j].files \cup {"workflow"} \in SUBSET Files
    BY <2>1 DEF Directories, Files
  <2>3. task \in Directories /\ task.exists /\ task.manifest = dir[j].manifest
    BY <2>1, <2>2 DEF Directories
  <2>4. dir' = [dir EXCEPT ![j] = task]
    BY <1>2, <2>1 DEF Enqueue, TypeOK, Directories
  <2> HIDE DEF task
  <2> QED BY <1>1, <1>2, <2>3, <2>4 DEF TypeOK, TaskWrites
<1>4. call' = [call EXCEPT ![c] = state] /\ state \in CallStates
      /\ state.pc = "send" /\ state.job = j /\ state.kept = call[c].kept
  BY <1>1, CallGotoState DEF CallPoints
<1>5. control[j] = None \/ Dispatching(c)
  <2>1. CASE call[c].kept \in Snapshots
    BY <1>1, <2>1 DEF IInv, SubmissionIsQuiet, Submitting, Quiet
  <2>2. CASE call[c].kept \in Manifests
    BY <1>1, <2>2 DEF Dispatching
  <2> QED BY <1>2, <2>1, <2>2
<1> HIDE DEF state, j
<1>6. call[c].job = j /\ ~ LooksOn(call[c]) /\ Fits(state)
  BY <1>1, <1>2, <1>4 DEF j
<1> QED BY <1>1, <1>2, <1>3, <1>4, <1>5, <1>6, RegisterKeeps

\* A resume registers a control where there is none, or returns.
LEMMA ReserveKeeps ==
  ASSUME IInv, NEW c \in Callers, Reserve(c)
  PROVE  IInv'
<1> DEFINE j     == call[c].job
           state == [call[c] EXCEPT !.pc = "requeue"]
<1>1. call[c].pc = "reserve" /\ lock = None
      /\ UNCHANGED <<durable, automatic, lock, up, run, poller, bounds>>
  BY DEF Reserve
<1>2. j \in Jobs /\ j \in submitted /\ up /\ TypeOK /\ call[c].kept \in Manifests
  BY <1>1, CallAtKnows
<1>3. TaskWrites(j)
  BY <1>1, <1>2, TaskNoWrites
<1>4. CASE Leaves(c) /\ UNCHANGED control
  <2>1. \A d \in Callers \ {c} : Submitting(d) => call[d].job # j
    BY <1>1, SubmissionIsAlone
  <2> HIDE DEF j
  <2> QED BY <1>1, <1>2, <1>3, <1>4, <2>1, ReturnKeeps
<1>5. CASE control[j] = None /\ control' = [control EXCEPT ![j] = NewControl] /\ CallGoto(c, "requeue")
  <2>1. call' = [call EXCEPT ![c] = state] /\ state \in CallStates
        /\ state.pc = "requeue" /\ state.job = j /\ state.kept = call[c].kept
    BY <1>1, <1>5, CallGotoState DEF CallPoints
  <2>2. control' = [control EXCEPT ![j] = IF @ = None THEN NewControl ELSE @]
    BY <1>2, <1>5 DEF TypeOK
  <2> HIDE DEF state, j
  <2>3. call[c].job = j /\ ~ LooksOn(call[c]) /\ Fits(state)
    BY <1>1, <1>2, <2>1 DEF j
  <2> QED BY <1>1, <1>2, <1>3, <1>5, <2>1, <2>2, <2>3, RegisterKeeps
<1> QED BY <1>4, <1>5 DEF Reserve

\* The dispatch: a call hands its task over to a run.
LEMMA SendKeeps ==
  ASSUME IInv, NEW c \in Callers, Send(c)
  PROVE  IInv'
<1> USE DEF IInv
<1> DEFINE j       == call[c].job
           resumed == call[c].kept \in Manifests
           input   == IF resumed THEN call[c].kept.input ELSE call[c].kept.manifest.input
           on      == [NoRun EXCEPT !.pc = "sent", !.job = j, !.input = input]
           state   == IF resumed THEN [call[c] EXCEPT !.pc = "sent"] ELSE NoCall
<1>1. call[c].pc = "send" /\ UNCHANGED <<durable, memory, poller, bounds>>
  BY DEF Send
<1>2. j \in Jobs /\ j \in submitted /\ up /\ call[c] \in CallStates
      /\ call[c].kept \in Manifests \cup Snapshots
  BY <1>1, CallAtKnows
<1>3. input \in {"original", "relinked"}
  BY <1>2 DEF Manifests, Snapshots
<1>4. PICK r \in Runs : run[r] = NoRun /\ run' = [run EXCEPT ![r] = on]
  BY DEF Send
<1> HIDE DEF input
<1>5. on \in RunStates /\ on.pc = "sent" /\ on.job = j /\ on.input = input
  BY <1>2, <1>3 DEF NoRun, RunStates, RunPoints
<1> HIDE DEF on
<1>6. run' \in [Runs -> RunStates] /\ run'[r] = on /\ \A s \in Runs \ {r} : run'[s] = run[s]
  BY <1>4, <1>5 DEF TypeOK
<1>7. run[r].pc = "none"
  BY <1>4 DEF NoRun
<1>8. call' = [call EXCEPT ![c] = state]
  BY <1>2 DEF Send, TypeOK
<1>9. /\ state \in CallStates /\ state.pc \in {"none", "sent"}
      /\ state.pc = "none" => state.job = None
      /\ state.pc = "sent" => state.job = j /\ state.kept \in Manifests
  BY <1>2 DEF CallStates, CallPoints, NoCall
<1> HIDE DEF state, resumed
<1>10. call' \in [Callers -> CallStates] /\ call'[c] = state
      /\ \A d \in Callers \ {c} : call'[d] = call[d]
  BY <1>8, <1>9 DEF TypeOK
<1>11. TypeOK'
  BY <1>1, <1>6, <1>10 DEF TypeOK
<1>12. RunShape'
  <2>1. ~ poller[r].on /\ poller[r].seen = None
    BY <1>7 DEF RunShape, Shaped, Working, Interruptible
  <2>2. Shaped(run'[r], poller'[r])
    BY <1>1, <1>2, <1>3, <1>5, <1>6, <2>1, NoneAssumption DEF Shaped
  <2> QED BY <1>1, <1>6, <2>2 DEF RunShape
<1>13. CallShape'
  BY <1>1, <1>2, <1>9, <1>10 DEF CallShape
<1>14. DownIsIdle'
  BY <1>1, <1>2 DEF DownIsIdle
<1>15. Untouched'
  BY <1>1, <1>2, <1>5, <1>6, <1>9, <1>10, NoneAssumption DEF Untouched
<1>16. Kept'
  BY <1>1 DEF Kept
<1>17. \A d \in Callers : Dispatching(d)' => d # c /\ Dispatching(d) /\ call'[d] = call[d]
  BY <1>9, <1>10 DEF Dispatching
<1>18. Dispatching(c)
  BY <1>1 DEF Dispatching
<1>19. \A s \in Runs : run'[s].pc \in Executing => s # r
  BY <1>5, <1>6 DEF Executing, Interruptible
<1>20. Controlled'
  BY <1>1, <1>5, <1>6, <1>17, <1>18, <1>19 DEF Controlled
<1>21. OneDispatch'
  <2> SUFFICES ASSUME NEW k \in Jobs \ deleted
               PROVE  /\ \A d, e \in Callers : call'[d].job = k /\ Dispatching(d)' /\ call'[e].job = k
                            /\ Dispatching(e)' => d = e
                      /\ \A d \in Callers, s \in Runs : call'[d].job = k /\ Dispatching(d)' => run'[s].job # k
                      /\ \A s, t \in Runs : run'[s].job = k /\ run'[t].job = k => s = t
    BY <1>1 DEF OneDispatch
  <2>1. CASE k = j
    <3>1. \A d \in Callers \ {c} : call[d].job = j => ~ Dispatching(d)
      BY <1>18, <2>1 DEF OneDispatch
    <3>2. \A s \in Runs : run[s].job # j
      BY <1>18, <2>1 DEF OneDispatch
    <3> QED BY <1>6, <1>17, <2>1, <3>1, <3>2
  <2>2. CASE k # j
    BY <1>5, <1>6, <1>17, <2>2 DEF OneDispatch
  <2> QED BY <2>1, <2>2
<1>22. SubmissionIsQuiet'
  <2> SUFFICES ASSUME NEW d \in Callers, Submitting(d)'
               PROVE  Quiet(d)'
    BY DEF SubmissionIsQuiet
  <2>1. d # c /\ Submitting(d) /\ call'[d] = call[d] /\ Quiet(d) /\ call[d].job \in Jobs
    BY <1>9, <1>10 DEF Submitting, SubmissionIsQuiet, CallShape
  <2>2. call[d].job # j
    BY <1>1, <2>1, SubmissionIsAlone
  <2>3. \A e \in Callers \ {d} : call'[e].job = call[d].job => LooksOn(call'[e])
    BY <1>9, <1>10, <2>1, <2>2, NoneAssumption DEF Quiet
  <2> QED BY <1>1, <2>1, <2>3 DEF Quiet
<1> QED BY <1>11, <1>12, <1>13, <1>14, <1>15, <1>16, <1>20, <1>21, <1>22

\* A write to the pause watch is noticed by runs and changes nothing else of them.
LEMMA NotifyKeeps ==
  ASSUME TypeOK, NEW j \in Jobs, run' = Notify(j, run)
  PROVE  /\ run' \in [Runs -> RunStates]
         /\ \A r \in Runs : /\ run'[r].pc = run[r].pc /\ run'[r].job = run[r].job
                            /\ run'[r].input = run[r].input /\ run'[r].kept = run[r].kept
<1>1. ASSUME NEW r \in Runs
      PROVE  LET state == [run[r] EXCEPT !.unseen = TRUE] IN
             /\ run[r] \in RunStates /\ state \in RunStates
             /\ state.pc = run[r].pc /\ state.job = run[r].job
             /\ state.input = run[r].input /\ state.kept = run[r].kept
  BY DEF TypeOK, RunStates
<1>2. \A r \in Runs : run'[r] = run[r] \/ run'[r] = [run[r] EXCEPT !.unseen = TRUE]
  BY DEF Notify
<1>3. run' = [r \in Runs |-> run'[r]]
  BY DEF Notify
<1>4. \A r \in Runs : run'[r] \in RunStates
  BY <1>1, <1>2
<1> QED BY <1>1, <1>2, <1>3, <1>4

\* A call raises or lowers the pause flag of a control: the control stays, and
\* whether it counts as started too.
LEMMA FlagKeeps ==
  ASSUME IInv, NEW c \in Callers, NEW j \in Jobs, NEW b \in BOOLEAN, NEW state,
         control[j] # None, control' = [control EXCEPT ![j].paused = b], run' = Notify(j, run),
         CallStep(c, j, state), ~ Submits(state), ~ Dispatches(state), TaskWrites(j),
         UNCHANGED <<automatic, up, poller, submitted, deleted>>,
         lock' \in Callers \cup {None}, commands' \in 0..MaxCommands
  PROVE  IInv'
<1> USE DEF IInv
<1>1. /\ call' \in [Callers -> CallStates] /\ call'[c] = state
      /\ \A d \in Callers \ {c} : call'[d] = call[d]
  BY DEF CallStep, TypeOK
<1>2. /\ run' \in [Runs -> RunStates]
      /\ \A r \in Runs : /\ run'[r].pc = run[r].pc /\ run'[r].job = run[r].job
                         /\ run'[r].input = run[r].input /\ run'[r].kept = run[r].kept
  BY NotifyKeeps
<1>3. /\ control' \in [Jobs -> Controls \cup {None}] /\ control'[j] # None
      /\ control'[j].started = control[j].started
      /\ \A k \in Jobs \ {j} : control'[k] = control[k]
  <2> DEFINE flag == [control[j] EXCEPT !.paused = b]
  <2>1. control[j] \in Controls /\ control \in [Jobs -> Controls \cup {None}]
    BY DEF TypeOK
  <2>2. flag \in Controls /\ flag.started = control[j].started
    BY <2>1 DEF Controls
  <2>3. control' = [control EXCEPT ![j] = flag]
    BY <2>1
  <2> HIDE DEF flag
  <2>4. flag # None
    BY <2>2, NoneAssumption
  <2> QED BY <2>1, <2>2, <2>3, <2>4
<1>4. j \in submitted
  BY DEF Untouched
<1>5. TypeOK'
  BY <1>1, <1>2, <1>3 DEF TypeOK, TaskWrites
<1>6. RunShape'
  BY <1>2 DEF RunShape, Shaped
<1>7. CallShape'
  BY <1>1, <1>3, NoneAssumption DEF CallShape, CallStep
<1>8. DownIsIdle'
  BY <1>1, <1>2 DEF DownIsIdle, CallStep
<1>9. Untouched'
  BY <1>1, <1>2, <1>3, <1>4, NoneAssumption DEF Untouched, CallStep, TaskWrites
<1>10. Kept'
  <2>1. submitted \subseteq Jobs
    BY DEF TypeOK
  <2> QED BY <2>1 DEF Kept, TaskWrites
<1>11. \A d \in Callers : Dispatching(d)' => Dispatching(d) /\ call'[d] = call[d]
  BY <1>1 DEF Dispatching
<1>12. Controlled'
  BY <1>2, <1>3, <1>11 DEF Controlled
<1>13. OneDispatch'
  BY <1>2, <1>11 DEF OneDispatch
<1>14. SubmissionIsQuiet'
  <2> SUFFICES ASSUME NEW d \in Callers, Submitting(d)'
               PROVE  Quiet(d)'
    BY DEF SubmissionIsQuiet
  <2>1. d # c /\ Submitting(d) /\ call'[d] = call[d] /\ Quiet(d) /\ call[d].job \in Jobs
    BY <1>1 DEF Submitting, SubmissionIsQuiet, CallShape
  <2>2. call[d].job # j
    BY <2>1 DEF Quiet
  <2>3. \A e \in Callers \ {d} : call'[e].job = call[d].job => LooksOn(call'[e])
    BY <1>1, <2>1, <2>2, NoneAssumption DEF Quiet, CallStep
  <2> QED BY <1>3, <2>1, <2>2, <2>3 DEF Quiet, TaskWrites
<1> QED BY <1>5, <1>6, <1>7, <1>8, <1>9, <1>10, <1>12, <1>13, <1>14

\* A pause raises the flag of a registered task, started or not.
LEMMA PauseKeeps ==
  ASSUME IInv, NEW c \in Callers, NEW j \in Jobs, Pause(c, j)
  PROVE  IInv'
<1>1. /\ up /\ call[c] = NoCall /\ lock = None /\ control[j] # None
      /\ control' = [control EXCEPT ![j].paused = TRUE] /\ run' = Notify(j, run)
      /\ commands < MaxCommands /\ commands' = commands + 1
      /\ UNCHANGED <<automatic, up, poller, submitted, deleted>>
  BY DEF Pause, Issues
<1>2. commands' \in 0..MaxCommands
  BY <1>1, BoundsAssumption DEF IInv, TypeOK
<1>3. \A d \in Callers \ {c} : Submitting(d) => call[d].job # j
  BY <1>1 DEF IInv, SubmissionIsQuiet, Quiet
<1>4. CASE CallEnters(c, "await_stop", j, None) /\ UNCHANGED <<durable, lock>>
  <2> DEFINE state == [pc |-> "await_stop", job |-> j, kept |-> None]
  <2>1. state \in CallStates /\ state.pc = "await_stop" /\ state.job = j
    BY DEF CallStates, CallPoints
  <2>2. call' = [call EXCEPT ![c] = state] /\ lock' = lock
    BY <1>4
  <2>3. TaskWrites(j)
    BY <1>4, TaskNoWrites
  <2> HIDE DEF state
  <2>4. CallStep(c, j, state)
    BY <1>1, <1>3, <2>1, <2>2 DEF CallStep
  <2> QED BY <1>1, <1>2, <2>1, <2>2, <2>3, <2>4, FlagKeeps
<1>5. CASE UNCHANGED <<durable, lock, call>>
  <2>1. NoCall \in CallStates /\ NoCall.pc = "none" /\ NoCall.job = None
    BY DEF NoCall, CallStates, CallPoints
  <2>2. call' = [call EXCEPT ![c] = NoCall] /\ lock' = lock
    BY <1>1, <1>5 DEF IInv, TypeOK
  <2>3. TaskWrites(j)
    BY <1>5, TaskNoWrites
  <2>4. CallStep(c, j, NoCall)
    BY <1>3, <2>1, <2>2 DEF CallStep
  <2> QED BY <1>1, <1>2, <2>1, <2>2, <2>3, <2>4, FlagKeeps
<1>6. CASE /\ Loadable(j) /\ WriteStatus(j, "failed") /\ UNCHANGED row
           /\ lock' = c /\ CallEnters(c, "pause_sync", j, None)
  <2> DEFINE state == [pc |-> "pause_sync", job |-> j, kept |-> None]
  <2>1. state \in CallStates /\ state.pc = "pause_sync" /\ state.job = j
    BY DEF CallStates, CallPoints
  <2>2. call' = [call EXCEPT ![c] = state] /\ lock' = c
    BY <1>6
  <2>3. TaskWrites(j)
    BY <1>6, TaskStatusWrites DEF Statuses
  <2> HIDE DEF state
  <2>4. CallStep(c, j, state)
    BY <1>1, <1>3, <2>1, <2>2 DEF CallStep
  <2> QED BY <1>1, <1>2, <2>1, <2>2, <2>3, <2>4, FlagKeeps
<1> QED BY <1>4, <1>5, <1>6 DEF Pause

\* A resume of a held task lowers its flag under the lock.
LEMMA UnholdKeeps ==
  ASSUME IInv, NEW c \in Callers, Unhold(c)
  PROVE  IInv'
<1> DEFINE j == call[c].job
<1>1. call[c].pc = "unhold" /\ lock' = None /\ Leaves(c)
      /\ UNCHANGED <<dir, automatic, up, poller, bounds>>
  BY DEF Unhold
<1>2. j \in Jobs /\ j \in submitted /\ lock = c /\ control[j] # None /\ TypeOK
  BY <1>1, CallAtKnows DEF IInv, CallShape
<1>3. \A d \in Callers \ {c} : Submitting(d) => call[d].job # j
  BY <1>1, SubmissionIsAlone
<1>4. CASE ~ Loadable(j) /\ UNCHANGED <<row, newer, control, run>>
  <2>1. TaskWrites(j)
    BY <1>1, <1>2, <1>4, TaskNoWrites
  <2> HIDE DEF j
  <2> QED BY <1>1, <1>2, <1>3, <1>4, <2>1, ReturnKeeps
<1>5. CASE /\ Loadable(j) /\ SyncRow(j, Snapshot(j)) /\ run' = Notify(j, run)
           /\ control' = [control EXCEPT ![j].paused = FALSE]
  <2>1. TaskWrites(j)
    BY <1>1, <1>2, <1>5, SnapshotType, TaskRowWrites
  <2>2. NoCall.pc = "none"
    BY DEF NoCall
  <2>3. commands' \in 0..MaxCommands
    BY <1>1, <1>2 DEF TypeOK
  <2> HIDE DEF j
  <2>4. CallStep(c, j, NoCall)
    BY <1>1, <1>2, <1>3, ReturnStep
  <2> QED BY <1>1, <1>2, <1>5, <2>1, <2>2, <2>3, <2>4, FlagKeeps
<1> QED BY <1>4, <1>5 DEF Unhold

-----------------------------------------------------------------------------
(* The end of the process and the recovery *)

\* The end of the process clears everything but files and rows.
LEMMA CrashKeeps ==
  ASSUME IInv, Crash
  PROVE  IInv'
<1> USE DEF IInv
<1>1. /\ NoRun \in RunStates /\ NoRun.pc = "none" /\ NoRun.job = None
      /\ NoCall \in CallStates /\ NoCall.pc = "none" /\ NoCall.job = None
      /\ Off \in PollerStates /\ ~ Off.on /\ Off.seen = None
  BY DEF NoRun, RunStates, RunPoints, NoCall, CallStates, CallPoints, Off, PollerStates
<1>2. /\ control' = [j \in Jobs |-> None] /\ automatic' = {} /\ lock' = None /\ up' = FALSE
      /\ run' = [r \in Runs |-> NoRun] /\ poller' = [r \in Runs |-> Off]
      /\ call' = [c \in Callers |-> NoCall]
      /\ commands < MaxCommands /\ commands' = commands + 1
      /\ UNCHANGED <<durable, submitted, deleted>>
  BY DEF Crash
<1>3. /\ \A c \in Callers : call'[c] = NoCall
      /\ \A r \in Runs : run'[r] = NoRun /\ poller'[r] = Off
      /\ \A j \in Jobs : control'[j] = None
  BY <1>2
<1>4. TypeOK'
  <2>1. commands' \in 0..MaxCommands
    BY <1>2, BoundsAssumption DEF TypeOK
  <2>2. /\ control' \in [Jobs -> Controls \cup {None}] /\ run' \in [Runs -> RunStates]
        /\ poller' \in [Runs -> PollerStates] /\ call' \in [Callers -> CallStates]
    BY <1>1, <1>2
  <2> QED BY <1>2, <2>1, <2>2 DEF TypeOK
<1>5. RunShape'
  BY <1>1, <1>3 DEF RunShape, Shaped
<1>6. CallShape' /\ DownIsIdle'
  BY <1>1, <1>3 DEF CallShape, DownIsIdle
<1>7. Untouched' /\ Kept'
  BY <1>1, <1>2, <1>3, NoneAssumption DEF Untouched, Kept
<1>8. \A c \in Callers : ~ Dispatching(c)' /\ ~ Submitting(c)'
  BY <1>1, <1>3 DEF Dispatching, Submitting
<1>9. Controlled' /\ OneDispatch'
  BY <1>1, <1>2, <1>3, <1>8, NoneAssumption DEF Controlled, OneDispatch
<1>10. SubmissionIsQuiet'
  BY <1>8 DEF SubmissionIsQuiet
<1> QED BY <1>4, <1>5, <1>6, <1>7, <1>9, <1>10

\* The application takes commands with nothing running yet.
LEMMA ReadyKeeps ==
  ASSUME IInv, Ready
  PROVE  IInv'
<1> USE DEF IInv
<1>1. up' = TRUE /\ UNCHANGED <<durable, control, automatic, lock, run, poller, call, bounds>>
  BY DEF Ready
<1>2. TypeOK' /\ RunShape' /\ CallShape' /\ DownIsIdle' /\ Untouched' /\ Kept'
  BY <1>1 DEF TypeOK, RunShape, CallShape, DownIsIdle, Untouched, Kept
<1>3. Controlled' /\ OneDispatch' /\ SubmissionIsQuiet'
  BY <1>1 DEF Controlled, OneDispatch, SubmissionIsQuiet, Dispatching, Submitting, Quiet
<1> QED BY <1>2, <1>3

\* The recovery settles a row and its manifest, and takes neither away.
LEMMA RecoverKeeps ==
  ASSUME IInv, NEW j \in Jobs, Recover(j)
  PROVE  IInv'
<1> USE DEF IInv
<1>1. ~ up /\ row[j] # None /\ UNCHANGED <<memory, run, poller, call, bounds>>
  BY DEF Recover, Unsettled
<1>2. j \in submitted /\ row[j] \in Rows
  BY <1>1, TracedIsSubmitted DEF TypeOK
<1>3. TaskWrites(j)
  <2>1. CASE ~ Loadable(j) /\ row' = [row EXCEPT ![j].status = "failed"]
             /\ newer' = [newer EXCEPT ![j] = FALSE] /\ UNCHANGED dir
    <3> DEFINE new == [row[j] EXCEPT !.status = "failed"]
    <3>1. new \in Rows /\ row' = [row EXCEPT ![j] = new]
      BY <1>2, <2>1 DEF Rows, Statuses, TypeOK
    <3> HIDE DEF new
    <3> QED BY <2>1, <3>1 DEF TypeOK, TaskWrites
  <2>2. CASE Loadable(j) /\ SyncRow(j, Snapshot(j)) /\ UNCHANGED dir
    BY <2>2, SnapshotType, TaskRowWrites
  <2>3. CASE /\ Loadable(j) /\ dir' = [dir EXCEPT ![j].manifest.status = "failed"]
             /\ row' = [row EXCEPT ![j].status = "failed",
                                   ![j].input  = dir[j].manifest.input,
                                   ![j].cues   = @ \/ Snapshot(j).cues]
             /\ newer' = [newer EXCEPT ![j] = FALSE]
    <3> DEFINE m    == [dir[j].manifest EXCEPT !.status = "failed"]
               task == [dir[j] EXCEPT !.manifest = m]
               cues == row[j].cues \/ Snapshot(j).cues
               new  == [row[j] EXCEPT !.status = "failed", !.input = dir[j].manifest.input,
                                      !.cues = cues]
    <3>1. dir[j] \in Directories /\ dir[j].manifest \in Manifests
      BY <2>3 DEF TypeOK, Loadable, Directories
    <3>2. m \in Manifests
      BY <3>1 DEF Manifests, Statuses
    <3>3. m # None
      BY <3>2, NoneAssumption
    <3>4. dir' = [dir EXCEPT ![j] = task]
      BY <2>3, <3>1 DEF TypeOK, Directories, Manifests
    <3> HIDE DEF m
    <3>5. task \in Directories /\ task.exists = dir[j].exists /\ task.manifest = m
      BY <3>1, <3>2 DEF Directories
    <3>6. row' = [row EXCEPT ![j].status = "failed", ![j].input = dir[j].manifest.input,
                             ![j].cues = cues]
      BY <1>2, <2>3 DEF TypeOK, Rows
    <3>7. cues \in BOOLEAN
      BY <1>2 DEF Rows
    <3> HIDE DEF cues, task
    <3>8. new \in Rows
      BY <1>2, <3>1, <3>7 DEF Rows, Manifests, Statuses
    <3>9. row' = [row EXCEPT ![j] = new]
      BY <1>2, <3>6 DEF TypeOK, Rows
    <3> HIDE DEF new
    <3>10. /\ dir' \in [Jobs -> Directories] /\ dir'[j] = task
           /\ \A k \in Jobs \ {j} : dir'[k] = dir[k]
      BY <3>4, <3>5 DEF TypeOK
    <3>11. row' \in [Jobs -> Rows \cup {None}] /\ \A k \in Jobs \ {j} : row'[k] = row[k]
      BY <3>8, <3>9 DEF TypeOK
    <3>12. newer' \in [Jobs -> BOOLEAN]
      BY <2>3 DEF TypeOK
    <3> QED BY <3>3, <3>5, <3>10, <3>11, <3>12 DEF TaskWrites
  <2> QED BY <2>1, <2>2, <2>3 DEF Recover
<1>4. \A c \in Callers : call[c].pc = "none"
  BY <1>1 DEF DownIsIdle
<1>5. TypeOK' /\ RunShape' /\ CallShape' /\ DownIsIdle'
  BY <1>1, <1>3 DEF TypeOK, RunShape, CallShape, DownIsIdle, TaskWrites
<1>6. Untouched'
  BY <1>1, <1>2, <1>3 DEF Untouched, TaskWrites
<1>7. Kept'
  <2>1. submitted \subseteq Jobs
    BY DEF TypeOK
  <2> QED BY <1>1, <1>3, <2>1 DEF Kept, TaskWrites
<1>8. Controlled' /\ OneDispatch'
  BY <1>1 DEF Controlled, OneDispatch, Dispatching
<1>9. SubmissionIsQuiet'
  BY <1>1, <1>4 DEF SubmissionIsQuiet, Submitting
<1> QED BY <1>5, <1>6, <1>7, <1>8, <1>9

-----------------------------------------------------------------------------
(* The invariant *)

\* The invariant holds of a fresh installation.
LEMMA InitKeeps == Init => IInv
<1> SUFFICES ASSUME Init
             PROVE  IInv
  OBVIOUS
<1>1. /\ NoRun \in RunStates /\ NoRun.pc = "none" /\ NoRun.job = None
      /\ NoCall \in CallStates /\ NoCall.pc = "none" /\ NoCall.job = None
      /\ Off \in PollerStates /\ ~ Off.on /\ Off.seen = None
      /\ Absent \in Directories
  BY DEF NoRun, RunStates, RunPoints, NoCall, CallStates, CallPoints, Off, PollerStates,
         Absent, Directories
<1>2. TypeOK
  BY <1>1, BoundsAssumption DEF Init, TypeOK
<1>3. /\ \A c \in Callers : call[c] = NoCall
      /\ \A r \in Runs : run[r] = NoRun /\ poller[r] = Off
  BY DEF Init
<1>4. RunShape /\ CallShape /\ DownIsIdle
  BY <1>1, <1>3 DEF RunShape, Shaped, CallShape, DownIsIdle
<1>5. Untouched /\ Kept
  BY <1>1, <1>3, NoneAssumption DEF Init, Untouched, Kept
<1>6. \A c \in Callers : ~ Dispatching(c) /\ ~ Submitting(c)
  BY <1>1, <1>3 DEF Dispatching, Submitting
<1>7. Controlled /\ OneDispatch
  BY <1>1, <1>3, <1>6, NoneAssumption DEF Controlled, OneDispatch
<1>8. SubmissionIsQuiet
  BY <1>6 DEF SubmissionIsQuiet
<1> QED BY <1>2, <1>4, <1>5, <1>7, <1>8 DEF IInv

\* Every step keeps it.
LEMMA NextKeeps == IInv /\ [Next]_vars => IInv'
<1> SUFFICES ASSUME IInv, [Next]_vars
             PROVE  IInv'
  OBVIOUS
<1>1. ASSUME NEW r \in Runs, Execute(r)
      PROVE  IInv'
  BY <1>1, LookupKeeps, AdmitKeeps, WakeKeeps, StartKeeps, BeginKeeps, EnterKeeps,
     RecognizeKeeps, RecognizedKeeps, MarkTranslatingKeeps, JoinPrefixKeeps,
     PublishCuesKeeps, MarkPublishedKeeps, TranslateKeeps, TranslatePendingKeeps,
     MarkDoneKeeps, FailManifestKeeps, LoadFinalKeeps, SyncFinalKeeps,
     ForgetAutomaticKeeps, CloseKeeps DEF Execute
<1>2. ASSUME NEW r \in Runs,
             \/ Acquire(r) \/ Withdraw(r) \/ StopOnPause(r) \/ NextStage(r)
             \/ RecognitionFails(r) \/ WorkFails(r) \/ Poll(r)
      PROVE  IInv'
  BY <1>2, AcquireKeeps, WithdrawKeeps, StopOnPauseKeeps, NextStageKeeps,
     RecognitionFailsKeeps, WorkFailsKeeps, PollerLoadsKeeps, PollerSyncsKeeps DEF Poll
<1>3. ASSUME NEW c \in Callers, Serve(c)
      PROVE  IInv'
  BY <1>3, SubmitSyncKeeps, SubmitPrepareKeeps, EnqueueKeeps, SendKeeps,
     ReturnResumedKeeps, PauseSyncKeeps, ResumeCheckKeeps, ResumeLockKeeps,
     UnholdKeeps, ReserveKeeps, RequeueKeeps, RequeueSyncKeeps, RefreshSyncKeeps,
     RelinkRowKeeps, DeleteMoveKeeps, DeleteRowKeeps DEF Serve
<1>4. ASSUME NEW c \in Callers, NEW j \in Jobs, Issue(c, j)
      PROVE  IInv'
  BY <1>4, SubmitCreateKeeps, RetryCreateKeeps, PauseKeeps, ResumeConfigureKeeps,
     RefreshLoadKeeps, RelinkManifestKeeps, DeleteCheckKeeps DEF Issue
<1>5. CASE UNCHANGED vars
  <2>1. TypeOK' /\ RunShape' /\ CallShape' /\ DownIsIdle' /\ Untouched' /\ Kept'
    BY <1>5 DEF vars, IInv, TypeOK, RunShape, CallShape, DownIsIdle, Untouched, Kept
  <2>2. Controlled' /\ OneDispatch' /\ SubmissionIsQuiet'
    BY <1>5 DEF vars, IInv, Controlled, OneDispatch, SubmissionIsQuiet, Dispatching, Submitting, Quiet
  <2> QED BY <2>1, <2>2 DEF IInv
<1> QED BY <1>1, <1>2, <1>3, <1>4, <1>5, CrashKeeps, ReadyKeeps, RecoverKeeps DEF Next

\* The inductive invariant holds of every behaviour: submissions, resumes,
\* pauses, deletions, runs, pollers, crashes and recoveries in any order.
THEOREM Invariance == Spec => []IInv
<1>1. Init => IInv
  BY InitKeeps
<1>2. IInv /\ [Next]_vars => IInv'
  BY NextKeeps
<1> QED BY <1>1, <1>2, PTL DEF Spec

\* Every variable keeps to its type.
THEOREM TypeCorrect == Spec => []TypeOK
<1>1. IInv => TypeOK
  BY DEF IInv
<1> QED BY <1>1, Invariance, PTL

\* No two runs have the same task.
THEOREM Exclusive == Spec => []OneRunPerJob
<1>1. IInv => OneRunPerJob
  <2> SUFFICES ASSUME IInv, NEW r \in Runs, NEW s \in Runs,
                      run[r].job = run[s].job, run[r].job # None, run[r].job \notin deleted
               PROVE  r = s
    BY DEF OneRunPerJob
  <2>1. run[r].job \in Jobs
    BY DEF IInv, TypeOK, RunStates
  <2> QED BY <2>1 DEF IInv, OneDispatch
<1> QED BY <1>1, Invariance, PTL

\* A run that executes has a control that says so: a pause finds it.
THEOREM Pausable == Spec => []ExecutingIsControlled
<1>1. IInv => ExecutingIsControlled
  <2> SUFFICES ASSUME IInv, NEW r \in Runs, run[r].pc \in Executing, run[r].job \notin deleted
               PROVE  control[run[r].job] # None /\ control[run[r].job].started
    BY DEF ExecutingIsControlled
  <2>1. run[r].job \in Jobs
    BY RunAt DEF Executing, Interruptible
  <2> QED BY <2>1 DEF IInv, Controlled
<1> QED BY <1>1, Invariance, PTL

-----------------------------------------------------------------------------
(* The implementation of TaskPromise *)

Accepted == {j \in Jobs \ deleted : control[j] # None /\ ~ HasRun(j)}
Runner == [r \in Runs |-> IF run[r].job \in deleted THEN None ELSE run[r].job]
Begun == {r \in Runs : run[r].pc \in Executing /\ run[r].job \notin deleted}

\* A step that registers and removes no control, dispatches and ends no run, and
\* begins no execution is none of the promise.
LEMMA SameMap ==
  ASSUME UNCHANGED deleted,
         \A j \in Jobs \ deleted : control'[j] # None <=> control[j] # None,
         \A r \in Runs : /\ run'[r].job = run[r].job
                         /\ run'[r].pc \in Executing <=> run[r].pc \in Executing
  PROVE  UNCHANGED <<Accepted, Runner, Begun, deleted>>
BY DEF Accepted, Runner, Begun, HasRun

\* What a step of a run may do to others: nothing.
Moved(r) ==
  /\ UNCHANGED deleted
  /\ \A s \in Runs \ {r} : run'[s] = run[s]
  /\ \A k \in Jobs \ {run[r].job} : control'[k] = control[k]

\* It stays where it is in the promise, begins to execute, or goes.
Stays(r) ==
  /\ Moved(r)
  /\ control'[run[r].job] # None <=> control[run[r].job] # None
  /\ run'[r].job = run[r].job
  /\ run'[r].pc \in Executing <=> run[r].pc \in Executing
Begins(r) ==
  /\ Moved(r)
  /\ control'[run[r].job] # None <=> control[run[r].job] # None
  /\ run'[r].job = run[r].job
  /\ run[r].pc \notin Executing /\ run'[r].pc \in Executing
Goes(r) == Moved(r) /\ run'[r] = NoRun

\* A run's point, and one other field of it, take new values.
LEMMA FieldMoves ==
  ASSUME TypeOK, NEW r \in Runs, NEW p, NEW v,
         \/ run' = [run EXCEPT ![r].pc = p]
         \/ run' = [run EXCEPT ![r].pc = p, ![r].kept = v]
         \/ run' = [run EXCEPT ![r].pc = p, ![r].permit = v]
         \/ run' = [run EXCEPT ![r].pc = p, ![r].unseen = v]
         \/ run' = [run EXCEPT ![r].pc = p, ![r].pending = v]
         \/ run' = [run EXCEPT ![r].pc = p, ![r].auto = v]
  PROVE  /\ run'[r].pc = p /\ run'[r].job = run[r].job
         /\ \A s \in Runs \ {r} : run'[s] = run[s]
<1>1. run \in [Runs -> RunStates] /\ run[r] \in RunStates
  BY DEF TypeOK
<1> QED BY <1>1 DEF RunStates

\* The steps of a run that works or wraps up.
LEMMA WorkStays ==
  ASSUME IInv, NEW r \in Runs,
         \/ Begin(r) \/ Enter(r) \/ Recognize(r) \/ NextStage(r) \/ Recognized(r)
         \/ RecognitionFails(r) \/ MarkTranslating(r) \/ JoinPrefix(r) \/ PublishCues(r)
         \/ MarkPublished(r) \/ Translate(r) \/ TranslatePending(r) \/ MarkDone(r)
         \/ FailManifest(r) \/ LoadFinal(r) \/ SyncFinal(r) \/ ForgetAutomatic(r)
         \/ StopOnPause(r) \/ WorkFails(r)
  PROVE  Stays(r)
<1>1. TypeOK
  BY DEF IInv
<1> DEFINE To(p) == \/ run' = [run EXCEPT ![r].pc = p]
                    \/ \E v : \/ run' = [run EXCEPT ![r].pc = p, ![r].kept = v]
                              \/ run' = [run EXCEPT ![r].pc = p, ![r].permit = v]
                              \/ run' = [run EXCEPT ![r].pc = p, ![r].auto = v]
<1>2. ASSUME run[r].pc \in Executing, UNCHANGED <<control, deleted>>,
             NEW p \in Executing, To(p)
      PROVE  Stays(r)
  <2>1. /\ run'[r].pc = p /\ run'[r].job = run[r].job
        /\ \A s \in Runs \ {r} : run'[s] = run[s]
    BY <1>1, <1>2, FieldMoves
  <2> QED BY <1>2, <2>1 DEF Stays, Moved
<1>3. \A p \in {"entering", "failing", "translate", "recognize", "recognizing", "recognized",
                "unrecognized", "prefix", "publishing", "marking", "ending", "translating",
                "translated", "reporting", "leaving", "closing"} : p \in Executing
  BY DEF Executing, Interruptible
<1>4. CASE Begin(r)
  <2>1. run[r].pc \in Executing /\ UNCHANGED <<control, deleted>>
        /\ run' = [run EXCEPT ![r].pc = "entering", ![r].auto = run[r].job \in automatic]
    BY <1>4 DEF Begin, Executing
  <2>2. To("entering")
    BY <2>1
  <2> HIDE DEF To
  <2> QED BY <1>2, <1>3, <2>1, <2>2
<1>5. ASSUME NEW p \in Executing, FinishWork(r, p)
      PROVE  To(p)
  BY <1>5 DEF FinishWork
<1>6. ASSUME NEW p \in Executing, Goto(r, p)
      PROVE  To(p)
  BY <1>6
<1>7. CASE Enter(r)
  <2>1. run[r].pc \in Executing /\ UNCHANGED <<control, deleted>>
    BY <1>7 DEF Enter, Executing, Interruptible
  <2>2. To("failing") \/ To("translate") \/ To("recognize")
    BY <1>3, <1>5, <1>6, <1>7 DEF Enter
  <2> HIDE DEF To
  <2> QED BY <1>2, <1>3, <2>1, <2>2
<1>8. CASE Recognize(r) \/ NextStage(r)
  <2>1. run[r].pc \in Executing /\ UNCHANGED <<control, deleted>> /\ To("recognizing")
    BY <1>3, <1>6, <1>8 DEF Recognize, NextStage, WriteStage, Executing, Interruptible
  <2> HIDE DEF To
  <2> QED BY <1>2, <1>3, <2>1
<1>9. CASE Recognized(r)
  <2>1. run[r].pc \in Executing /\ UNCHANGED <<control, deleted>> /\ To("recognized")
    BY <1>9 DEF Recognized, Executing, Interruptible
  <2> HIDE DEF To
  <2> QED BY <1>2, <1>3, <2>1
<1>10. CASE RecognitionFails(r)
  <2>1. run[r].pc \in Executing /\ UNCHANGED <<control, deleted>> /\ To("unrecognized")
    BY <1>10 DEF RecognitionFails, Executing, Interruptible
  <2> HIDE DEF To
  <2> QED BY <1>2, <1>3, <2>1
<1>11. CASE MarkTranslating(r)
  <2>1. run[r].pc \in Executing /\ UNCHANGED <<control, deleted>>
    BY <1>11 DEF MarkTranslating, Executing
  <2>2. To("failing") \/ To("prefix")
    BY <1>3, <1>5, <1>6, <1>11 DEF MarkTranslating
  <2> HIDE DEF To
  <2> QED BY <1>2, <1>3, <2>1, <2>2
<1>12. CASE JoinPrefix(r)
  <2>1. run[r].pc \in Executing /\ UNCHANGED <<control, deleted>>
    BY <1>12 DEF JoinPrefix, Executing, Interruptible
  <2>2. To("failing") \/ To("publishing")
    BY <1>3, <1>5, <1>12 DEF JoinPrefix
  <2> HIDE DEF To
  <2> QED BY <1>2, <1>3, <2>1, <2>2
<1>13. CASE PublishCues(r)
  <2>1. run[r].pc \in Executing /\ UNCHANGED <<control, deleted>> /\ To("marking")
    BY <1>13 DEF PublishCues, Executing, Interruptible
  <2> HIDE DEF To
  <2> QED BY <1>2, <1>3, <2>1
<1>14. CASE MarkPublished(r)
  <2>1. run[r].pc \in Executing /\ UNCHANGED <<control, deleted>> /\ To("translate")
    BY <1>14 DEF MarkPublished, Executing, Interruptible
  <2> HIDE DEF To
  <2> QED BY <1>2, <1>3, <2>1
<1>15. CASE Translate(r)
  <2>1. run[r].pc \in Executing /\ UNCHANGED <<control, deleted>>
    BY <1>15 DEF Translate, Executing
  <2>2. To("ending") \/ To("failing") \/ To("translating")
    BY <1>3, <1>5, <1>15 DEF Translate
  <2> HIDE DEF To
  <2> QED BY <1>2, <1>3, <2>1, <2>2
<1>16. CASE TranslatePending(r) \/ ForgetAutomatic(r)
  <2>1. run[r].pc \in Executing /\ UNCHANGED <<control, deleted>>
        /\ (To("translated") \/ To("closing"))
    BY <1>16 DEF TranslatePending, ForgetAutomatic, Executing, Interruptible
  <2> HIDE DEF To
  <2> QED BY <1>2, <1>3, <2>1
<1>17. CASE MarkDone(r)
  <2>1. run[r].pc \in Executing /\ UNCHANGED <<control, deleted>> /\ To("ending")
    BY <1>3, <1>5, <1>17 DEF MarkDone, Executing
  <2> HIDE DEF To
  <2> QED BY <1>2, <1>3, <2>1
<1>18. CASE FailManifest(r) \/ LoadFinal(r) \/ SyncFinal(r)
  <2>1. run[r].pc \in Executing /\ UNCHANGED <<control, deleted>>
    BY <1>18 DEF FailManifest, LoadFinal, SyncFinal, Executing
  <2>2. To("ending") \/ To("reporting") \/ To("leaving")
    BY <1>18 DEF FailManifest, LoadFinal, SyncFinal
  <2> HIDE DEF To
  <2> QED BY <1>2, <1>3, <2>1, <2>2
<1>19. CASE StopOnPause(r) \/ WorkFails(r)
  <2>1. run[r].pc \in Executing /\ UNCHANGED <<control, deleted>> /\ To("failing")
    BY <1>3, <1>5, <1>19 DEF StopOnPause, WorkFails, Executing, Interruptible
  <2> HIDE DEF To
  <2> QED BY <1>2, <1>3, <2>1
<1> QED BY <1>4, <1>7, <1>8, <1>9, <1>10, <1>11, <1>12, <1>13, <1>14, <1>15, <1>16,
           <1>17, <1>18, <1>19

\* The steps of a run that waits: it goes only if its task has been deleted.
LEMMA WaitStays ==
  ASSUME IInv, NEW r \in Runs,
         Lookup(r) \/ Admit(r) \/ Wake(r) \/ Acquire(r) \/ Withdraw(r)
  PROVE  Stays(r) \/ (Goes(r) /\ run[r].job \in deleted)
<1> DEFINE j == run[r].job
<1>1. run[r].pc \in {"sent", "waiting", "held", "acquiring"} /\ UNCHANGED deleted
  BY DEF Lookup, Admit, Wake, Acquire, Withdraw
<1>2. /\ TypeOK /\ j \in Jobs /\ run[r].pc \notin Executing
      /\ j \notin deleted => control[j] # None /\ dir[j].exists
  BY <1>1, RunAt DEF IInv, Controlled, Kept, Untouched, Executing, Interruptible
<1>3. ASSUME UNCHANGED control, NEW p \in {"waiting", "held", "acquiring", "granted"}, NEW v,
             \/ run' = [run EXCEPT ![r].pc = p]
             \/ run' = [run EXCEPT ![r].pc = p, ![r].permit = v]
             \/ run' = [run EXCEPT ![r].pc = p, ![r].unseen = v]
             \/ run' = [run EXCEPT ![r].pc = p, ![r].pending = v]
      PROVE  Stays(r)
  <2>1. run'[r].pc = p /\ run'[r].job = j /\ \A s \in Runs \ {r} : run'[s] = run[s]
    BY <1>2, <1>3, FieldMoves
  <2> QED BY <1>1, <1>2, <1>3, <2>1 DEF Stays, Moved, Executing, Interruptible
<1>4. ASSUME run' = [run EXCEPT ![r] = NoRun], \A k \in Jobs \ {j} : control'[k] = control[k],
             j \in deleted
      PROVE  Goes(r) /\ j \in deleted
  BY <1>1, <1>2, <1>4 DEF Goes, Moved, TypeOK
<1>5. CASE Lookup(r)
  <2>1. CASE control[j] = None /\ run' = [run EXCEPT ![r] = NoRun] /\ UNCHANGED control
    BY <1>2, <1>4, <2>1
  <2>2. CASE ~ dir[j].exists /\ run' = [run EXCEPT ![r] = NoRun]
             /\ control' = [control EXCEPT ![j] = None]
    BY <1>2, <1>4, <2>2 DEF TypeOK
  <2>3. CASE run' = [run EXCEPT ![r].pc = "waiting", ![r].pending = "published" \notin dir[j].files]
             /\ UNCHANGED control
    BY <1>3, <2>3
  <2> QED BY <1>5, <2>1, <2>2, <2>3 DEF Lookup
<1>6. CASE Admit(r)
  <2>1. CASE control[j] = None
    BY <1>2, <1>4, <1>6, <2>1 DEF Admit
  <2>2. CASE control[j] # None
    <3> DEFINE p == IF control[j].paused THEN "held"
                    ELSE IF run[r].pending THEN "acquiring" ELSE "granted"
    <3>1. run' = [run EXCEPT ![r] = [run[r] EXCEPT !.pc = p]] /\ UNCHANGED control
      BY <1>6, <2>2 DEF Admit
    <3>2. p \in {"waiting", "held", "acquiring", "granted"}
      OBVIOUS
    <3> HIDE DEF p
    <3>3. run' = [run EXCEPT ![r].pc = p]
      BY <1>2, <3>1 DEF TypeOK
    <3> QED BY <1>3, <3>1, <3>2, <3>3
  <2> QED BY <2>1, <2>2
<1>7. CASE Wake(r)
  BY <1>2, <1>3, <1>4, <1>7 DEF Wake
<1>8. CASE Acquire(r) \/ Withdraw(r)
  BY <1>3, <1>8 DEF Acquire, Withdraw
<1> QED BY <1>5, <1>6, <1>7, <1>8

\* A granted run begins, waits again, or goes because its task was deleted.
LEMMA StartBegins ==
  ASSUME IInv, NEW r \in Runs, Start(r)
  PROVE  Stays(r) \/ Begins(r) \/ (Goes(r) /\ run[r].job \in deleted)
<1> DEFINE j == run[r].job
<1>1. run[r].pc = "granted" /\ UNCHANGED deleted
  BY DEF Start
<1>2. /\ TypeOK /\ j \in Jobs /\ run[r].pc \notin Executing
      /\ j \notin deleted => control[j] # None
  BY <1>1, RunAt DEF IInv, Controlled, Executing, Interruptible
<1>3. CASE control[j] = None /\ run' = [run EXCEPT ![r] = NoRun] /\ UNCHANGED control
  BY <1>1, <1>2, <1>3 DEF Goes, Moved, TypeOK
<1>4. CASE run' = [run EXCEPT ![r].pc = "waiting", ![r].permit = FALSE] /\ UNCHANGED control
  <2>1. run'[r].pc = "waiting" /\ run'[r].job = j /\ \A s \in Runs \ {r} : run'[s] = run[s]
    BY <1>2, <1>4, FieldMoves
  <2> QED BY <1>1, <1>2, <1>4, <2>1 DEF Stays, Moved, Executing, Interruptible
<1>5. CASE control[j] # None /\ control' = [control EXCEPT ![j].started = TRUE] /\ Goto(r, "starting")
  <2>1. run'[r].pc = "starting" /\ run'[r].job = j /\ \A s \in Runs \ {r} : run'[s] = run[s]
    BY <1>2, <1>5, FieldMoves
  <2> DEFINE flag == [control[j] EXCEPT !.started = TRUE]
  <2>2. flag \in Controls /\ control' = [control EXCEPT ![j] = flag]
    BY <1>2, <1>5 DEF TypeOK, Controls
  <2>3. flag # None
    BY <2>2, NoneAssumption
  <2> HIDE DEF flag
  <2>4. control'[j] # None /\ \A k \in Jobs \ {j} : control'[k] = control[k]
    BY <1>2, <2>2, <2>3 DEF TypeOK
  <2> QED BY <1>1, <1>2, <1>5, <2>1, <2>4 DEF Begins, Moved, Executing
<1> QED BY <1>3, <1>4, <1>5 DEF Start

\* A run ends by its Close only, which comes after it has executed.
LEMMA CloseGoes ==
  ASSUME IInv, NEW r \in Runs, Close(r)
  PROVE  Goes(r) /\ run[r].pc \in Executing /\ control'[run[r].job] = None
<1>1. run[r].pc = "closing"
  BY DEF Close
<1>2. TypeOK /\ run[r].job \in Jobs
  BY <1>1, RunAt
<1> QED BY <1>1, <1>2 DEF Close, Goes, Moved, TypeOK, Executing

-----------------------------------------------------------------------------

\* A run that stays does nothing the promise is about.
LEMMA StaysMaps ==
  ASSUME IInv, NEW r \in Runs, Stays(r)
  PROVE  UNCHANGED <<Accepted, Runner, Begun, deleted>>
BY SameMap DEF Stays, Moved

\* A run of a deleted task does nothing the promise is about when it goes.
LEMMA ForgottenGoesMaps ==
  ASSUME IInv, NEW r \in Runs, Goes(r), run[r].job \in deleted
  PROVE  UNCHANGED <<Accepted, Runner, Begun, deleted>>
<1>1. NoRun.job = None /\ NoRun.pc = "none" /\ "none" \notin Executing
  BY DEF NoRun, Executing, Interruptible
<1>2. None \notin deleted
  BY NoneAssumption DEF IInv, TypeOK
<1>3. Runner' = Runner /\ Begun' = Begun /\ deleted' = deleted
  BY <1>1, <1>2 DEF Goes, Moved, Runner, Begun
<1>4. \A j \in Jobs \ deleted : HasRun(j)' <=> HasRun(j)
  BY <1>1, <1>2, NoneAssumption DEF Goes, Moved, HasRun
<1>5. Accepted' = Accepted
  BY <1>3, <1>4 DEF Goes, Moved, Accepted
<1> QED BY <1>3, <1>5

\* Start is the Begin of the promise, unless the task has been deleted.
LEMMA BeginsMaps ==
  ASSUME IInv, NEW r \in Runs, Begins(r), run[r].pc # "none"
  PROVE  UNCHANGED <<Accepted, Runner, Begun, deleted>> \/ Promise!Begin(r)
<1>1. run[r].job \in Jobs
  BY RunAt
<1>2. Accepted' = Accepted /\ Runner' = Runner /\ UNCHANGED deleted
  BY DEF Begins, Moved, Accepted, Runner, HasRun
<1>3. CASE run[r].job \in deleted
  BY <1>2, <1>3 DEF Begins, Moved, Begun
<1>4. CASE run[r].job \notin deleted
  <2>1. r \notin Begun /\ Begun' = Begun \cup {r}
    BY <1>4 DEF Begins, Moved, Begun
  <2>2. Runner[r] # None
    BY <1>1, <1>4, NoneAssumption DEF Runner
  <2> QED BY <1>2, <2>1, <2>2 DEF Promise!Begin, Accepted, Runner, Begun
<1> QED BY <1>3, <1>4

\* Close is its End.
LEMMA ClosesMaps ==
  ASSUME IInv, NEW r \in Runs, Goes(r), run[r].pc \in Executing, control'[run[r].job] = None
  PROVE  UNCHANGED <<Accepted, Runner, Begun, deleted>> \/ Promise!End(r)
<1> DEFINE j == run[r].job
<1>1. NoRun.job = None /\ NoRun.pc = "none" /\ "none" \notin Executing
  BY DEF NoRun, Executing, Interruptible
<1>2. j \in Jobs
  BY <1>1, RunAt
<1>3. None \notin deleted
  BY NoneAssumption DEF IInv, TypeOK
<1>4. CASE j \notin deleted
  <2>1. r \in Begun /\ Begun' = Begun \ {r}
    BY <1>1, <1>3, <1>4 DEF Goes, Moved, Begun
  <2>2. Runner' = [Runner EXCEPT ![r] = None]
    BY <1>1, <1>3 DEF Goes, Moved, Runner
  <2>3. \A k \in Jobs \ {j} : HasRun(k)' <=> HasRun(k)
    BY <1>1, NoneAssumption DEF Goes, Moved, HasRun
  <2>4. Accepted' = Accepted
    <3>1. j \notin Accepted /\ j \notin Accepted'
      BY DEF Accepted, HasRun
    <3> QED BY <2>3, <3>1 DEF Goes, Moved, Accepted
  <2> QED BY <2>1, <2>2, <2>4 DEF Promise!End, Accepted, Runner, Begun, Goes, Moved
<1>5. CASE j \in deleted
  BY <1>5, ForgottenGoesMaps
<1> QED BY <1>4, <1>5

\* The registration of a control is the Accept of the promise.
LEMMA RegisterMaps ==
  ASSUME IInv, NEW c \in Callers, Enqueue(c) \/ Reserve(c)
  PROVE  UNCHANGED <<Accepted, Runner, Begun, deleted>> \/ \E j \in Jobs : Promise!Accept(j)
<1>0. PICK j \in Jobs : j = call[c].job
  <2>1. call[c].pc # "none"
    BY DEF Enqueue, Reserve
  <2> QED BY <2>1, CallAtKnows
<1>1. /\ call[c].pc \in {"enqueue", "reserve"} /\ UNCHANGED <<run, deleted>>
      /\ control' = control \/ control' = [control EXCEPT ![j] = IF @ = None THEN NewControl ELSE @]
  <2>1. CASE Enqueue(c)
    BY <1>0, <2>1 DEF Enqueue
  <2>2. CASE Reserve(c) /\ control[j] = None
    <3>1. call[c].pc = "reserve" /\ UNCHANGED <<run, deleted>>
          /\ control' = [control EXCEPT ![j] = NewControl]
      BY <1>0, <2>2 DEF Reserve
    <3>2. j \in Jobs /\ TypeOK
      BY <1>0, <3>1, CallAtKnows
    <3> QED BY <2>2, <3>1, <3>2 DEF TypeOK
  <2>3. CASE Reserve(c) /\ control[j] # None
    BY <1>0, <2>3 DEF Reserve
  <2> QED BY <2>1, <2>2, <2>3
<1>2. j \in Jobs /\ TypeOK
  BY <1>0, <1>1, CallAtKnows
<1>3. NewControl # None
  <2>1. NewControl \in Controls
    BY DEF NewControl, Controls
  <2> QED BY <2>1, NoneAssumption
<1>4. CASE control[j] # None \/ j \in deleted \/ control' = control
  <2>1. \A k \in Jobs \ deleted : control'[k] # None <=> control[k] # None
    BY <1>1, <1>2, <1>4 DEF TypeOK
  <2> QED BY <1>1, <2>1, SameMap
<1>5. CASE control[j] = None /\ j \notin deleted
           /\ control' = [control EXCEPT ![j] = IF @ = None THEN NewControl ELSE @]
  <2>1. ~ HasRun(j)
    BY <1>2, <1>5 DEF HasRun, IInv, Controlled
  <2>2. control'[j] # None /\ \A k \in Jobs \ {j} : control'[k] = control[k]
    BY <1>2, <1>3, <1>5 DEF TypeOK
  <2>3. Accepted' = Accepted \cup {j}
    BY <1>1, <1>2, <1>5, <2>1, <2>2 DEF Accepted, HasRun
  <2>4. j \notin Accepted /\ \A r \in Runs : Runner[r] # j
    BY <1>2, <1>5, <2>1, NoneAssumption DEF Accepted, Runner, HasRun
  <2>5. Runner' = Runner /\ Begun' = Begun
    BY <1>1 DEF Runner, Begun
  <2>6. Promise!Accept(j)
    BY <1>1, <1>5, <2>3, <2>4, <2>5 DEF Promise!Accept, Accepted, Runner, Begun
  <2> QED BY <1>2, <2>6
<1> QED BY <1>1, <1>4, <1>5

\* Send is its Dispatch, unless the task has been deleted.
LEMMA SendMaps ==
  ASSUME IInv, NEW c \in Callers, Send(c)
  PROVE  UNCHANGED <<Accepted, Runner, Begun, deleted>>
         \/ \E r \in Runs, j \in Jobs : Promise!Dispatch(r, j)
<1>0. PICK j \in Jobs : j = call[c].job
  <2>1. call[c].pc # "none"
    BY DEF Send
  <2> QED BY <2>1, CallAtKnows
<1> DEFINE resumed == call[c].kept \in Manifests
           input   == IF resumed THEN call[c].kept.input ELSE call[c].kept.manifest.input
           on      == [NoRun EXCEPT !.pc = "sent", !.job = j, !.input = input]
<1>1. call[c].pc = "send" /\ UNCHANGED <<control, deleted>>
  BY DEF Send
<1>2. TypeOK /\ j \in Jobs /\ Dispatching(c)
  BY <1>0, <1>1, CallAtKnows DEF Dispatching
<1>3. PICK r \in Runs : run[r] = NoRun /\ run' = [run EXCEPT ![r] = on]
  BY <1>0 DEF Send
<1> HIDE DEF input
<1>4. on.pc = "sent" /\ on.job = j /\ "sent" \notin Executing
      /\ run[r].pc = "none" /\ run[r].job = None /\ "none" \notin Executing
  BY <1>3 DEF NoRun, Executing, Interruptible
<1> HIDE DEF on
<1>5. run'[r] = on /\ \A s \in Runs \ {r} : run'[s] = run[s]
  BY <1>2, <1>3 DEF TypeOK
<1>6. None \notin Jobs /\ deleted \subseteq Jobs
  BY <1>2, NoneAssumption DEF TypeOK
<1>7. Begun' = Begun
  BY <1>1, <1>4, <1>5 DEF Begun
<1>8. \A k \in Jobs \ {j} : HasRun(k)' <=> HasRun(k)
  BY <1>4, <1>5, <1>6 DEF HasRun
<1>9. CASE j \in deleted
  <2>1. Runner' = Runner
    BY <1>1, <1>4, <1>5, <1>6, <1>9 DEF Runner
  <2>2. Accepted' = Accepted
    BY <1>1, <1>8, <1>9 DEF Accepted
  <2> QED BY <1>1, <1>7, <2>1, <2>2
<1>10. CASE j \notin deleted
  <2>1. control[j] # None /\ ~ HasRun(j)
    BY <1>0, <1>2, <1>10 DEF IInv, Controlled, OneDispatch, HasRun
  <2>2. HasRun(j)'
    BY <1>4, <1>5 DEF HasRun
  <2>3. j \in Accepted /\ Accepted' = Accepted \ {j}
    BY <1>1, <1>2, <1>8, <1>10, <2>1, <2>2 DEF Accepted
  <2>4. Runner[r] = None /\ Runner' = [Runner EXCEPT ![r] = j]
    BY <1>1, <1>4, <1>5, <1>6, <1>10 DEF Runner
  <2>5. Promise!Dispatch(r, j)
    BY <1>1, <1>7, <2>3, <2>4 DEF Promise!Dispatch, Accepted, Runner, Begun
  <2> QED BY <1>2, <2>5
<1> QED BY <1>9, <1>10

\* A resume that takes its control back does so for a deleted task only.
LEMMA TakenBackMaps ==
  ASSUME IInv, NEW c \in Callers, RequeueSync(c) \/ ReturnResumed(c)
  PROVE  UNCHANGED <<Accepted, Runner, Begun, deleted>>
<1> DEFINE j == call[c].job
<1>1. call[c].pc \in {"requeue_sync", "sent"} /\ UNCHANGED <<run, deleted>>
  BY DEF RequeueSync, ReturnResumed
<1>2. TypeOK /\ j \in Jobs /\ j \in submitted
  BY <1>1, CallAtKnows
<1>3. \A k \in Jobs \ deleted : control'[k] = control[k]
  <2>1. CASE UNCHANGED control
    BY <2>1
  <2>2. CASE ~ Loadable(j) /\ control' = [control EXCEPT ![j] = None]
    BY <1>2, <2>2 DEF IInv, Kept, Loadable, TypeOK
  <2> QED BY <2>1, <2>2 DEF RequeueSync, ReturnResumed
<1> QED BY <1>1, <1>3, SameMap

\* The pause flag is none of the promise.
LEMMA FlagMaps ==
  ASSUME IInv, NEW c \in Callers, Unhold(c) \/ \E j \in Jobs : Pause(c, j)
  PROVE  UNCHANGED <<Accepted, Runner, Begun, deleted>>
<1>1. ASSUME NEW j \in Jobs, NEW b \in BOOLEAN, control[j] # None, run' = Notify(j, run),
             control' = [control EXCEPT ![j].paused = b], UNCHANGED deleted
      PROVE  UNCHANGED <<Accepted, Runner, Begun, deleted>>
  <2> DEFINE flag == [control[j] EXCEPT !.paused = b]
  <2>1. TypeOK
    BY DEF IInv
  <2>2. flag \in Controls /\ control' = [control EXCEPT ![j] = flag]
    BY <1>1, <2>1 DEF TypeOK, Controls
  <2>3. flag # None
    BY <2>2, NoneAssumption
  <2> HIDE DEF flag
  <2>4. \A k \in Jobs : control'[k] # None <=> control[k] # None
    BY <1>1, <2>1, <2>2, <2>3 DEF TypeOK
  <2>5. \A r \in Runs : run'[r].pc = run[r].pc /\ run'[r].job = run[r].job
    BY <1>1, <2>1, NotifyKeeps
  <2> QED BY <1>1, <2>4, <2>5, SameMap
<1>2. ASSUME NEW j \in Jobs, Pause(c, j)
      PROVE  UNCHANGED <<Accepted, Runner, Begun, deleted>>
  BY <1>1, <1>2 DEF Pause
<1>3. CASE Unhold(c)
  <2> DEFINE j == call[c].job
  <2>1. call[c].pc = "unhold" /\ UNCHANGED deleted
    BY <1>3 DEF Unhold
  <2>2. j \in Jobs /\ control[j] # None
    BY <2>1, CallAtKnows DEF IInv, CallShape
  <2>3. CASE UNCHANGED <<control, run>>
    BY <2>1, <2>3, SameMap
  <2>4. CASE run' = Notify(j, run) /\ control' = [control EXCEPT ![j].paused = FALSE]
    <3> HIDE DEF j
    <3> QED BY <1>1, <2>1, <2>2, <2>4
  <2> QED BY <1>3, <2>3, <2>4 DEF Unhold
<1> QED BY <1>2, <1>3

\* The move of the directory is the Withdraw of the promise.
LEMMA DeleteMaps ==
  ASSUME IInv, NEW c \in Callers, DeleteMove(c)
  PROVE  \E j \in Jobs : Promise!Withdraw(j)
<1>0. PICK j \in Jobs : j = call[c].job
  <2>1. call[c].pc # "none"
    BY DEF DeleteMove
  <2> QED BY <2>1, CallAtKnows
<1>1. UNCHANGED <<control, run>> /\ deleted' = deleted \cup {j}
  BY <1>0 DEF DeleteMove
<1>2. j \in Jobs
  BY <1>0
<1>3. Accepted' = Accepted \ {j}
  BY <1>1 DEF Accepted, HasRun
<1>4. Runner' = [r \in Runs |-> IF Runner[r] = j THEN None ELSE Runner[r]]
  BY <1>1, <1>2, NoneAssumption DEF Runner
<1>5. Begun' = {r \in Begun : Runner[r] # j}
  BY <1>1 DEF Begun, Runner
<1>6. Promise!Withdraw(j)
  BY <1>1, <1>3, <1>4, <1>5 DEF Promise!Withdraw, Accepted, Runner, Begun
<1> QED BY <1>2, <1>6

\* The end of the process is its Stop.
LEMMA CrashMaps ==
  ASSUME IInv, Crash
  PROVE  Promise!Stop
<1>1. /\ control' = [j \in Jobs |-> None] /\ run' = [r \in Runs |-> NoRun] /\ deleted' = deleted
      /\ NoRun.job = None /\ NoRun.pc = "none" /\ "none" \notin Executing
  BY DEF Crash, NoRun, Executing, Interruptible
<1>2. Accepted' = {}
  BY <1>1 DEF Accepted
<1>3. Runner' = [r \in Runs |-> None] /\ Begun' = {}
  BY <1>1 DEF Runner, Begun
<1> QED BY <1>1, <1>2, <1>3 DEF Promise!Stop, Accepted, Runner, Begun

\* Every step is a step of the promise, or none it is about.
LEMMA NextMaps ==
  ASSUME IInv, [Next]_vars
  PROVE  [Promise!Next]_(Promise!vars)
<1> DEFINE Same == UNCHANGED <<Accepted, Runner, Begun, deleted>>
<1>1. Same => UNCHANGED Promise!vars
  BY DEF Promise!vars, Accepted, Runner, Begun
<1>2. ASSUME UNCHANGED <<control, run, deleted>>
      PROVE  Same
  BY <1>2 DEF Accepted, Runner, Begun, HasRun
<1>3. ASSUME NEW r \in Runs,
             \/ Execute(r) \/ Acquire(r) \/ Withdraw(r) \/ StopOnPause(r) \/ NextStage(r)
             \/ RecognitionFails(r) \/ WorkFails(r) \/ Poll(r)
      PROVE  Same \/ Promise!Begin(r) \/ Promise!End(r)
  <2>1. CASE Lookup(r) \/ Admit(r) \/ Wake(r) \/ Acquire(r) \/ Withdraw(r)
    BY <2>1, WaitStays, StaysMaps, ForgottenGoesMaps
  <2>2. CASE Start(r)
    <3>1. run[r].pc # "none"
      BY <2>2 DEF Start
    <3> QED BY <2>2, <3>1, StartBegins, StaysMaps, BeginsMaps, ForgottenGoesMaps
  <2>3. CASE Close(r)
    BY <2>3, CloseGoes, ClosesMaps
  <2>4. CASE Poll(r)
    BY <1>2, <2>4 DEF Poll, PollerLoads, PollerSyncs
  <2>5. CASE \/ Begin(r) \/ Enter(r) \/ Recognize(r) \/ NextStage(r) \/ Recognized(r)
             \/ RecognitionFails(r) \/ MarkTranslating(r) \/ JoinPrefix(r) \/ PublishCues(r)
             \/ MarkPublished(r) \/ Translate(r) \/ TranslatePending(r) \/ MarkDone(r)
             \/ FailManifest(r) \/ LoadFinal(r) \/ SyncFinal(r) \/ ForgetAutomatic(r)
             \/ StopOnPause(r) \/ WorkFails(r)
    BY <2>5, WorkStays, StaysMaps
  <2> QED BY <1>3, <2>1, <2>2, <2>3, <2>4, <2>5 DEF Execute
<1>4. ASSUME NEW c \in Callers, Serve(c)
      PROVE  \/ Same \/ \E j \in Jobs : Promise!Accept(j) \/ Promise!Withdraw(j)
             \/ \E r \in Runs, j \in Jobs : Promise!Dispatch(r, j)
  <2>1. CASE Enqueue(c) \/ Reserve(c)
    BY <2>1, RegisterMaps
  <2>2. CASE Send(c)
    BY <2>2, SendMaps
  <2>3. CASE RequeueSync(c) \/ ReturnResumed(c)
    BY <2>3, TakenBackMaps
  <2>4. CASE Unhold(c)
    BY <2>4, FlagMaps
  <2>5. CASE DeleteMove(c)
    BY <2>5, DeleteMaps
  <2>6. CASE \/ SubmitSync(c) \/ SubmitPrepare(c) \/ PauseSync(c) \/ ResumeCheck(c)
             \/ ResumeLock(c) \/ Requeue(c) \/ RefreshSync(c) \/ RelinkRow(c) \/ DeleteRow(c)
    BY <1>2, <2>6 DEF SubmitSync, SubmitPrepare, PauseSync, ResumeCheck, ResumeLock,
       Requeue, RefreshSync, RelinkRow, DeleteRow
  <2> QED BY <1>4, <2>1, <2>2, <2>3, <2>4, <2>5, <2>6 DEF Serve
<1>5. ASSUME NEW c \in Callers, NEW j \in Jobs, Issue(c, j)
      PROVE  Same
  <2>1. CASE Pause(c, j)
    BY <2>1, FlagMaps
  <2>2. CASE \/ SubmitCreate(c, j) \/ RetryCreate(c, j) \/ ResumeConfigure(c, j)
             \/ RefreshLoad(c, j) \/ RelinkManifest(c, j) \/ DeleteCheck(c, j)
    BY <1>2, <2>2 DEF SubmitCreate, RetryCreate, Create, ResumeConfigure, RefreshLoad,
       RelinkManifest, DeleteCheck
  <2> QED BY <1>5, <2>1, <2>2 DEF Issue
<1>6. ASSUME Ready \/ (\E j \in Jobs : Recover(j)) \/ UNCHANGED vars
      PROVE  Same
  BY <1>2, <1>6 DEF Ready, Recover, vars
<1> HIDE DEF Same
<1>7. Next => Same \/ Promise!Next
  <2> SUFFICES ASSUME Next
               PROVE  Same \/ Promise!Next
    OBVIOUS
  <2>1. ASSUME NEW r \in Runs,
               \/ Execute(r) \/ Acquire(r) \/ Withdraw(r) \/ StopOnPause(r) \/ NextStage(r)
               \/ RecognitionFails(r) \/ WorkFails(r) \/ Poll(r)
        PROVE  Same \/ Promise!Next
    BY <1>3, <2>1 DEF Promise!Next
  <2>2. ASSUME NEW c \in Callers, Serve(c)
        PROVE  Same \/ Promise!Next
    BY <1>4, <2>2 DEF Promise!Next
  <2> QED BY <1>5, <1>6, <2>1, <2>2, CrashMaps DEF Next, Promise!Next
<1> QED BY <1>1, <1>6, <1>7

\* The task queue implements the promise: every task that is accepted is handed
\* to exactly one run, which executes it before it ends, until the application
\* ends or the task is deleted.
THEOREM Implementation == Spec => KeepsPromise
<1>1. Init => Promise!Init
  <2> SUFFICES ASSUME Init
               PROVE  Promise!Init
    OBVIOUS
  <2>1. NoRun.job = None /\ NoRun.pc = "none" /\ "none" \notin Executing
    BY DEF NoRun, Executing, Interruptible
  <2> QED BY <2>1 DEF Init, Promise!Init
<1>2. IInv /\ [Next]_vars => [Promise!Next]_(Promise!vars)
  BY NextMaps
<1> QED BY <1>1, <1>2, Invariance, PTL DEF Spec, KeepsPromise, Promise!Spec
=============================================================================
