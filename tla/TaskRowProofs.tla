--------------------------- MODULE TaskRowProofs ---------------------------
(***************************************************************************)
(* What the rows of the task list say, and when they can be relied upon:   *)
(* theorems about TaskLifecycle for any number of tasks, callers and runs. *)
(* The published marker needs no assumption; each of the others assumes    *)
(* that the commands which break it, named with it, are not issued.        *)
(***************************************************************************)
EXTENDS TaskLifecycleProofs

USE DEF durable, memory, bounds, At, Goto, CallAt, CallGoto, CallEnters, Leaves
USE DEF Fits, Submits, Dispatches, TaskQuiet, LooksOn

-----------------------------------------------------------------------------
(* The published marker *)

Cued(j) == row[j] # None /\ row[j].cues

\* What a run between recognition and marker has in its hands.
Carries(r) ==
  LET j == run[r].job IN
  j \notin deleted =>
    /\ run[r].pc \in {"recognized", "prefix"} => "segments" \in dir[j].files
    /\ run[r].pc = "publishing" => run[r].kept.cues
    /\ run[r].pc = "marking" => Cued(j)

\* The points of a run between recognition and marker.
Carrying == {"recognized", "prefix", "publishing", "marking"}

CuesFollow == MarkedIsPublished /\ \A r \in Runs : Carries(r)

\* Files stay, and so do the cues of a row; the marker comes with the cues.
FilesStay ==
  /\ deleted \subseteq deleted'
  /\ \A j \in Jobs \ deleted :
       /\ dir[j].files \subseteq dir'[j].files
       /\ Cued(j) => Cued(j)'
       /\ "published" \in dir'[j].files => "published" \in dir[j].files \/ Cued(j)'

\* A run that stands where it stood has what it had.
RunsCarry ==
  \A r \in Runs :
    \/ run'[r].job = run[r].job /\ run'[r].pc = run[r].pc /\ run'[r].kept = run[r].kept
    \/ run'[r].pc \notin Carrying
    \/ Carries(r)'

\* The invariant is kept where files, cues and what a run carries are.
LEMMA StayFollows ==
  ASSUME IInv, CuesFollow, FilesStay, RunsCarry
  PROVE  CuesFollow'
<1>1. MarkedIsPublished'
  BY DEF CuesFollow, MarkedIsPublished, FilesStay, Cued
<1>2. ASSUME NEW r \in Runs
      PROVE  Carries(r)'
  <2>1. CASE run'[r].job = run[r].job /\ run'[r].pc = run[r].pc /\ run'[r].kept = run[r].kept
    <3>1. run[r].pc # "none" => run[r].job \in Jobs
      BY RunAt
    <3>2. Carries(r)
      BY DEF CuesFollow
    <3> QED BY <2>1, <3>1, <3>2 DEF Carries, FilesStay
  <2>2. CASE run'[r].pc \notin Carrying
    BY <2>2 DEF Carries, Carrying
  <2> QED BY <2>1, <2>2 DEF RunsCarry
<1> QED BY <1>1, <1>2 DEF CuesFollow

\* The actions that leave files and rows alone.
LEMMA QuietStays ==
  ASSUME IInv, UNCHANGED <<dir, row>>, deleted \subseteq deleted'
  PROVE  FilesStay
BY DEF FilesStay, Cued

\* Files but the marker are added to one task.
LEMMA FilesOnlyStay ==
  ASSUME IInv, NEW j \in Jobs, \A k \in Jobs \ {j} : dir'[k] = dir[k],
         UNCHANGED <<row, deleted>>, dir[j].files \subseteq dir'[j].files,
         "published" \in dir'[j].files => "published" \in dir[j].files
  PROVE  FilesStay
BY DEF FilesStay, Cued

\* A manifest is written.
LEMMA ManifestStays ==
  ASSUME IInv, NEW j \in Jobs, NEW m \in Manifests, WriteManifest(j, m), UNCHANGED <<row, deleted>>
  PROVE  FilesStay /\ dir'[j].files = dir[j].files
BY WriteManifestKeeps, FilesOnlyStay DEF IInv

\* A status is written.
LEMMA StatusStays ==
  ASSUME IInv, NEW j \in Jobs, NEW s \in Statuses, Loadable(j), WriteStatus(j, s),
         UNCHANGED <<row, deleted>>
  PROVE  FilesStay /\ dir'[j].files = dir[j].files
BY WriteStatusKeeps, FilesOnlyStay DEF IInv

\* The fields of a row.
LEMMA RowFields ==
  ASSUME NEW status, NEW input, NEW cues, NEW translated, NEW new,
         new = [status |-> status, input |-> input, cues |-> cues, translated |-> translated]
  PROVE  /\ new.status = status /\ new.input = input
         /\ new.cues = cues /\ new.translated = translated
OBVIOUS

\* A sync never takes cues away, and brings those of its snapshot.
LEMMA SyncStays ==
  ASSUME IInv, NEW j \in Jobs, NEW s \in Snapshots, SyncRow(j, s), UNCHANGED <<dir, deleted>>
  PROVE  FilesStay /\ (s.cues => Cued(j)')
<1>1. row'[j] = [status |-> s.manifest.status, input |-> s.manifest.input,
                 cues |-> s.cues \/ (row[j] # None /\ row[j].cues),
                 translated |-> row[j] # None /\ row[j].translated]
  BY DEF IInv, TypeOK, SyncRow
<1>2. row'[j] # None /\ \A k \in Jobs \ {j} : row'[k] = row[k]
  BY SyncRowKeeps DEF IInv
<1>3. (s.cues \/ Cued(j)) => Cued(j)'
  <2>1. row'[j].cues = (s.cues \/ (row[j] # None /\ row[j].cues))
    BY <1>1, RowFields
  <2> QED BY <1>2, <2>1, Zenon DEF Cued
<1>4. \A k \in Jobs \ {j} : Cued(k) => Cued(k)'
  BY <1>2 DEF Cued
<1> QED BY <1>3, <1>4 DEF FilesStay

\* A run that is not on its way to the marker carries nothing.
LEMMA OthersCarry ==
  ASSUME IInv, NEW r \in Runs, \A s \in Runs \ {r} : run'[s] = run[s],
         run'[r].pc \notin Carrying
  PROVE RunsCarry
BY DEF RunsCarry

\* What the steps of run r do to the runs: the others stay as they are, and r is
\* at none of the points where it carries cues.
Empties(r) ==
  /\ \A s \in Runs \ {r} : run'[s] = run[s]
  /\ run'[r].pc \notin Carrying

\* Admission: the run has not recognised anything yet.
LEMMA AdmissionEmpties ==
  ASSUME IInv, NEW r \in Runs,
    Lookup(r) \/ Admit(r) \/ Wake(r) \/ Acquire(r) \/ Withdraw(r) \/ Start(r) \/ Begin(r)
  PROVE  Empties(r)
<1> USE DEF Empties, Carrying
<1>1. run \in [Runs -> RunStates] /\ NoRun.pc = "none"
  BY DEF IInv, TypeOK, NoRun
<1>2. CASE Lookup(r)
  BY <1>1, <1>2 DEF Lookup, RunStates
<1>3. CASE Admit(r)
  BY <1>1, <1>3 DEF Admit, RunStates
<1>4. CASE Wake(r)
  BY <1>1, <1>4 DEF Wake, RunStates
<1>5. CASE Acquire(r)
  BY <1>1, <1>5 DEF Acquire, RunStates
<1>6. CASE Withdraw(r)
  BY <1>1, <1>6 DEF Withdraw, RunStates
<1>7. CASE Start(r)
  <2>1. CASE run' = [run EXCEPT ![r] = NoRun]
    BY <1>1, <2>1
  <2>2. CASE run' = [run EXCEPT ![r].pc = "waiting", ![r].permit = FALSE]
    BY <1>1, <2>2 DEF RunStates
  <2>3. CASE Goto(r, "starting")
    BY <1>1, <2>3 DEF RunStates
  <2> QED BY <1>7, <2>1, <2>2, <2>3 DEF Start
<1>8. CASE Begin(r)
  BY <1>1, <1>8 DEF Begin, RunStates
<1> QED BY <1>2, <1>3, <1>4, <1>5, <1>6, <1>7, <1>8

\* The work stopped, failed or not begun, and the end of a run.
LEMMA EndingEmpties ==
  ASSUME IInv, NEW r \in Runs,
    StopOnPause(r) \/ WorkFails(r) \/ Enter(r) \/ LoadFinal(r) \/ ForgetAutomatic(r) \/ Close(r)
  PROVE  Empties(r)
<1> USE DEF Empties, Carrying
<1>1. run \in [Runs -> RunStates] /\ NoRun.pc = "none"
  BY DEF IInv, TypeOK, NoRun
<1>2. CASE StopOnPause(r)
  BY <1>1, <1>2 DEF StopOnPause, FinishWork, RunStates
<1>3. CASE WorkFails(r)
  BY <1>1, <1>3 DEF WorkFails, FinishWork, RunStates
<1>4. CASE Enter(r)
  <2>1. CASE FinishWork(r, "failing")
    BY <1>1, <2>1 DEF FinishWork, RunStates
  <2>2. CASE Goto(r, "translate") \/ Goto(r, "recognize")
    BY <1>1, <2>2 DEF RunStates
  <2> QED BY <1>4, <2>1, <2>2 DEF Enter
<1>5. CASE LoadFinal(r)
  <2>1. CASE run' = [run EXCEPT ![r].pc = "reporting", ![r].kept = Snapshot(run[r].job)]
    BY <1>1, <2>1 DEF RunStates
  <2>2. CASE Goto(r, "leaving")
    BY <1>1, <2>2 DEF RunStates
  <2> QED BY <1>5, <2>1, <2>2 DEF LoadFinal
<1>6. CASE ForgetAutomatic(r)
  BY <1>1, <1>6 DEF ForgetAutomatic, RunStates
<1>7. CASE Close(r)
  BY <1>1, <1>7 DEF Close, RunStates
<1> QED BY <1>2, <1>3, <1>4, <1>5, <1>6, <1>7

\* None of these steps writes a file or a row.
LEMMA EmptyStepFollows ==
  ASSUME IInv, CuesFollow, NEW r \in Runs,
    \/ Lookup(r) \/ Admit(r) \/ Wake(r) \/ Acquire(r) \/ Withdraw(r) \/ Start(r) \/ Begin(r)
    \/ StopOnPause(r) \/ WorkFails(r) \/ Enter(r) \/ LoadFinal(r) \/ ForgetAutomatic(r) \/ Close(r)
  PROVE CuesFollow'
<1>1. Empties(r)
  BY AdmissionEmpties, EndingEmpties
<1>2. UNCHANGED <<dir, row, deleted>>
  BY DEF Lookup, Admit, Wake, Start, Begin, Enter, Acquire, Withdraw, StopOnPause, WorkFails,
         LoadFinal, ForgetAutomatic, Close
<1> QED BY <1>1, <1>2, QuietStays, OthersCarry, StayFollows DEF Empties

\* The stages of the recognition, and its failure.
LEMMA StageFollows ==
  ASSUME IInv, CuesFollow, NEW r \in Runs, Recognize(r) \/ NextStage(r) \/ RecognitionFails(r)
  PROVE  CuesFollow'
<1>1. run[r].pc # "none" /\ UNCHANGED <<row, deleted>>
  BY DEF Recognize, NextStage, WriteStage, RecognitionFails
<1>2. \E m \in Manifests : WriteManifest(run[r].job, m)
  <2>1. /\ [status |-> "active", input |-> run[r].input] \in Manifests
        /\ [status |-> "failed", input |-> run[r].input] \in Manifests
    BY <1>1, RunAt DEF Manifests, Statuses
  <2> QED BY <2>1 DEF Recognize, NextStage, WriteStage, RecognitionFails
<1>3. FilesStay
  BY <1>1, <1>2, RunAt, ManifestStays
<1>4. Empties(r)
  <2>1. CASE Goto(r, "recognizing")
    BY <2>1 DEF IInv, TypeOK, RunStates, Empties, Carrying
  <2>2. CASE run' = [run EXCEPT ![r].pc = "unrecognized", ![r].permit = FALSE]
    BY <2>2 DEF IInv, TypeOK, RunStates, Empties, Carrying
  <2> QED BY <2>1, <2>2 DEF Recognize, NextStage, WriteStage, RecognitionFails
<1> QED BY <1>3, <1>4, OthersCarry, StayFollows DEF Empties

\* A run that carries cues now, the others standing where they stood.
LEMMA OneCarries ==
  ASSUME NEW r \in Runs, \A s \in Runs \ {r} : run'[s] = run[s], Carries(r)'
  PROVE  RunsCarry
BY DEF RunsCarry

\* The recognition ends with the segments on disk.
LEMMA RecognizedFollows ==
  ASSUME IInv, CuesFollow, NEW r \in Runs, Recognized(r)
  PROVE  CuesFollow'
<1> DEFINE j == run[r].job
<1>1. run[r].pc # "none" /\ UNCHANGED <<row, deleted>> /\ j \in Jobs
  BY RunAt DEF Recognized
<1>2. dir'[j].files = dir[j].files \cup {"segments"} /\ \A k \in Jobs \ {j} : dir'[k] = dir[k]
  BY <1>1, RunAt DEF Recognized, TypeOK
<1>3. FilesStay
  BY <1>1, <1>2, FilesOnlyStay
<1>4. /\ \A s \in Runs \ {r} : run'[s] = run[s]
      /\ run'[r].pc = "recognized" /\ run'[r].job = j
  BY <1>1, RunAt DEF Recognized, TypeOK, RunStates
<1>5. Carries(r)'
  BY <1>2, <1>4 DEF Carries
<1> QED BY <1>3, <1>4, <1>5, OneCarries, StayFollows

\* An automatic task is marked translating; the segments stay.
LEMMA MarkTranslatingFollows ==
  ASSUME IInv, CuesFollow, NEW r \in Runs, MarkTranslating(r)
  PROVE  CuesFollow'
<1> DEFINE j == run[r].job
<1>1. run[r].pc = "recognized" /\ UNCHANGED <<row, deleted>> /\ j \in Jobs
  BY RunAt DEF MarkTranslating
<1>2. FilesStay /\ dir'[j].files = dir[j].files
  <2>1. CASE dir' = dir
    BY <1>1, <2>1, QuietStays
  <2>2. CASE Loadable(j) /\ WriteStatus(j, "translating")
    BY <1>1, <2>2, StatusStays DEF Statuses
  <2> QED BY <2>1, <2>2 DEF MarkTranslating
<1>3. CASE FinishWork(r, "failing")
  <2>1. Empties(r)
    BY <1>3 DEF FinishWork, IInv, TypeOK, RunStates, Empties, Carrying
  <2> QED BY <1>2, <2>1, OthersCarry, StayFollows DEF Empties
<1>4. CASE Goto(r, "prefix")
  <2>1. /\ \A s \in Runs \ {r} : run'[s] = run[s]
        /\ run'[r].pc = "prefix" /\ run'[r].job = j
    BY <1>1, <1>4, RunAt DEF TypeOK, RunStates
  <2>2. Carries(r)'
    BY <1>1, <1>2, <2>1 DEF Carries, CuesFollow
  <2> QED BY <1>2, <2>1, <2>2, OneCarries, StayFollows
<1> QED BY <1>3, <1>4 DEF MarkTranslating

\* The snapshot to publish has cues, because the segments are there.
LEMMA JoinPrefixFollows ==
  ASSUME IInv, CuesFollow, NEW r \in Runs, JoinPrefix(r)
  PROVE  CuesFollow'
<1> DEFINE j == run[r].job
<1>1. run[r].pc # "none" /\ UNCHANGED <<dir, row, deleted>> /\ j \in Jobs
  BY RunAt DEF JoinPrefix
<1>2. CASE FinishWork(r, "failing")
  <2>1. Empties(r)
    BY <1>2 DEF FinishWork, IInv, TypeOK, RunStates, Empties, Carrying
  <2> QED BY <1>1, <2>1, QuietStays, OthersCarry, StayFollows DEF Empties
<1>3. CASE run[r].pc = "prefix" /\ run' = [run EXCEPT ![r].pc = "publishing", ![r].kept = Snapshot(j)]
  <2>1. /\ \A s \in Runs \ {r} : run'[s] = run[s]
        /\ run'[r].pc = "publishing" /\ run'[r].job = j /\ run'[r].kept = Snapshot(j)
    BY <1>1, <1>3, RunAt DEF TypeOK, RunStates
  <2>2. j \notin deleted => "segments" \in dir[j].files
    BY <1>3 DEF Carries, CuesFollow
  <2>3. j \notin deleted => Snapshot(j).cues
    BY <2>2, Zenon DEF Snapshot
  <2>4. Carries(r)'
    BY <1>1, <2>1, <2>3 DEF Carries
  <2> QED BY <1>1, <2>1, <2>4, QuietStays, OneCarries, StayFollows
<1> QED BY <1>2, <1>3 DEF JoinPrefix

\* The cues enter the row ...
LEMMA PublishCuesFollows ==
  ASSUME IInv, CuesFollow, NEW r \in Runs, PublishCues(r)
  PROVE  CuesFollow'
<1>1. /\ run[r].pc = "publishing" /\ UNCHANGED <<dir, deleted>> /\ run[r].job \in Jobs
      /\ run[r].kept \in Snapshots /\ SyncRow(run[r].job, run[r].kept)
  BY RunAt DEF PublishCues, Shaped
<1>2. PICK j \in Jobs : j = run[r].job
  BY <1>1
<1>3. FilesStay /\ (run[r].kept.cues => Cued(j)')
  BY <1>1, <1>2, SyncStays
<1>4. /\ \A s \in Runs \ {r} : run'[s] = run[s]
      /\ run'[r].pc = "marking" /\ run'[r].job = j
  BY <1>1, <1>2, RunAt DEF PublishCues, TypeOK, RunStates
<1>5. j \notin deleted => run[r].kept.cues
  BY <1>1, <1>2 DEF Carries, CuesFollow
<1>6. Carries(r)'
  BY <1>1, <1>3, <1>4, <1>5 DEF Carries, Cued
<1> QED BY <1>3, <1>4, <1>6, OneCarries, StayFollows

\* ... and only then the marker is written.
LEMMA MarkPublishedFollows ==
  ASSUME IInv, CuesFollow, NEW r \in Runs, MarkPublished(r)
  PROVE  CuesFollow'
<1> DEFINE j == run[r].job
<1>1. run[r].pc = "marking" /\ UNCHANGED <<row, deleted>> /\ j \in Jobs
  BY RunAt DEF MarkPublished
<1>2. dir'[j].files = dir[j].files \cup {"published"} /\ \A k \in Jobs \ {j} : dir'[k] = dir[k]
  BY <1>1, RunAt DEF MarkPublished, TypeOK, Directories
<1>3. j \notin deleted => Cued(j)
  BY <1>1 DEF Carries, CuesFollow
<1>4. FilesStay
  BY <1>1, <1>2, <1>3 DEF FilesStay, Cued
<1>5. Empties(r)
  BY <1>1, RunAt DEF MarkPublished, TypeOK, RunStates, Empties, Carrying
<1> QED BY <1>4, <1>5, OthersCarry, StayFollows DEF Empties

\* The translation, and the failure of a run, write statuses and translations.
LEMMA TranslationFollows ==
  ASSUME IInv, CuesFollow, NEW r \in Runs,
         Translate(r) \/ TranslatePending(r) \/ MarkDone(r) \/ FailManifest(r)
  PROVE  CuesFollow'
<1> DEFINE j == run[r].job
<1>1. run[r].pc # "none" /\ deleted' = deleted /\ j \in Jobs
  BY RunAt DEF Translate, TranslatePending, MarkDone, FailManifest
<1>2. ASSUME Translate(r)
      PROVE  FilesStay /\ Empties(r)
  <2>1. FilesStay
    <3>1. CASE UNCHANGED <<dir, row>>
      BY <1>1, <3>1, QuietStays
    <3>2. CASE Loadable(j) /\ WriteStatus(j, "translating") /\ row' = row
      BY <1>1, <3>2, StatusStays DEF Statuses
    <3> QED BY <1>2, <3>1, <3>2 DEF Translate
  <2>2. Empties(r)
    <3>1. CASE FinishWork(r, "ending") \/ FinishWork(r, "failing")
      BY <1>1, <3>1, RunAt DEF FinishWork, TypeOK, RunStates, Empties, Carrying
    <3>2. CASE run' = [run EXCEPT ![r].pc = "translating", ![r].kept = dir[j].manifest]
      BY <1>1, <3>2, RunAt DEF TypeOK, RunStates, Empties, Carrying
    <3> QED BY <1>2, <3>1, <3>2 DEF Translate
  <2> QED BY <2>1, <2>2
<1>3. ASSUME TranslatePending(r)
      PROVE  FilesStay /\ Empties(r)
  <2>1. row[j] # None /\ row[j] \in Rows
    BY <1>1, <1>3, RunAt DEF TranslatePending, TypeOK
  <2>2. row' = [row EXCEPT ![j].translated = TRUE] /\ dir' = dir
    BY <1>3 DEF TranslatePending
  <2>3. [row[j] EXCEPT !.translated = TRUE] \in Rows /\ [row[j] EXCEPT !.translated = TRUE].cues = row[j].cues
    BY <2>1 DEF Rows
  <2>4. row'[j] = [row[j] EXCEPT !.translated = TRUE] /\ \A k \in Jobs \ {j} : row'[k] = row[k]
    BY <1>1, <2>2, RunAt DEF TypeOK
  <2>5. row'[j] # None /\ row'[j].cues = row[j].cues
    BY <2>3, <2>4, NoneAssumption
  <2>6. FilesStay
    BY <1>1, <2>1, <2>2, <2>4, <2>5 DEF FilesStay, Cued
  <2>7. Empties(r)
    BY <1>1, <1>3, RunAt DEF TranslatePending, TypeOK, RunStates, Empties, Carrying
  <2> QED BY <2>6, <2>7
<1>4. ASSUME MarkDone(r)
      PROVE  FilesStay /\ Empties(r)
  <2>1. [run[r].kept EXCEPT !.status = "done"] \in Manifests
    BY <1>4, RunAt DEF MarkDone, Shaped, Manifests, Statuses
  <2>2. FilesStay
    BY <1>1, <1>4, <2>1, ManifestStays DEF MarkDone
  <2>3. Empties(r)
    BY <1>1, <1>4, RunAt DEF MarkDone, FinishWork, TypeOK, RunStates, Empties, Carrying
  <2> QED BY <2>2, <2>3
<1>5. ASSUME FailManifest(r)
      PROVE  FilesStay /\ Empties(r)
  <2>1. FilesStay
    <3>1. CASE dir' = dir
      BY <1>1, <1>5, <3>1, QuietStays DEF FailManifest
    <3>2. CASE Loadable(j) /\ WriteStatus(j, "failed")
      BY <1>1, <1>5, <3>2, StatusStays DEF FailManifest, Statuses
    <3> QED BY <1>5, <3>1, <3>2 DEF FailManifest
  <2>2. Empties(r)
    BY <1>1, <1>5, RunAt DEF FailManifest, TypeOK, RunStates, Empties, Carrying
  <2> QED BY <2>1, <2>2
<1>6. FilesStay /\ Empties(r)
  BY <1>2, <1>3, <1>4, <1>5
<1> QED BY <1>6, OthersCarry, StayFollows DEF Empties

\* Steps that leave the runs where they are.
LEMMA StillCarry ==
  ASSUME UNCHANGED run
  PROVE  RunsCarry
BY DEF RunsCarry

\* Publishing a snapshot, by whom ever, loses no cues.
LEMMA RowStepFollows ==
  ASSUME IInv, CuesFollow, NEW j \in Jobs, UNCHANGED <<dir, deleted>>, RunsCarry,
         \/ row' = row
         \/ \E s \in Snapshots : SyncRow(j, s)
  PROVE  CuesFollow'
<1>1. FilesStay
  <2>1. CASE row' = row
    BY <2>1, QuietStays
  <2>2. ASSUME NEW s \in Snapshots, SyncRow(j, s)
        PROVE  FilesStay
    BY <2>2, SyncStays
  <2> QED BY <2>1, <2>2
<1> QED BY <1>1, StayFollows

\* The pollers, and the last report of a run.
LEMMA PollFollows ==
  ASSUME IInv, CuesFollow, NEW r \in Runs, PollerLoads(r) \/ PollerSyncs(r) \/ SyncFinal(r)
  PROVE  CuesFollow'
<1> DEFINE j == run[r].job
<1>1. run[r].pc # "none" /\ j \in Jobs /\ deleted' = deleted /\ Shaped(run[r], poller[r])
  <2>1. Shaped(run[r], poller[r]) /\ deleted' = deleted
    BY DEF IInv, RunShape, PollerLoads, PollerSyncs, SyncFinal
  <2>2. run[r].pc # "none"
    BY <2>1 DEF PollerLoads, PollerSyncs, SyncFinal, Shaped, Working, Interruptible
  <2> QED BY <2>1, <2>2, RunAt
<1>2. CASE PollerLoads(r)
  <2>1. run' = run /\ row' = row
    BY <1>2 DEF PollerLoads
  <2>2. CASE dir' = dir
    BY <1>1, <2>1, <2>2, StillCarry, RowStepFollows
  <2>3. CASE dir' = [dir EXCEPT ![j].exists = TRUE]
    <3>1. dir'[j].files = dir[j].files /\ \A k \in Jobs \ {j} : dir'[k] = dir[k]
      BY <1>1, <2>3 DEF IInv, TypeOK, Directories
    <3> QED BY <1>1, <2>1, <3>1, FilesOnlyStay, StillCarry, StayFollows
  <2> QED BY <1>2, <2>2, <2>3 DEF PollerLoads
<1>3. CASE PollerSyncs(r)
  <2>1. poller[r].seen \in Snapshots
    BY <1>3 DEF PollerSyncs, IInv, TypeOK, PollerStates
  <2> QED BY <1>1, <1>3, <2>1, StillCarry, RowStepFollows DEF PollerSyncs
<1>4. CASE SyncFinal(r)
  <2>1. run[r].kept \in Snapshots
    BY <1>1, <1>4 DEF SyncFinal, Shaped
  <2>2. Empties(r)
    BY <1>1, <1>4, RunAt DEF SyncFinal, TypeOK, RunStates, Empties, Carrying
  <2> QED BY <1>1, <1>4, <2>1, <2>2, OthersCarry, RowStepFollows DEF SyncFinal, Empties
<1> QED BY <1>2, <1>3, <1>4

\* The commands that write no file and at most a snapshot into a row.
LEMMA CallRowFollows ==
  ASSUME IInv, CuesFollow, NEW c \in Callers,
         \/ SubmitSync(c) \/ PauseSync(c) \/ RequeueSync(c) \/ RefreshSync(c)
         \/ ResumeCheck(c) \/ Reserve(c) \/ ReturnResumed(c)
  PROVE  CuesFollow'
<1> DEFINE j == call[c].job
<1>1. /\ call[c].pc # "none" /\ UNCHANGED <<dir, deleted, run>>
      /\ j \in Jobs /\ TypeOK /\ Fits(call[c])
  <2>1. call[c].pc # "none" /\ UNCHANGED <<dir, deleted, run>>
    BY DEF SubmitSync, PauseSync, RequeueSync, RefreshSync, ResumeCheck, Reserve, ReturnResumed
  <2> QED BY <2>1, CallAtKnows
<1>2. row' = row \/ \E s \in Snapshots : SyncRow(j, s)
  <2>1. CASE SubmitSync(c) \/ RefreshSync(c)
    BY <1>1, <2>1 DEF SubmitSync, RefreshSync
  <2>2. CASE PauseSync(c) \/ RequeueSync(c)
    BY <1>1, <2>2, SnapshotType DEF PauseSync, RequeueSync
  <2>3. CASE ResumeCheck(c) \/ Reserve(c) \/ ReturnResumed(c)
    BY <2>3 DEF ResumeCheck, Reserve, ReturnResumed
  <2> QED BY <2>1, <2>2, <2>3
<1> QED BY <1>1, <1>2, StillCarry, RowStepFollows

\* The commands that write a manifest or another file than the marker.
LEMMA CallFilesFollow ==
  ASSUME IInv, CuesFollow, NEW c \in Callers,
         SubmitPrepare(c) \/ Enqueue(c) \/ Requeue(c) \/ ResumeLock(c)
  PROVE  CuesFollow'
<1> DEFINE j == call[c].job
<1>1. /\ call[c].pc # "none" /\ UNCHANGED <<row, deleted, run>>
      /\ j \in Jobs /\ TypeOK /\ Fits(call[c])
  <2>1. call[c].pc # "none" /\ UNCHANGED <<row, deleted, run>>
    BY DEF SubmitPrepare, Enqueue, Requeue, ResumeLock
  <2> QED BY <2>1, CallAtKnows
<1>2. dir[j] \in Directories /\ dir \in [Jobs -> Directories]
  BY <1>1 DEF TypeOK
<1>3. FilesStay
  <2>1. CASE SubmitPrepare(c)
    <3>1. /\ dir'[j].files \in {dir[j].files \cup {"preferences", "options"}, dir[j].files \cup {"options"}}
          /\ \A k \in Jobs \ {j} : dir'[k] = dir[k]
      BY <1>1, <1>2, <2>1 DEF SubmitPrepare, Directories
    <3> QED BY <1>1, <3>1, FilesOnlyStay
  <2>2. CASE Enqueue(c)
    <3>1. dir'[j].files = dir[j].files \cup {"workflow"} /\ \A k \in Jobs \ {j} : dir'[k] = dir[k]
      BY <1>1, <1>2, <2>2 DEF Enqueue, Directories
    <3> QED BY <1>1, <3>1, FilesOnlyStay
  <2>3. CASE Requeue(c)
    <3>1. [call[c].kept EXCEPT !.status = "queued"] \in Manifests
      BY <1>1, <2>3 DEF Requeue, Manifests, Statuses
    <3> QED BY <1>1, <2>3, <3>1, ManifestStays DEF Requeue
  <2>4. CASE ResumeLock(c)
    <3>1. CASE dir' = dir
      BY <1>1, <3>1, QuietStays
    <3>2. CASE Loadable(j) /\ WriteStatus(j, "queued")
      BY <1>1, <3>2, StatusStays DEF Statuses
    <3> QED BY <2>4, <3>1, <3>2 DEF ResumeLock
  <2> QED BY <2>1, <2>2, <2>3, <2>4
<1> QED BY <1>1, <1>3, StillCarry, StayFollows

\* A notified run stands where it stood.
LEMMA NotifiedCarry ==
  ASSUME TypeOK, NEW j \in Jobs, run' = Notify(j, run)
  PROVE  RunsCarry
BY NotifyKeeps DEF RunsCarry

\* Pause and the resume of a held task write a status and notify the run.
LEMMA FlagFollows ==
  ASSUME IInv, CuesFollow, NEW c \in Callers, (\E j \in Jobs : Pause(c, j)) \/ Unhold(c)
  PROVE  CuesFollow'
<1>1. ASSUME NEW j \in Jobs, Pause(c, j)
      PROVE  CuesFollow'
  <2>1. UNCHANGED <<row, deleted>> /\ run' = Notify(j, run)
    BY <1>1 DEF Pause
  <2>2. FilesStay
    <3>1. CASE dir' = dir
      BY <2>1, <3>1, QuietStays
    <3>2. CASE Loadable(j) /\ WriteStatus(j, "failed")
      BY <2>1, <3>2, StatusStays DEF Statuses
    <3> QED BY <1>1, <3>1, <3>2 DEF Pause
  <2> QED BY <2>1, <2>2, NotifiedCarry, StayFollows DEF IInv
<1>2. ASSUME Unhold(c)
      PROVE  CuesFollow'
  <2>1. call[c].job \in Jobs /\ TypeOK /\ UNCHANGED <<dir, deleted>>
    BY <1>2, CallAtKnows DEF Unhold
  <2>2. CASE Loadable(call[c].job) /\ SyncRow(call[c].job, Snapshot(call[c].job)) /\ run' = Notify(call[c].job, run)
    BY <2>1, <2>2, SnapshotType, NotifiedCarry, RowStepFollows
  <2>3. CASE UNCHANGED <<row, run>>
    BY <2>1, <2>3, StillCarry, RowStepFollows
  <2> QED BY <1>2, <2>2, <2>3 DEF Unhold
<1> QED BY <1>1, <1>2

\* A run that is sent has recognised nothing yet.
LEMMA SendFollows ==
  ASSUME IInv, CuesFollow, NEW c \in Callers, Send(c)
  PROVE  CuesFollow'
<1>1. UNCHANGED <<dir, row, deleted>>
  BY DEF Send
<1> DEFINE resumed == call[c].kept \in Manifests
           input   == IF resumed THEN call[c].kept.input ELSE call[c].kept.manifest.input
           on      == [NoRun EXCEPT !.pc = "sent", !.job = call[c].job, !.input = input]
<1>2. PICK r \in Runs : run' = [run EXCEPT ![r] = on]
  BY DEF Send
<1> HIDE DEF input
<1>3. on.pc = "sent"
  BY DEF NoRun
<1> HIDE DEF on
<1>4. (\A s \in Runs \ {r} : run'[s] = run[s]) /\ run'[r].pc = "sent"
  BY <1>2, <1>3 DEF IInv, TypeOK
<1> QED BY <1>1, <1>4, QuietStays, OthersCarry, StayFollows DEF Carrying

\* Looking at a task, and creating one, touch the cues of none.
LEMMA IssueFollows ==
  ASSUME IInv, CuesFollow, NEW c \in Callers, NEW j \in Jobs,
         \/ SubmitCreate(c, j) \/ RetryCreate(c, j) \/ ResumeConfigure(c, j)
         \/ RefreshLoad(c, j) \/ RelinkManifest(c, j) \/ DeleteCheck(c, j)
  PROVE  CuesFollow'
<1>1. UNCHANGED <<row, deleted, run>>
  BY DEF SubmitCreate, RetryCreate, Create, ResumeConfigure, RefreshLoad, RelinkManifest, DeleteCheck
<1>2. dir' = dir \/ \E m \in Manifests : WriteManifest(j, m)
  <2>1. ASSUME NEW input \in {"original", "relinked"}, Create(c, j, input)
        PROVE  \E m \in Manifests : WriteManifest(j, m)
    <3>1. [status |-> "queued", input |-> input] \in Manifests
      BY DEF Manifests, Statuses
    <3> QED BY <2>1, <3>1 DEF Create
  <2>2. CASE SubmitCreate(c, j)
    BY <2>1, <2>2 DEF SubmitCreate
  <2>3. CASE RetryCreate(c, j)
    <3>1. PICK k \in Jobs : Loadable(k) /\ Create(c, j, dir[k].manifest.input)
      BY <2>3 DEF RetryCreate
    <3>2. dir[k].manifest.input \in {"original", "relinked"}
      BY <3>1 DEF Loadable, IInv, TypeOK, Directories, Manifests
    <3> QED BY <2>1, <3>1, <3>2
  <2>4. CASE RelinkManifest(c, j)
    <3>1. dir[j].manifest \in Manifests
      BY <2>4 DEF RelinkManifest, Loadable, IInv, TypeOK, Directories
    <3>2. [dir[j].manifest EXCEPT !.input = "relinked"] \in Manifests
      BY <3>1 DEF Manifests
    <3> QED BY <2>4, <3>2 DEF RelinkManifest
  <2>5. CASE ResumeConfigure(c, j) \/ RefreshLoad(c, j) \/ DeleteCheck(c, j)
    BY <2>5 DEF ResumeConfigure, RefreshLoad, DeleteCheck
  <2> QED BY <2>2, <2>3, <2>4, <2>5
<1>3. FilesStay
  BY <1>1, <1>2, QuietStays, ManifestStays
<1> QED BY <1>1, <1>3, StillCarry, StayFollows

\* Relinking a row keeps its cues.
LEMMA RelinkRowFollows ==
  ASSUME IInv, CuesFollow, NEW c \in Callers, RelinkRow(c)
  PROVE  CuesFollow'
<1>1. call[c].job \in Jobs /\ UNCHANGED <<dir, deleted, run>>
  BY CallAtKnows DEF RelinkRow
<1>2. PICK j \in Jobs : j = call[c].job
  BY <1>1
<1>3. CASE row[j] = None
  BY <1>1, <1>2, <1>3, StillCarry, RowStepFollows DEF RelinkRow
<1>4. CASE row[j] # None
  <2>1. row[j] \in Rows /\ row \in [Jobs -> Rows \cup {None}] /\ row' = [row EXCEPT ![j].input = "relinked"]
    BY <1>2, <1>4 DEF RelinkRow, IInv, TypeOK
  <2>2. [row[j] EXCEPT !.input = "relinked"] \in Rows /\ [row[j] EXCEPT !.input = "relinked"].cues = row[j].cues
    BY <2>1 DEF Rows
  <2>3. row'[j] # None /\ row'[j].cues = row[j].cues /\ \A k \in Jobs \ {j} : row'[k] = row[k]
    BY <2>1, <2>2, NoneAssumption
  <2>4. FilesStay
    BY <1>1, <1>4, <2>3 DEF FilesStay, Cued
  <2> QED BY <1>1, <2>4, StillCarry, StayFollows
<1> QED BY <1>3, <1>4

\* Deleting takes a task out of the claim before it takes anything away.
LEMMA DeleteFollows ==
  ASSUME IInv, CuesFollow, NEW c \in Callers, DeleteMove(c) \/ DeleteRow(c)
  PROVE  CuesFollow'
<1>1. /\ call[c].job \in Jobs /\ run' = run
      /\ \A k \in Jobs \ {call[c].job} : dir'[k] = dir[k] /\ row'[k] = row[k]
      /\ deleted \subseteq deleted' /\ call[c].job \in deleted'
  <2>1. CASE DeleteMove(c)
    BY <2>1, CallAtKnows DEF DeleteMove, TypeOK
  <2>2. CASE DeleteRow(c)
    <3>1. /\ call[c].job \in Jobs /\ TypeOK /\ call[c].job \in deleted /\ UNCHANGED <<deleted, run>>
      BY <2>2, CallAtKnows DEF DeleteRow, IInv, CallShape
    <3> QED BY <2>2, <3>1 DEF DeleteRow, TypeOK
  <2> QED BY <2>1, <2>2
<1>2. MarkedIsPublished'
  BY <1>1 DEF MarkedIsPublished, CuesFollow
<1>3. ASSUME NEW r \in Runs
      PROVE  Carries(r)'
  <2>1. Carries(r)
    BY DEF CuesFollow
  <2>2. run[r].pc # "none" => run[r].job \in Jobs
    BY RunAt
  <2> QED BY <1>1, <2>1, <2>2 DEF Carries, Cued
<1> QED BY <1>2, <1>3 DEF CuesFollow

\* A crash takes the runs away, and the recovery keeps cues and files.
LEMMA RestartFollows ==
  ASSUME IInv, CuesFollow, Crash \/ Ready \/ \E j \in Jobs : Recover(j)
  PROVE  CuesFollow'
<1>1. CASE Crash
  <2>1. UNCHANGED <<dir, row, deleted>> /\ \A r \in Runs : run'[r].pc = "none"
    BY <1>1 DEF Crash, NoRun
  <2>2. RunsCarry
    BY <2>1 DEF RunsCarry, Carrying
  <2> QED BY <2>1, <2>2, QuietStays, StayFollows
<1>2. CASE Ready
  BY <1>2, QuietStays, StillCarry, StayFollows DEF Ready
<1>3. ASSUME NEW j \in Jobs, Recover(j)
      PROVE  CuesFollow'
  <2>1. row[j] \in Rows /\ row \in [Jobs -> Rows \cup {None}] /\ dir \in [Jobs -> Directories]
        /\ UNCHANGED <<run, deleted>>
    BY <1>3 DEF Recover, Unsettled, IInv, TypeOK
  <2>2. CASE dir' = dir /\ row' = [row EXCEPT ![j].status = "failed"]
    <3>1. [row[j] EXCEPT !.status = "failed"] \in Rows /\ [row[j] EXCEPT !.status = "failed"].cues = row[j].cues
      BY <2>1 DEF Rows, Statuses
    <3>2. row'[j] # None /\ row'[j].cues = row[j].cues /\ \A k \in Jobs \ {j} : row'[k] = row[k]
      BY <2>1, <2>2, <3>1, NoneAssumption
    <3>3. FilesStay
      BY <2>1, <2>2, <3>2 DEF FilesStay, Cued
    <3> QED BY <2>1, <3>3, StillCarry, StayFollows
  <2>3. CASE dir' = dir /\ Loadable(j) /\ SyncRow(j, Snapshot(j))
    BY <2>1, <2>3, SnapshotType, StillCarry, RowStepFollows DEF IInv
  <2>4. CASE /\ Loadable(j) /\ dir' = [dir EXCEPT ![j].manifest.status = "failed"]
             /\ row' = [row EXCEPT ![j].status = "failed",
                                   ![j].input  = dir[j].manifest.input,
                                   ![j].cues   = @ \/ Snapshot(j).cues]
    <3>1. dir'[j].files = dir[j].files /\ \A k \in Jobs \ {j} : dir'[k] = dir[k]
      BY <2>1, <2>4 DEF Directories
    <3> DEFINE cues == row[j].cues \/ Snapshot(j).cues
               new  == [row[j] EXCEPT !.status = "failed", !.input = dir[j].manifest.input, !.cues = cues]
    <3>2. row' = [row EXCEPT ![j].status = "failed", ![j].input = dir[j].manifest.input, ![j].cues = cues]
      BY <2>1, <2>4 DEF Rows
    <3>3. row[j].cues => cues
      OBVIOUS
    <3>4. cues \in BOOLEAN /\ row[j].cues \in BOOLEAN /\ dir[j].manifest.input \in {"original", "relinked"}
      BY <2>1, <2>4 DEF Rows, Loadable, Directories, Manifests
    <3> HIDE DEF cues
    <3>5. new \in Rows /\ new.cues = cues
      BY <2>1, <3>4 DEF Rows, Statuses
    <3>6. row' = [row EXCEPT ![j] = new]
      BY <2>1, <3>2 DEF Rows
    <3> HIDE DEF new
    <3>7. row'[j] # None /\ row'[j].cues = cues /\ \A k \in Jobs \ {j} : row'[k] = row[k]
      BY <2>1, <3>5, <3>6, NoneAssumption
    <3>8. Cued(j) => row'[j].cues
      BY <3>3, <3>7, Zenon DEF Cued
    <3>9. FilesStay
      BY <2>1, <3>1, <3>7, <3>8 DEF FilesStay, Cued
    <3> QED BY <2>1, <3>9, StillCarry, StayFollows
  <2> QED BY <1>3, <2>2, <2>3, <2>4 DEF Recover
<1> QED BY <1>1, <1>2, <1>3

-----------------------------------------------------------------------------

\* A task that nobody has submitted has no marker, and nothing runs.
LEMMA InitFollows == Init => CuesFollow
BY DEF Init, CuesFollow, MarkedIsPublished, Carries, Absent, NoRun

\* Every step keeps cues and marker together.
LEMMA NextFollows == IInv /\ CuesFollow /\ [Next]_vars => CuesFollow'
<1> SUFFICES ASSUME IInv, CuesFollow, [Next]_vars
             PROVE  CuesFollow'
  OBVIOUS
<1>1. ASSUME NEW r \in Runs, Execute(r)
      PROVE  CuesFollow'
  BY <1>1, EmptyStepFollows, StageFollows, RecognizedFollows, MarkTranslatingFollows,
     JoinPrefixFollows, PublishCuesFollows, MarkPublishedFollows, TranslationFollows,
     PollFollows DEF Execute
<1>2. ASSUME NEW r \in Runs,
             \/ Acquire(r) \/ Withdraw(r) \/ StopOnPause(r) \/ NextStage(r)
             \/ RecognitionFails(r) \/ WorkFails(r) \/ Poll(r)
      PROVE  CuesFollow'
  BY <1>2, EmptyStepFollows, StageFollows, PollFollows DEF Poll
<1>3. ASSUME NEW c \in Callers, Serve(c)
      PROVE  CuesFollow'
  BY <1>3, CallRowFollows, CallFilesFollow, FlagFollows, SendFollows, RelinkRowFollows,
     DeleteFollows DEF Serve
<1>4. ASSUME NEW c \in Callers, NEW j \in Jobs, Issue(c, j)
      PROVE  CuesFollow'
  BY <1>4, IssueFollows, FlagFollows DEF Issue
<1>5. CASE UNCHANGED vars
  BY <1>5, QuietStays, StillCarry, StayFollows DEF vars
<1> QED BY <1>1, <1>2, <1>3, <1>4, <1>5, RestartFollows DEF Next

\* The marker that makes a later run skip recognition is only there when the
\* recognised cues are in the workspace, whatever crashes, pauses and late writes
\* come between.
THEOREM Marked == Spec => []MarkedIsPublished
<1>1. Init => CuesFollow
  BY InitFollows
<1>2. IInv /\ CuesFollow /\ [Next]_vars => CuesFollow'
  BY NextFollows
<1>3. CuesFollow => MarkedIsPublished
  BY DEF CuesFollow
<1> QED BY <1>1, <1>2, <1>3, Invariance, PTL DEF Spec

-----------------------------------------------------------------------------
(* What the steps do, where nothing is deleted *)

\* The run goes to point p with the task it has; the others stay.
RunTo(r, p) ==
  /\ \A s \in Runs \ {r} : run'[s] = run[s]
  /\ run'[r].pc = p /\ run'[r].job = run[r].job /\ run'[r].auto = run[r].auto

\* The status file of j, and no other, is written with status s; no marker is.
Marks(j, s) ==
  /\ dir'[j].manifest # None /\ dir'[j].manifest.status = s
  /\ "published" \in dir'[j].files <=> "published" \in dir[j].files
  /\ row' = row /\ \A k \in Jobs \ {j} : dir'[k] = dir[k]

\* The row of j, and no other, is given status s.
Shows(j, s) ==
  /\ row'[j] # None /\ row'[j].status = s
  /\ row[j] # None => row'[j].translated = row[j].translated
  /\ dir' = dir /\ \A k \in Jobs \ {j} : row'[k] = row[k]

\* Neither a status file nor a row changes.
Silent == UNCHANGED <<dir, row>>

\* A run that is on keeps its type.
LEMMA RunStep ==
  ASSUME IInv, NEW r \in Runs, NEW state, run' = [run EXCEPT ![r] = state]
  PROVE  run'[r] = state /\ \A s \in Runs \ {r} : run'[s] = run[s]
BY DEF IInv, TypeOK

\* A manifest is written with a status of its own ...
LEMMA ManifestMarks ==
  ASSUME IInv, NEW j \in Jobs, NEW m \in Manifests, WriteManifest(j, m), row' = row
  PROVE  Marks(j, m.status)
<1>1. m # None
  BY NoneAssumption
<1> QED BY <1>1, WriteManifestKeeps DEF Marks, IInv

\* ... or marked with another one.
LEMMA StatusMarks ==
  ASSUME IInv, NEW j \in Jobs, NEW s \in Statuses, Loadable(j), WriteStatus(j, s), row' = row
  PROVE  Marks(j, s)
BY WriteStatusKeeps DEF Marks, IInv

\* A snapshot is published.
LEMMA SnapshotShows ==
  ASSUME IInv, NEW j \in Jobs, NEW s \in Snapshots, SyncRow(j, s), dir' = dir
  PROVE  Shows(j, s.manifest.status)
<1>1. /\ row'[j] # None /\ row'[j].status = s.manifest.status
      /\ \A k \in Jobs \ {j} : row'[k] = row[k]
  BY SyncRowKeeps DEF IInv
<1>2. row'[j] = [status |-> s.manifest.status, input |-> s.manifest.input,
                 cues |-> s.cues \/ (row[j] # None /\ row[j].cues),
                 translated |-> row[j] # None /\ row[j].translated]
  BY DEF IInv, TypeOK, SyncRow
<1>3. row'[j].translated = (row[j] # None /\ row[j].translated)
  BY <1>2, RowFields
<1>4. ASSUME row[j] # None
      PROVE  row'[j].translated = row[j].translated
  <2>1. row[j].translated \in BOOLEAN
    BY <1>4 DEF IInv, TypeOK, Rows
  <2> QED BY <1>3, <1>4, <2>1
<1> QED BY <1>1, <1>4 DEF Shows

\* A run of a task that is there finds its control, its directory and its manifest.
LEMMA RunFinds ==
  ASSUME IInv, deleted = {}, NEW r \in Runs, run[r].pc # "none"
  PROVE  /\ run[r].job \in Jobs /\ run[r].job \in submitted
         /\ control[run[r].job] # None /\ dir[run[r].job].exists /\ Loadable(run[r].job)
BY RunAt DEF IInv, Untouched, Kept, Controlled, Loadable

\* The points of a run before the task counts as started.
Before == {"sent", "waiting", "held", "acquiring", "granted"}

\* Admission writes nothing, and a run that executes does not come back to it.
LEMMA AdmissionStep ==
  ASSUME IInv, deleted = {}, NEW r \in Runs,
         Lookup(r) \/ Admit(r) \/ Wake(r) \/ Acquire(r) \/ Withdraw(r) \/ Start(r)
  PROVE  /\ run[r].pc \in Before /\ Silent /\ UNCHANGED <<automatic, poller, call>>
         /\ \E p \in Before \cup {"starting"} : RunTo(r, p)
         /\ run'[r].pc = "starting" => control[run[r].job] # None /\ ~ control[run[r].job].paused
<1> USE DEF RunTo, Before
<1>1. run \in [Runs -> RunStates]
  BY DEF IInv, TypeOK
<1>2. run[r].pc \in Before /\ Silent /\ UNCHANGED <<poller, call>>
  BY DEF Lookup, Admit, Wake, Acquire, Withdraw, Start, Silent
<1>3. control[run[r].job] # None /\ dir[run[r].job].exists
  BY <1>2, RunFinds
<1>4. CASE Lookup(r)
  <2>1. /\ UNCHANGED automatic
        /\ run' = [run EXCEPT ![r].pc = "waiting", ![r].pending = "published" \notin dir[run[r].job].files]
    BY <1>3, <1>4 DEF Lookup
  <2>2. RunTo(r, "waiting")
    BY <1>1, <2>1 DEF RunStates
  <2> QED BY <1>2, <2>1, <2>2
<1>5. CASE Admit(r)
  <2>1. UNCHANGED automatic /\ \E p \in {"held", "acquiring", "granted"} : run' = [run EXCEPT ![r] = [@ EXCEPT !.pc = p]]
    BY <1>3, <1>5 DEF Admit
  <2>2. PICK p \in {"held", "acquiring", "granted"} : run' = [run EXCEPT ![r] = [@ EXCEPT !.pc = p]]
    BY <2>1
  <2>3. RunTo(r, p)
    BY <1>1, <2>2 DEF RunStates
  <2> QED BY <1>2, <2>1, <2>3
<1>6. CASE Wake(r)
  <2>1. UNCHANGED automatic /\ run' = [run EXCEPT ![r].pc = "waiting", ![r].unseen = FALSE]
    BY <1>3, <1>6 DEF Wake
  <2>2. RunTo(r, "waiting")
    BY <1>1, <2>1 DEF RunStates
  <2> QED BY <1>2, <2>1, <2>2
<1>7. CASE Acquire(r)
  <2>1. UNCHANGED automatic /\ run' = [run EXCEPT ![r].pc = "granted", ![r].permit = TRUE]
    BY <1>7 DEF Acquire
  <2>2. RunTo(r, "granted")
    BY <1>1, <2>1 DEF RunStates
  <2> QED BY <1>2, <2>1, <2>2
<1>8. CASE Withdraw(r)
  <2>1. UNCHANGED automatic /\ run' = [run EXCEPT ![r].pc = "waiting", ![r].unseen = FALSE]
    BY <1>8 DEF Withdraw
  <2>2. RunTo(r, "waiting")
    BY <1>1, <2>1 DEF RunStates
  <2> QED BY <1>2, <2>1, <2>2
<1>9. CASE Start(r)
  <2>1. UNCHANGED automatic
    BY <1>9 DEF Start
  <2>2. CASE run' = [run EXCEPT ![r].pc = "waiting", ![r].permit = FALSE]
    <3>1. RunTo(r, "waiting")
      BY <1>1, <2>2 DEF RunStates
    <3> QED BY <1>2, <2>1, <3>1
  <2>3. CASE Goto(r, "starting") /\ ~ control[run[r].job].paused
    <3>1. RunTo(r, "starting")
      BY <1>1, <2>3 DEF RunStates
    <3> QED BY <1>2, <1>3, <2>1, <2>3, <3>1
  <2> QED BY <1>3, <1>9, <2>2, <2>3 DEF Start
<1> QED BY <1>4, <1>5, <1>6, <1>7, <1>8, <1>9

\* The run begins: it takes note of the translation workspace.
LEMMA BeginStep ==
  ASSUME IInv, NEW r \in Runs, Begin(r)
  PROVE  /\ run[r].pc = "starting" /\ Silent /\ UNCHANGED <<automatic, call, control>>
         /\ \A s \in Runs \ {r} : run'[s] = run[s]
         /\ run'[r].pc = "entering" /\ run'[r].job = run[r].job
         /\ run'[r].auto = (run[r].job \in automatic)
<1>1. run \in [Runs -> RunStates] /\ run[r].pc = "starting" /\ Silent /\ UNCHANGED <<automatic, call, control>>
  BY DEF IInv, TypeOK, Begin, Silent
<1> DEFINE auto == run[r].job \in automatic
<1>2. run' = [run EXCEPT ![r].pc = "entering", ![r].auto = auto]
  BY DEF Begin
<1> HIDE DEF auto
<1>3. /\ \A s \in Runs \ {r} : run'[s] = run[s]
      /\ run'[r].pc = "entering" /\ run'[r].job = run[r].job /\ run'[r].auto = auto
  BY <1>1, <1>2 DEF RunStates
<1> QED BY <1>1, <1>3 DEF auto

\* The work ends by a pause, by a failure or at its first look at the task.
LEMMA BreakStep ==
  ASSUME IInv, NEW r \in Runs, StopOnPause(r) \/ WorkFails(r) \/ Enter(r)
  PROVE  /\ run[r].pc \in Interruptible \cup {"recognize"}
         /\ Silent /\ UNCHANGED <<automatic, call, control>>
         /\ \/ RunTo(r, "failing")
            \/ RunTo(r, "translate") /\ "published" \in dir[run[r].job].files
            \/ RunTo(r, "recognize") /\ "published" \notin dir[run[r].job].files
<1> USE DEF RunTo
<1>1. /\ run \in [Runs -> RunStates] /\ run[r].pc \in Interruptible \cup {"recognize"}
      /\ Silent /\ UNCHANGED <<automatic, call, control>>
  BY DEF IInv, TypeOK, StopOnPause, WorkFails, Enter, Silent, Interruptible
<1>2. CASE FinishWork(r, "failing")
  <2>1. RunTo(r, "failing")
    BY <1>1, <1>2 DEF FinishWork, RunStates
  <2> QED BY <1>1, <2>1
<1>3. CASE Goto(r, "translate") /\ "published" \in dir[run[r].job].files
  <2>1. RunTo(r, "translate")
    BY <1>1, <1>3 DEF RunStates
  <2> QED BY <1>1, <1>3, <2>1
<1>4. CASE Goto(r, "recognize") /\ "published" \notin dir[run[r].job].files
  <2>1. RunTo(r, "recognize")
    BY <1>1, <1>4 DEF RunStates
  <2> QED BY <1>1, <1>4, <2>1
<1> QED BY <1>2, <1>3, <1>4 DEF StopOnPause, WorkFails, Enter

\* A stage of the recognition, and its failure.
LEMMA StageStep ==
  ASSUME IInv, NEW r \in Runs, Recognize(r) \/ NextStage(r) \/ RecognitionFails(r)
  PROVE  /\ run[r].pc \in {"recognize", "recognizing"} /\ UNCHANGED <<automatic, call, control>>
         /\ \/ RunTo(r, "recognizing") /\ Marks(run[r].job, "active")
            \/ RunTo(r, "unrecognized") /\ Marks(run[r].job, "failed")
<1> USE DEF RunTo
<1>1. /\ run \in [Runs -> RunStates] /\ run[r].pc \in {"recognize", "recognizing"}
      /\ UNCHANGED <<automatic, call, control, row>>
  BY DEF IInv, TypeOK, Recognize, NextStage, WriteStage, RecognitionFails
<1>2. run[r].job \in Jobs /\ run[r].input \in {"original", "relinked"}
  BY <1>1, RunAt
<1>3. ASSUME NEW s \in {"active", "failed"}, WriteManifest(run[r].job, [status |-> s, input |-> run[r].input])
      PROVE  Marks(run[r].job, s)
  <2> DEFINE m == [status |-> s, input |-> run[r].input]
  <2>1. m \in Manifests /\ m.status = s
    BY <1>2 DEF Manifests, Statuses
  <2> QED BY <1>1, <1>2, <1>3, <2>1, ManifestMarks
<1>4. CASE Recognize(r) \/ NextStage(r)
  <2>1. RunTo(r, "recognizing")
    BY <1>1, <1>4 DEF Recognize, NextStage, WriteStage, RunStates
  <2> QED BY <1>1, <1>3, <1>4, <2>1 DEF Recognize, NextStage, WriteStage
<1>5. CASE RecognitionFails(r)
  <2>1. RunTo(r, "unrecognized")
    BY <1>1, <1>5 DEF RecognitionFails, RunStates
  <2> QED BY <1>1, <1>3, <1>5, <2>1 DEF RecognitionFails
<1> QED BY <1>4, <1>5

\* The recognition is marked done as its segments are written.
LEMMA RecognizedStep ==
  ASSUME IInv, NEW r \in Runs, Recognized(r)
  PROVE  /\ run[r].pc = "recognizing" /\ UNCHANGED <<automatic, call, control>>
         /\ RunTo(r, "recognized") /\ Marks(run[r].job, "done")
<1> DEFINE j    == run[r].job
           m    == [status |-> "done", input |-> run[r].input]
           task == [exists |-> TRUE, manifest |-> m, files |-> dir[j].files \cup {"segments"}]
<1>1. /\ run[r].pc = "recognizing" /\ j \in Jobs /\ run \in [Runs -> RunStates]
      /\ dir \in [Jobs -> Directories] /\ UNCHANGED <<automatic, call, control, row>>
  BY RunAt DEF Recognized, TypeOK
<1>2. RunTo(r, "recognized")
  BY <1>1 DEF Recognized, RunStates, RunTo
<1>3. m \in Manifests /\ m.status = "done"
  BY <1>1, RunAt DEF Manifests, Statuses
<1>4. m # None
  BY <1>3, NoneAssumption
<1>5. dir' = [dir EXCEPT ![j] = task]
  BY <1>1 DEF Recognized
<1> HIDE DEF m
<1>6. task.manifest = m /\ ("published" \in task.files <=> "published" \in dir[j].files)
  OBVIOUS
<1> HIDE DEF task
<1>7. dir'[j] = task /\ \A k \in Jobs \ {j} : dir'[k] = dir[k]
  BY <1>1, <1>5
<1> QED BY <1>1, <1>2, <1>3, <1>4, <1>6, <1>7 DEF Marks

\* An automatic task is marked translating before the prefix is joined.
LEMMA MarkTranslatingStep ==
  ASSUME IInv, deleted = {}, NEW r \in Runs, MarkTranslating(r)
  PROVE  /\ run[r].pc = "recognized" /\ UNCHANGED <<automatic, call, control>>
         /\ RunTo(r, "prefix")
         /\ IF run[r].auto THEN Marks(run[r].job, "translating") ELSE Silent
<1>1. /\ run[r].pc = "recognized" /\ run \in [Runs -> RunStates] /\ run[r].job \in Jobs
      /\ UNCHANGED <<automatic, call, control, row>>
  BY RunAt DEF MarkTranslating, TypeOK
<1>2. Loadable(run[r].job)
  BY <1>1, RunFinds
<1>3. Goto(r, "prefix")
  BY <1>2 DEF MarkTranslating
<1>4. RunTo(r, "prefix")
  BY <1>1, <1>3 DEF RunStates, RunTo
<1>5. CASE run[r].auto
  BY <1>1, <1>2, <1>4, <1>5, StatusMarks DEF MarkTranslating, Statuses
<1>6. CASE ~ run[r].auto
  BY <1>1, <1>4, <1>6 DEF MarkTranslating, Silent
<1> QED BY <1>5, <1>6

\* The snapshot to publish is read, or the error of the recognition reported.
LEMMA JoinPrefixStep ==
  ASSUME IInv, NEW r \in Runs, JoinPrefix(r)
  PROVE  /\ run[r].pc \in {"prefix", "unrecognized"} /\ Silent /\ UNCHANGED <<automatic, call, control>>
         /\ \/ RunTo(r, "failing")
            \/ RunTo(r, "publishing") /\ run[r].pc = "prefix" /\ run'[r].kept = Snapshot(run[r].job)
<1> USE DEF RunTo
<1>1. /\ run \in [Runs -> RunStates] /\ run[r].pc \in {"prefix", "unrecognized"}
      /\ Silent /\ UNCHANGED <<automatic, call, control>>
  BY DEF IInv, TypeOK, JoinPrefix, Silent
<1>2. CASE FinishWork(r, "failing")
  <2>1. RunTo(r, "failing")
    BY <1>1, <1>2 DEF FinishWork, RunStates
  <2> QED BY <1>1, <2>1
<1>3. CASE run[r].pc = "prefix" /\ run' = [run EXCEPT ![r].pc = "publishing", ![r].kept = Snapshot(run[r].job)]
  <2> DEFINE snapshot == Snapshot(run[r].job)
  <2>1. run' = [run EXCEPT ![r].pc = "publishing", ![r].kept = snapshot]
    BY <1>3
  <2> HIDE DEF snapshot
  <2>2. RunTo(r, "publishing") /\ run'[r].kept = snapshot
    BY <1>1, <2>1 DEF RunStates
  <2> QED BY <1>1, <1>3, <2>2 DEF snapshot
<1> QED BY <1>2, <1>3 DEF JoinPrefix

\* The cues enter the row ...
LEMMA PublishCuesStep ==
  ASSUME IInv, NEW r \in Runs, PublishCues(r)
  PROVE  /\ run[r].pc = "publishing" /\ UNCHANGED <<automatic, call, control>>
         /\ RunTo(r, "marking") /\ Shows(run[r].job, run[r].kept.manifest.status)
<1>1. /\ run[r].pc = "publishing" /\ run \in [Runs -> RunStates] /\ run[r].job \in Jobs
      /\ run[r].kept \in Snapshots /\ SyncRow(run[r].job, run[r].kept)
      /\ UNCHANGED <<automatic, call, control, dir>>
  BY RunAt DEF PublishCues, TypeOK, Shaped
<1>2. RunTo(r, "marking")
  BY <1>1 DEF PublishCues, RunStates, RunTo
<1> QED BY <1>1, <1>2, SnapshotShows

\* ... and the marker the directory.
LEMMA MarkPublishedStep ==
  ASSUME IInv, NEW r \in Runs, MarkPublished(r)
  PROVE  /\ run[r].pc = "marking" /\ UNCHANGED <<automatic, call, control, row>>
         /\ RunTo(r, "translate")
         /\ dir'[run[r].job].manifest = dir[run[r].job].manifest
         /\ \A k \in Jobs \ {run[r].job} : dir'[k] = dir[k]
<1>1. /\ run[r].pc = "marking" /\ run \in [Runs -> RunStates] /\ run[r].job \in Jobs
      /\ dir \in [Jobs -> Directories] /\ UNCHANGED <<automatic, call, control, row>>
  BY RunAt DEF MarkPublished, TypeOK
<1>2. RunTo(r, "translate")
  BY <1>1 DEF MarkPublished, RunStates, RunTo
<1>3. /\ dir'[run[r].job].manifest = dir[run[r].job].manifest
      /\ \A k \in Jobs \ {run[r].job} : dir'[k] = dir[k]
  BY <1>1 DEF MarkPublished, Directories
<1> QED BY <1>1, <1>2, <1>3

\* An automatic task is marked translating and translated, any other is through.
LEMMA TranslateStep ==
  ASSUME IInv, deleted = {}, NEW r \in Runs, Translate(r)
  PROVE  /\ run[r].pc = "translate" /\ UNCHANGED <<automatic, call, control>>
         /\ \/ run[r].auto /\ RunTo(r, "translating") /\ Marks(run[r].job, "translating")
            \/ ~ run[r].auto /\ RunTo(r, "ending") /\ Silent
<1> USE DEF RunTo
<1>1. /\ run[r].pc = "translate" /\ run \in [Runs -> RunStates] /\ run[r].job \in Jobs
      /\ UNCHANGED <<automatic, call, control>>
  BY RunAt DEF Translate, TypeOK
<1>2. Loadable(run[r].job)
  BY <1>1, RunFinds
<1>3. CASE ~ run[r].auto
  <2>1. FinishWork(r, "ending") /\ Silent
    BY <1>3 DEF Translate, Silent
  <2>2. RunTo(r, "ending")
    BY <1>1, <2>1 DEF FinishWork, RunStates
  <2> QED BY <1>1, <1>3, <2>1, <2>2
<1>4. CASE run[r].auto
  <2> DEFINE manifest == dir[run[r].job].manifest
  <2>1. /\ WriteStatus(run[r].job, "translating") /\ row' = row
        /\ run' = [run EXCEPT ![r].pc = "translating", ![r].kept = manifest]
    BY <1>2, <1>4 DEF Translate
  <2> HIDE DEF manifest
  <2>2. RunTo(r, "translating")
    BY <1>1, <2>1 DEF RunStates
  <2>3. Marks(run[r].job, "translating")
    BY <1>1, <1>2, <2>1, StatusMarks DEF Statuses
  <2> QED BY <1>1, <1>4, <2>2, <2>3
<1> QED BY <1>3, <1>4

\* The last group is committed.
LEMMA TranslatePendingStep ==
  ASSUME IInv, NEW r \in Runs, TranslatePending(r)
  PROVE  /\ run[r].pc = "translating" /\ UNCHANGED <<automatic, call, control, dir>>
         /\ RunTo(r, "translated")
         /\ row[run[r].job] # None /\ row'[run[r].job] # None
         /\ row'[run[r].job].status = row[run[r].job].status /\ row'[run[r].job].translated
         /\ \A k \in Jobs \ {run[r].job} : row'[k] = row[k]
<1> DEFINE j   == run[r].job
           new == [row[j] EXCEPT !.translated = TRUE]
<1>1. /\ run[r].pc = "translating" /\ run \in [Runs -> RunStates] /\ j \in Jobs
      /\ row \in [Jobs -> Rows \cup {None}] /\ row[j] # None
      /\ UNCHANGED <<automatic, call, control, dir>>
  BY RunAt DEF TranslatePending, TypeOK
<1>2. RunTo(r, "translated")
  BY <1>1 DEF TranslatePending, RunStates, RunTo
<1>3. row[j] \in Rows
  BY <1>1
<1>4. new \in Rows /\ new.status = row[j].status /\ new.translated
  BY <1>3 DEF Rows
<1>5. row' = [row EXCEPT ![j] = new]
  BY <1>1, <1>3 DEF TranslatePending, Rows
<1>6. new # None
  BY <1>4, NoneAssumption
<1> HIDE DEF new
<1>7. row'[j] = new /\ \A k \in Jobs \ {j} : row'[k] = row[k]
  BY <1>1, <1>5
<1> QED BY <1>1, <1>2, <1>4, <1>6, <1>7

\* The end of a translation, or a failure, is written into the status file.
LEMMA OutcomeStep ==
  ASSUME IInv, deleted = {}, NEW r \in Runs, MarkDone(r) \/ FailManifest(r)
  PROVE  /\ UNCHANGED <<automatic, call, control>> /\ RunTo(r, "ending")
         /\ \/ run[r].pc = "translated" /\ Marks(run[r].job, "done")
            \/ run[r].pc = "failing" /\ Marks(run[r].job, "failed")
<1> USE DEF RunTo
<1>1. /\ run[r].pc # "none" /\ run \in [Runs -> RunStates] /\ run[r].job \in Jobs
      /\ UNCHANGED <<automatic, call, control, row>>
  BY RunAt DEF MarkDone, FailManifest, TypeOK
<1>2. CASE MarkDone(r)
  <2> DEFINE m == [run[r].kept EXCEPT !.status = "done"]
  <2>1. m \in Manifests /\ m.status = "done" /\ run[r].pc = "translated"
    BY <1>2, RunAt DEF MarkDone, Shaped, Manifests, Statuses
  <2>2. RunTo(r, "ending")
    BY <1>1, <1>2 DEF MarkDone, FinishWork, RunStates
  <2>3. WriteManifest(run[r].job, m)
    BY <1>2 DEF MarkDone
  <2> HIDE DEF m
  <2>4. Marks(run[r].job, "done")
    BY <1>1, <2>1, <2>3, ManifestMarks
  <2> QED BY <1>1, <2>1, <2>2, <2>4
<1>3. CASE FailManifest(r)
  <2>1. run[r].pc = "failing" /\ Goto(r, "ending") /\ WriteStatus(run[r].job, "failed") /\ Loadable(run[r].job)
    BY <1>1, <1>3, RunFinds DEF FailManifest
  <2>2. RunTo(r, "ending")
    BY <1>1, <2>1 DEF RunStates
  <2>3. Marks(run[r].job, "failed")
    BY <1>1, <2>1, StatusMarks DEF Statuses
  <2> QED BY <1>1, <2>1, <2>2, <2>3
<1> QED BY <1>2, <1>3

\* The final state is read ...
LEMMA LoadFinalStep ==
  ASSUME IInv, deleted = {}, NEW r \in Runs, LoadFinal(r)
  PROVE  /\ run[r].pc = "ending" /\ Silent /\ UNCHANGED <<automatic, call, control>>
         /\ RunTo(r, "reporting") /\ run'[r].kept = Snapshot(run[r].job)
<1>1. /\ run[r].pc = "ending" /\ run \in [Runs -> RunStates]
      /\ Silent /\ UNCHANGED <<automatic, call, control>>
  BY DEF LoadFinal, IInv, TypeOK, Silent
<1> DEFINE snapshot == Snapshot(run[r].job)
<1>2. run' = [run EXCEPT ![r].pc = "reporting", ![r].kept = snapshot]
  BY <1>1, RunFinds DEF LoadFinal
<1> HIDE DEF snapshot
<1>3. RunTo(r, "reporting") /\ run'[r].kept = snapshot
  BY <1>1, <1>2 DEF RunStates, RunTo
<1> QED BY <1>1, <1>3 DEF snapshot

\* ... and published.
LEMMA SyncFinalStep ==
  ASSUME IInv, NEW r \in Runs, SyncFinal(r)
  PROVE  /\ run[r].pc = "reporting" /\ UNCHANGED <<automatic, call, control>>
         /\ RunTo(r, "leaving") /\ Shows(run[r].job, run[r].kept.manifest.status)
<1>1. /\ run[r].pc = "reporting" /\ run \in [Runs -> RunStates] /\ run[r].job \in Jobs
      /\ run[r].kept \in Snapshots /\ SyncRow(run[r].job, run[r].kept)
      /\ UNCHANGED <<automatic, call, control, dir>>
  BY RunAt DEF SyncFinal, TypeOK, Shaped
<1>2. RunTo(r, "leaving")
  BY <1>1 DEF SyncFinal, RunStates, RunTo
<1> QED BY <1>1, <1>2, SnapshotShows

\* The workspace is forgotten ...
LEMMA ForgetAutomaticStep ==
  ASSUME IInv, NEW r \in Runs, ForgetAutomatic(r)
  PROVE  /\ run[r].pc = "leaving" /\ Silent /\ UNCHANGED <<call, control>>
         /\ RunTo(r, "closing") /\ automatic' = automatic \ {run[r].job}
<1>1. /\ run[r].pc = "leaving" /\ run \in [Runs -> RunStates] /\ Silent /\ UNCHANGED <<call, control>>
      /\ automatic' = automatic \ {run[r].job}
  BY DEF ForgetAutomatic, IInv, TypeOK, Silent
<1>2. RunTo(r, "closing")
  BY <1>1 DEF ForgetAutomatic, RunStates, RunTo
<1> QED BY <1>1, <1>2

\* ... and the run ends.
LEMMA CloseStep ==
  ASSUME IInv, NEW r \in Runs, Close(r)
  PROVE  /\ run[r].pc = "closing" /\ Silent /\ UNCHANGED automatic
         /\ run'[r].pc = "none" /\ run'[r].job = None /\ \A s \in Runs \ {r} : run'[s] = run[s]
         /\ control' = [control EXCEPT ![run[r].job] = None] /\ call' = Released(run[r].job)
<1>1. NoRun.pc = "none" /\ NoRun.job = None
  BY DEF NoRun
<1> QED BY <1>1, RunStep DEF Close, Silent

\* A poller reads, or makes a directory ...
LEMMA PollerLoadsStep ==
  ASSUME IInv, deleted = {}, NEW r \in Runs, PollerLoads(r)
  PROVE  /\ Silent /\ UNCHANGED <<automatic, call, control, run>>
<1>1. run[r].pc # "none"
  BY DEF PollerLoads, IInv, RunShape, Shaped, Working, Interruptible
<1>2. dir[run[r].job].exists
  BY <1>1, RunFinds
<1> QED BY <1>2 DEF PollerLoads, Silent

\* ... or publishes what it read.
LEMMA PollerSyncsStep ==
  ASSUME IInv, NEW r \in Runs, PollerSyncs(r)
  PROVE  /\ run[r].pc \in Working /\ UNCHANGED <<automatic, call, control, run>>
         /\ poller[r].seen \in Snapshots /\ Shows(run[r].job, poller[r].seen.manifest.status)
<1>1. /\ poller[r].seen \in Snapshots /\ run[r].pc \in Working
      /\ SyncRow(run[r].job, poller[r].seen) /\ UNCHANGED <<automatic, call, control, run, dir>>
  BY DEF PollerSyncs, IInv, TypeOK, PollerStates, RunShape, Shaped
<1>2. run[r].job \in Jobs
  BY <1>1, RunAt DEF Working, Interruptible
<1> QED BY <1>1, <1>2, SnapshotShows

-----------------------------------------------------------------------------

\* The status, the marker and the translation of a task do not change.
Alike(k) ==
  /\ dir'[k].manifest = None <=> dir[k].manifest = None
  /\ dir'[k].manifest.status = dir[k].manifest.status
  /\ "published" \in dir'[k].files <=> "published" \in dir[k].files
  /\ row'[k] = None <=> row[k] = None
  /\ row'[k].status = row[k].status /\ row'[k].translated = row[k].translated
StatusesStay == \A k \in Jobs : Alike(k)

\* The call goes to point p of the same command; the others stay.
CallTo(c, p) ==
  /\ \A d \in Callers \ {c} : call'[d] = call[d]
  /\ call'[c].pc = p /\ call'[c].job = call[c].job /\ call'[c].kept = call[c].kept

\* The call returns.
CallOver(c) ==
  /\ \A d \in Callers \ {c} : call'[d] = call[d]
  /\ call'[c].pc = "none" /\ call'[c].job = None

\* A command begins with task j at point p.
CallBegins(c, p, j) ==
  /\ \A d \in Callers \ {c} : call'[d] = call[d]
  /\ call[c].pc = "none" /\ call'[c].pc = p /\ call'[c].job = j

\* A step without a write leaves every status as it is.
LEMMA SilentStays ==
  ASSUME Silent
  PROVE  StatusesStay
BY DEF Silent, StatusesStay, Alike

\* A task that a command works on is there.
LEMMA CallFinds ==
  ASSUME IInv, deleted = {}, NEW c \in Callers, call[c].pc # "none"
  PROVE  /\ call[c].job \in Jobs /\ call[c].job \in submitted
         /\ dir[call[c].job].exists /\ Loadable(call[c].job) /\ Fits(call[c])
BY CallAtKnows DEF IInv, Kept, Loadable

\* A command that goes on keeps its task.
LEMMA CallMoves ==
  ASSUME IInv, NEW c \in Callers, NEW p \in CallPoints, CallGoto(c, p)
  PROVE  CallTo(c, p)
BY DEF IInv, TypeOK, CallStates, CallTo

\* A command that returns gives its task up.
LEMMA CallReturns ==
  ASSUME IInv, NEW c \in Callers, Leaves(c)
  PROVE  CallOver(c)
<1>1. NoCall.pc = "none" /\ NoCall.job = None
  BY DEF NoCall
<1> QED BY <1>1 DEF IInv, TypeOK, CallOver

\* The first row of a new task says what its status file says: queued.
LEMMA SubmitSyncStep ==
  ASSUME IInv, NEW c \in Callers, SubmitSync(c)
  PROVE  /\ call[c].pc = "submit_sync" /\ CallTo(c, "submit_prepare")
         /\ Shows(call[c].job, "queued")
         /\ dir[call[c].job].manifest # None => dir[call[c].job].manifest.status = "queued"
         /\ UNCHANGED <<automatic, control, run, poller, lock>>
<1>1. /\ call[c].pc = "submit_sync" /\ CallGoto(c, "submit_prepare") /\ SyncRow(call[c].job, call[c].kept)
      /\ UNCHANGED <<automatic, control, run, poller, dir, lock>>
  BY DEF SubmitSync
<1>2. call[c].job \in Jobs /\ call[c].kept \in Snapshots /\ Quiet(c)
  BY <1>1, CallAtKnows DEF IInv, SubmissionIsQuiet, Submitting
<1>3. Shows(call[c].job, "queued")
  BY <1>1, <1>2, SnapshotShows DEF Quiet
<1> QED BY <1>1, <1>2, <1>3, CallMoves DEF CallPoints, Quiet

\* Its preferences are written, its workspace configured.
LEMMA SubmitPrepareStep ==
  ASSUME IInv, NEW c \in Callers, SubmitPrepare(c)
  PROVE  /\ call[c].pc = "submit_prepare" /\ CallTo(c, "enqueue") /\ StatusesStay
         /\ automatic' = IF call[c].job \in Automatic THEN automatic \cup {call[c].job} ELSE automatic
         /\ UNCHANGED <<row, control, run, poller, lock>>
<1>1. /\ call[c].pc = "submit_prepare" /\ CallGoto(c, "enqueue")
      /\ UNCHANGED <<row, control, run, poller, lock>>
  BY DEF SubmitPrepare
<1>2. call[c].job \in Jobs /\ dir \in [Jobs -> Directories]
  BY <1>1, CallAtKnows DEF TypeOK
<1>3. ASSUME NEW k \in Jobs
      PROVE  /\ dir'[k].manifest = dir[k].manifest
             /\ "published" \in dir'[k].files <=> "published" \in dir[k].files
  BY <1>2 DEF SubmitPrepare, Directories
<1>4. StatusesStay
  BY <1>1, <1>3 DEF StatusesStay, Alike
<1> QED BY <1>1, <1>4, CallMoves DEF SubmitPrepare, CallPoints

\* Its control is registered, if it is not yet.
LEMMA EnqueueStep ==
  ASSUME IInv, NEW c \in Callers, Enqueue(c)
  PROVE  /\ call[c].pc = "enqueue" /\ CallTo(c, "send") /\ StatusesStay
         /\ control' = [control EXCEPT ![call[c].job] = IF @ = None THEN NewControl ELSE @]
         /\ UNCHANGED <<row, automatic, run, poller, lock>>
<1>1. /\ call[c].pc = "enqueue" /\ CallGoto(c, "send")
      /\ control' = [control EXCEPT ![call[c].job] = IF @ = None THEN NewControl ELSE @]
      /\ UNCHANGED <<row, automatic, run, poller, lock>>
  BY DEF Enqueue
<1>2. call[c].job \in Jobs /\ dir \in [Jobs -> Directories]
  BY <1>1, CallAtKnows DEF TypeOK
<1>3. ASSUME NEW k \in Jobs
      PROVE  /\ dir'[k].manifest = dir[k].manifest
             /\ "published" \in dir'[k].files <=> "published" \in dir[k].files
  BY <1>2 DEF Enqueue, Directories
<1>4. StatusesStay
  BY <1>1, <1>3 DEF StatusesStay, Alike
<1> QED BY <1>1, <1>4, CallMoves DEF CallPoints

\* A run is spawned.
LEMMA SendStep ==
  ASSUME IInv, NEW c \in Callers, Send(c)
  PROVE  /\ call[c].pc = "send" /\ Silent /\ UNCHANGED <<automatic, control, poller, lock>>
         /\ CallTo(c, "sent") \/ CallOver(c)
         /\ \E r \in Runs :
              /\ \A s \in Runs \ {r} : run'[s] = run[s]
              /\ run[r].pc = "none" /\ run[r].job = None /\ run'[r].pc = "sent" /\ run'[r].job = call[c].job
<1> DEFINE resumed == call[c].kept \in Manifests
           input   == IF resumed THEN call[c].kept.input ELSE call[c].kept.manifest.input
           on      == [NoRun EXCEPT !.pc = "sent", !.job = call[c].job, !.input = input]
<1>1. call[c].pc = "send" /\ Silent /\ UNCHANGED <<automatic, control, poller, lock>>
  BY DEF Send, Silent
<1>2. CallGoto(c, "sent") \/ Leaves(c)
  BY DEF Send
<1>3. PICK r \in Runs : run[r] = NoRun /\ run' = [run EXCEPT ![r] = on]
  BY DEF Send
<1> HIDE DEF input
<1>4. on.pc = "sent" /\ on.job = call[c].job /\ NoRun.pc = "none" /\ NoRun.job = None
  BY DEF NoRun
<1> HIDE DEF on
<1>5. CallTo(c, "sent") \/ CallOver(c)
  BY <1>2, CallMoves, CallReturns DEF CallPoints
<1>6. run'[r] = on /\ \A s \in Runs \ {r} : run'[s] = run[s]
  BY <1>3, RunStep
<1> QED BY <1>1, <1>3, <1>4, <1>5, <1>6

\* A resume returns with the task it has sent.
LEMMA ReturnResumedStep ==
  ASSUME IInv, deleted = {}, NEW c \in Callers, ReturnResumed(c)
  PROVE  /\ call[c].pc = "sent" /\ CallOver(c) /\ Silent
         /\ UNCHANGED <<automatic, control, run, poller, lock>>
<1>1. call[c].pc = "sent" /\ Silent /\ UNCHANGED <<automatic, run, poller, lock>>
  BY DEF ReturnResumed, Silent
<1>2. Leaves(c) /\ UNCHANGED control
  BY <1>1, CallFinds DEF ReturnResumed
<1> QED BY <1>1, <1>2, CallReturns

\* A task that was failed on behalf of its run is published so.
LEMMA PauseSyncStep ==
  ASSUME IInv, deleted = {}, NEW c \in Callers, PauseSync(c)
  PROVE  /\ call[c].pc = "pause_sync" /\ CallOver(c)
         /\ Shows(call[c].job, dir[call[c].job].manifest.status)
         /\ UNCHANGED <<automatic, control, run, poller>>
<1>1. call[c].pc = "pause_sync" /\ Leaves(c) /\ UNCHANGED <<automatic, control, run, poller, dir>>
  BY DEF PauseSync
<1>2. call[c].job \in Jobs /\ Loadable(call[c].job) /\ SyncRow(call[c].job, Snapshot(call[c].job))
  BY <1>1, CallFinds DEF PauseSync
<1>3. Shows(call[c].job, Snapshot(call[c].job).manifest.status)
  BY <1>1, <1>2, SnapshotType, SnapshotShows DEF IInv
<1> QED BY <1>1, <1>3, CallReturns DEF Snapshot

\* A resume looks for a stopped task.
LEMMA ResumeCheckStep ==
  ASSUME IInv, NEW c \in Callers, ResumeCheck(c)
  PROVE  /\ call[c].pc = "resume_check" /\ Silent /\ UNCHANGED <<automatic, control, run, poller, lock>>
         /\ \/ CallOver(c)
            \/ CallTo(c, "resume_lock") /\ row[call[c].job] # None /\ row[call[c].job].status = "failed"
<1>1. call[c].pc = "resume_check" /\ Silent /\ UNCHANGED <<automatic, control, run, poller, lock>>
  BY DEF ResumeCheck, Silent
<1>2. CASE row[call[c].job] # None /\ row[call[c].job].status = "failed"
  BY <1>1, <1>2, CallMoves DEF ResumeCheck, CallPoints
<1>3. CASE ~ (row[call[c].job] # None /\ row[call[c].job].status = "failed")
  BY <1>1, <1>3, CallReturns DEF ResumeCheck
<1> QED BY <1>2, <1>3

\* Under the lock it requeues a held task, refuses a live one, or goes on.
LEMMA ResumeLockStep ==
  ASSUME IInv, deleted = {}, NEW c \in Callers, ResumeLock(c)
  PROVE  LET j == call[c].job IN
         /\ call[c].pc = "resume_lock" /\ lock = None /\ UNCHANGED <<automatic, control, run, poller, row>>
         /\ \/ /\ control[j] # None /\ control[j].paused /\ ~ control[j].started
               /\ Marks(j, "queued") /\ CallTo(c, "unhold") /\ lock' = c
            \/ Silent /\ CallOver(c) /\ UNCHANGED lock
            \/ /\ Silent /\ control[j] = None /\ UNCHANGED lock
               /\ \A d \in Callers \ {c} : call'[d] = call[d]
               /\ call'[c].pc = "reserve" /\ call'[c].job = j
<1> DEFINE j == call[c].job
<1>1. call[c].pc = "resume_lock" /\ lock = None /\ UNCHANGED <<automatic, control, run, poller, row>>
  BY DEF ResumeLock
<1>2. j \in Jobs /\ Loadable(j)
  BY <1>1, CallFinds
<1>3. CASE Leaves(c) /\ UNCHANGED <<dir, newer, lock>>
  BY <1>1, <1>3, CallReturns DEF Silent
<1>4. CASE /\ control[j] # None /\ control[j].paused /\ ~ control[j].started
           /\ WriteStatus(j, "queued") /\ CallGoto(c, "unhold") /\ lock' = c
  BY <1>1, <1>2, <1>4, StatusMarks, CallMoves DEF Statuses, CallPoints
<1>5. CASE /\ control[j] = None /\ CallEnters(c, "reserve", j, dir[j].manifest)
           /\ UNCHANGED <<dir, newer, lock>>
  <2>1. /\ \A d \in Callers \ {c} : call'[d] = call[d]
        /\ call'[c].pc = "reserve" /\ call'[c].job = j
    BY <1>5 DEF IInv, TypeOK
  <2> QED BY <1>1, <1>5, <2>1 DEF Silent
<1> QED BY <1>3, <1>4, <1>5 DEF ResumeLock

\* A held task is let go: its row shows its status, its flag goes down.
LEMMA UnholdStep ==
  ASSUME IInv, deleted = {}, NEW c \in Callers, Unhold(c)
  PROVE  /\ call[c].pc = "unhold" /\ CallOver(c)
         /\ Shows(call[c].job, dir[call[c].job].manifest.status)
         /\ control' = [control EXCEPT ![call[c].job].paused = FALSE]
         /\ \A r \in Runs : run'[r].pc = run[r].pc /\ run'[r].job = run[r].job /\ run'[r].kept = run[r].kept
         /\ UNCHANGED <<automatic, poller>>
<1>1. call[c].pc = "unhold" /\ Leaves(c) /\ UNCHANGED <<automatic, poller, dir>>
  BY DEF Unhold
<1>2. /\ call[c].job \in Jobs /\ Loadable(call[c].job) /\ SyncRow(call[c].job, Snapshot(call[c].job))
      /\ control' = [control EXCEPT ![call[c].job].paused = FALSE]
      /\ run' = Notify(call[c].job, run)
  BY <1>1, CallFinds DEF Unhold
<1>3. Shows(call[c].job, Snapshot(call[c].job).manifest.status)
  BY <1>1, <1>2, SnapshotType, SnapshotShows DEF IInv
<1>4. \A r \in Runs : run'[r].pc = run[r].pc /\ run'[r].job = run[r].job /\ run'[r].kept = run[r].kept
  BY <1>2, NotifyKeeps DEF IInv
<1> QED BY <1>1, <1>2, <1>3, <1>4, CallReturns DEF Snapshot

\* A resume reserves the control ...
LEMMA ReserveStep ==
  ASSUME IInv, NEW c \in Callers, Reserve(c)
  PROVE  /\ call[c].pc = "reserve" /\ Silent /\ UNCHANGED <<automatic, run, poller, lock>>
         /\ \/ CallOver(c) /\ UNCHANGED control
            \/ /\ CallTo(c, "requeue") /\ control[call[c].job] = None
               /\ control' = [control EXCEPT ![call[c].job] = NewControl]
BY CallMoves, CallReturns DEF Reserve, Silent, CallPoints

\* ... writes the task as queued ...
LEMMA RequeueStep ==
  ASSUME IInv, NEW c \in Callers, Requeue(c)
  PROVE  /\ call[c].pc = "requeue" /\ CallTo(c, "requeue_sync") /\ Marks(call[c].job, "queued")
         /\ UNCHANGED <<automatic, control, run, poller, lock>>
<1> DEFINE m == [call[c].kept EXCEPT !.status = "queued"]
<1>1. /\ call[c].pc = "requeue" /\ WriteManifest(call[c].job, m) /\ CallGoto(c, "requeue_sync")
      /\ UNCHANGED <<row, automatic, control, run, poller, lock>>
  BY DEF Requeue
<1>2. call[c].job \in Jobs /\ call[c].kept \in Manifests
  BY <1>1, CallAtKnows
<1>3. m \in Manifests /\ m.status = "queued"
  BY <1>2 DEF Manifests, Statuses
<1> HIDE DEF m
<1>4. Marks(call[c].job, "queued")
  BY <1>1, <1>2, <1>3, ManifestMarks
<1> QED BY <1>1, <1>4, CallMoves DEF CallPoints

\* ... and publishes it.
LEMMA RequeueSyncStep ==
  ASSUME IInv, deleted = {}, NEW c \in Callers, RequeueSync(c)
  PROVE  /\ call[c].pc = "requeue_sync" /\ CallTo(c, "enqueue")
         /\ Shows(call[c].job, dir[call[c].job].manifest.status)
         /\ UNCHANGED <<automatic, control, run, poller, lock>>
<1>1. call[c].pc = "requeue_sync" /\ UNCHANGED <<automatic, run, poller, dir, lock>>
  BY DEF RequeueSync
<1>2. /\ call[c].job \in Jobs /\ Loadable(call[c].job) /\ SyncRow(call[c].job, Snapshot(call[c].job))
      /\ CallGoto(c, "enqueue") /\ UNCHANGED control
  BY <1>1, CallFinds DEF RequeueSync
<1>3. Shows(call[c].job, Snapshot(call[c].job).manifest.status)
  BY <1>1, <1>2, SnapshotType, SnapshotShows DEF IInv
<1> QED BY <1>1, <1>2, <1>3, CallMoves DEF Snapshot, CallPoints

\* The row takes over a media path.
LEMMA RelinkRowStep ==
  ASSUME IInv, NEW c \in Callers, RelinkRow(c)
  PROVE  /\ call[c].pc = "relink_row" /\ CallOver(c) /\ StatusesStay
         /\ UNCHANGED <<automatic, control, run, poller, lock>>
<1> DEFINE j == call[c].job
<1>1. /\ call[c].pc = "relink_row" /\ Leaves(c) /\ UNCHANGED <<automatic, control, run, poller, dir, lock>>
      /\ row' = IF row[j] = None THEN row ELSE [row EXCEPT ![j].input = "relinked"]
  BY DEF RelinkRow
<1>2. j \in Jobs /\ row \in [Jobs -> Rows \cup {None}]
  BY <1>1, CallAtKnows DEF TypeOK
<1>3. CASE row[j] = None
  BY <1>1, <1>3, CallReturns DEF StatusesStay, Alike
<1>4. CASE row[j] # None
  <2> DEFINE new == [row[j] EXCEPT !.input = "relinked"]
  <2>1. row[j] \in Rows
    BY <1>2, <1>4
  <2>2. new \in Rows /\ new.status = row[j].status /\ new.translated = row[j].translated
    BY <2>1 DEF Rows
  <2>3. row' = [row EXCEPT ![j] = new]
    BY <1>1, <1>2, <1>4, <2>1 DEF Rows
  <2>4. new # None
    BY <2>2, NoneAssumption
  <2> HIDE DEF new
  <2>5. row'[j] = new /\ \A k \in Jobs \ {j} : row'[k] = row[k]
    BY <1>2, <2>3
  <2>6. StatusesStay
    BY <1>1, <1>4, <2>2, <2>4, <2>5 DEF StatusesStay, Alike
  <2> QED BY <1>1, <2>6, CallReturns
<1> QED BY <1>3, <1>4

-----------------------------------------------------------------------------
(* The commands: the steps that issue them, and what can be under way *)

\* Nothing is deleted ...
Undeleted == deleted = {} /\ \A c \in Callers : call[c].pc \notin {"delete_move", "delete_row"}

\* ... nor refreshed, nor interrupted.
Plain == Undeleted /\ up /\ \A c \in Callers : call[c].pc # "refresh_sync"

\* A new task: its directory, and then the rest.
LEMMA CreateStep ==
  ASSUME IInv, NEW c \in Callers, NEW j \in Jobs, SubmitCreate(c, j) \/ RetryCreate(c, j)
  PROVE  /\ j \notin submitted /\ CallBegins(c, "submit_sync", j) /\ Marks(j, "queued")
         /\ UNCHANGED <<automatic, control, run, poller, lock, up, deleted>>
<1>1. PICK input \in {"original", "relinked"} : Create(c, j, input)
  <2>1. CASE SubmitCreate(c, j)
    BY <2>1 DEF SubmitCreate
  <2>2. CASE RetryCreate(c, j)
    <3>1. PICK k \in Jobs : Loadable(k) /\ Create(c, j, dir[k].manifest.input)
      BY <2>2 DEF RetryCreate
    <3>2. dir[k].manifest.input \in {"original", "relinked"}
      BY <3>1 DEF IInv, TypeOK, Loadable, Directories, Manifests
    <3> QED BY <3>1, <3>2
  <2> QED BY <2>1, <2>2
<1> DEFINE m == [status |-> "queued", input |-> input]
<1>2. m \in Manifests /\ m.status = "queued"
  BY DEF Manifests, Statuses
<1>3. /\ WriteManifest(j, m) /\ CallEnters(c, "submit_sync", j, [manifest |-> m, cues |-> FALSE])
      /\ j \notin submitted /\ call[c] = NoCall
      /\ UNCHANGED <<row, automatic, control, run, poller, lock, up, deleted>>
  BY <1>1 DEF Create, SubmitCreate, RetryCreate, Issues
<1> HIDE DEF m
<1>4. Marks(j, "queued")
  BY <1>2, <1>3, ManifestMarks
<1>5. NoCall.pc = "none"
  BY DEF NoCall
<1>6. CallBegins(c, "submit_sync", j)
  BY <1>3, <1>5 DEF IInv, TypeOK, CallBegins
<1> QED BY <1>3, <1>4, <1>6

\* A command begins without writing a status.
LEMMA BeginsStep ==
  ASSUME IInv, NEW c \in Callers, NEW j \in Jobs,
         ResumeConfigure(c, j) \/ RefreshLoad(c, j) \/ RelinkManifest(c, j) \/ DeleteCheck(c, j)
  PROVE  /\ StatusesStay /\ row' = row /\ UNCHANGED <<control, run, poller, lock, up, deleted>>
         /\ \/ /\ ResumeConfigure(c, j) /\ CallBegins(c, "resume_check", j)
               /\ automatic \subseteq automatic'
            \/ /\ RefreshLoad(c, j) /\ CallBegins(c, "refresh_sync", j) /\ "refresh" \in Commands
               /\ automatic' = automatic /\ call'[c].kept = Snapshot(j)
            \/ RelinkManifest(c, j) /\ CallBegins(c, "relink_row", j) /\ automatic' = automatic
            \/ /\ DeleteCheck(c, j) /\ CallBegins(c, "delete_move", j) /\ "delete" \in Commands
               /\ automatic' = automatic
<1>1. call[c] = NoCall /\ row' = row /\ UNCHANGED <<control, run, poller, lock, up, deleted>>
  BY DEF ResumeConfigure, RefreshLoad, RelinkManifest, DeleteCheck, Issues
<1>2. ASSUME NEW p \in {"resume_check", "refresh_sync", "relink_row", "delete_move"}, NEW k,
             CallEnters(c, p, j, k)
      PROVE  CallBegins(c, p, j) /\ call'[c].kept = k
  BY <1>1, <1>2 DEF NoCall, IInv, TypeOK, CallBegins
<1>3. CASE ResumeConfigure(c, j)
  <2>1. UNCHANGED dir /\ automatic \subseteq automatic' /\ CallEnters(c, "resume_check", j, None)
    BY <1>3 DEF ResumeConfigure
  <2> QED BY <1>1, <1>2, <1>3, <2>1, SilentStays DEF Silent
<1>4. CASE RefreshLoad(c, j)
  <2>1. UNCHANGED dir /\ CallEnters(c, "refresh_sync", j, Snapshot(j)) /\ "refresh" \in Commands
        /\ automatic' = automatic
    BY <1>4 DEF RefreshLoad, Issues
  <2> QED BY <1>1, <1>2, <1>4, <2>1, SilentStays DEF Silent
<1>5. CASE RelinkManifest(c, j)
  <2> DEFINE m == [dir[j].manifest EXCEPT !.input = "relinked"]
  <2>1. /\ WriteManifest(j, m) /\ CallEnters(c, "relink_row", j, None) /\ Loadable(j)
        /\ automatic' = automatic
    BY <1>5 DEF RelinkManifest
  <2>2. m \in Manifests /\ m.status = dir[j].manifest.status
    BY <2>1 DEF IInv, TypeOK, Loadable, Directories, Manifests
  <2> HIDE DEF m
  <2>3. Marks(j, m.status)
    BY <1>1, <2>1, <2>2, ManifestMarks
  <2>4. StatusesStay
    BY <1>1, <2>1, <2>2, <2>3 DEF Marks, StatusesStay, Alike, Loadable
  <2> QED BY <1>1, <1>2, <1>5, <2>1, <2>4
<1>6. CASE DeleteCheck(c, j)
  <2>1. UNCHANGED dir /\ CallEnters(c, "delete_move", j, None) /\ "delete" \in Commands
        /\ automatic' = automatic
    BY <1>6 DEF DeleteCheck, Issues
  <2> QED BY <1>1, <1>2, <1>6, <2>1, SilentStays DEF Silent
<1> QED BY <1>3, <1>4, <1>5, <1>6

\* A pause: its task has started, or cannot be written, or is failed on its behalf.
LEMMA PauseStep ==
  ASSUME IInv, NEW c \in Callers, NEW j \in Jobs, Pause(c, j)
  PROVE  /\ control[j] # None /\ control' = [control EXCEPT ![j].paused = TRUE] /\ row' = row
         /\ \A r \in Runs : run'[r].pc = run[r].pc /\ run'[r].job = run[r].job /\ run'[r].kept = run[r].kept
         /\ UNCHANGED <<automatic, poller, up, deleted>>
         /\ \/ control[j].started /\ Silent /\ CallBegins(c, "await_stop", j) /\ UNCHANGED lock
            \/ /\ ~ control[j].started /\ (row[j] = None \/ ~ Loadable(j))
               /\ Silent /\ UNCHANGED <<call, lock>>
            \/ /\ ~ control[j].started /\ row[j] # None /\ Marks(j, "failed")
               /\ CallBegins(c, "pause_sync", j) /\ lock' = c
<1>1. /\ call[c] = NoCall /\ control[j] # None /\ control' = [control EXCEPT ![j].paused = TRUE]
      /\ row' = row /\ UNCHANGED <<automatic, poller, up, deleted>> /\ run' = Notify(j, run)
  BY DEF Pause, Issues
<1>2. \A r \in Runs : run'[r].pc = run[r].pc /\ run'[r].job = run[r].job /\ run'[r].kept = run[r].kept
  BY <1>1, NotifyKeeps DEF IInv
<1>3. ASSUME NEW p \in {"await_stop", "pause_sync"}, CallEnters(c, p, j, None)
      PROVE  CallBegins(c, p, j)
  BY <1>1, <1>3 DEF NoCall, IInv, TypeOK, CallBegins
<1>4. CASE control[j].started /\ CallEnters(c, "await_stop", j, None) /\ UNCHANGED <<durable, lock>>
  BY <1>1, <1>2, <1>3, <1>4 DEF Silent
<1>5. CASE ~ control[j].started /\ (row[j] = None \/ ~ Loadable(j)) /\ UNCHANGED <<durable, lock, call>>
  BY <1>1, <1>2, <1>5 DEF Silent
<1>6. CASE /\ ~ control[j].started /\ row[j] # None /\ Loadable(j) /\ WriteStatus(j, "failed")
           /\ lock' = c /\ CallEnters(c, "pause_sync", j, None)
  BY <1>1, <1>2, <1>3, <1>6, StatusMarks DEF Statuses
<1> QED BY <1>4, <1>5, <1>6 DEF Pause

\* A refresh publishes what it has read.
LEMMA RefreshSyncStep ==
  ASSUME IInv, NEW c \in Callers, RefreshSync(c)
  PROVE  /\ call[c].pc = "refresh_sync" /\ CallOver(c)
         /\ Shows(call[c].job, call[c].kept.manifest.status)
         /\ UNCHANGED <<automatic, control, run, poller, lock, up, deleted>>
<1>1. /\ call[c].pc = "refresh_sync" /\ Leaves(c) /\ SyncRow(call[c].job, call[c].kept)
      /\ UNCHANGED <<automatic, control, run, poller, lock, up, deleted, dir>>
  BY DEF RefreshSync
<1>2. call[c].job \in Jobs /\ call[c].kept \in Snapshots
  BY <1>1, CallAtKnows
<1> QED BY <1>1, <1>2, SnapshotShows, CallReturns

\* At the start there is nothing of the kind.
LEMMA InitPlain ==
  ASSUME Init
  PROVE  Plain
BY DEF Init, Plain, Undeleted, NoCall

\* Without the commands that would, nothing is deleted; a refresh is a command,
\* and only a crash and the recovery after it end and begin the application.
LEMMA NextUndeleted ==
  ASSUME IInv, Undeleted, [Next]_vars, "delete" \notin Commands
  PROVE  /\ Undeleted'
         /\ \A c \in Callers : call'[c].pc = "refresh_sync" => call[c].pc = "refresh_sync" \/ "refresh" \in Commands
         /\ up' = up \/ Crash \/ Ready
<1> USE DEF Undeleted
<1> DEFINE Goal == /\ Undeleted'
                   /\ \A c \in Callers : call'[c].pc = "refresh_sync" => call[c].pc = "refresh_sync" \/ "refresh" \in Commands
                   /\ up' = up \/ Crash \/ Ready
<1>1. ASSUME NEW c \in Callers, NEW j \in Jobs, Issue(c, j)
      PROVE  Goal
  <2>1. CASE SubmitCreate(c, j) \/ RetryCreate(c, j)
    BY <2>1, CreateStep DEF CallBegins
  <2>2. CASE Pause(c, j)
    BY <2>2, PauseStep DEF CallBegins
  <2>3. CASE ResumeConfigure(c, j) \/ RefreshLoad(c, j) \/ RelinkManifest(c, j) \/ DeleteCheck(c, j)
    BY <2>3, BeginsStep DEF CallBegins
  <2> QED BY <1>1, <2>1, <2>2, <2>3 DEF Issue
<1>2. ASSUME NEW c \in Callers, Serve(c)
      PROVE  Goal
  <2>1. CASE ResumeLock(c)
    <3>1. UNCHANGED <<up, deleted>>
      BY <2>1 DEF ResumeLock
    <3>2. /\ \A d \in Callers \ {c} : call'[d] = call[d]
          /\ call'[c].pc \in {"none", "unhold", "reserve"}
      BY <2>1, ResumeLockStep DEF CallTo, CallOver
    <3> QED BY <3>1, <3>2
  <2>2. CASE Send(c)
    <3>1. UNCHANGED <<up, deleted>>
      BY <2>2 DEF Send
    <3>2. /\ \A d \in Callers \ {c} : call'[d] = call[d]
          /\ call'[c].pc \in {"none", "sent"}
      BY <2>2, SendStep DEF CallTo, CallOver
    <3> QED BY <3>1, <3>2
  <2>3. CASE \/ SubmitSync(c) \/ SubmitPrepare(c) \/ Enqueue(c) \/ ReturnResumed(c)
             \/ PauseSync(c) \/ ResumeCheck(c) \/ Unhold(c) \/ Reserve(c)
             \/ Requeue(c) \/ RequeueSync(c) \/ RelinkRow(c) \/ RefreshSync(c)
    <3>1. UNCHANGED <<up, deleted>>
      BY <2>3 DEF SubmitSync, SubmitPrepare, Enqueue, ReturnResumed, PauseSync, ResumeCheck,
         Unhold, Reserve, Requeue, RequeueSync, RelinkRow, RefreshSync
    <3>2. \/ CallOver(c)
          \/ \E p \in {"submit_prepare", "enqueue", "send", "resume_lock", "requeue", "requeue_sync"} : CallTo(c, p)
      BY <2>3, SubmitSyncStep, SubmitPrepareStep, EnqueueStep, ReturnResumedStep, PauseSyncStep,
         ResumeCheckStep, UnholdStep, ReserveStep, RequeueStep, RequeueSyncStep, RelinkRowStep,
         RefreshSyncStep
    <3> QED BY <3>1, <3>2 DEF CallTo, CallOver
  <2>4. CASE DeleteMove(c) \/ DeleteRow(c)
    BY <2>4 DEF DeleteMove, DeleteRow
  <2> QED BY <1>2, <2>1, <2>2, <2>3, <2>4 DEF Serve
<1>3. ASSUME NEW r \in Runs, Close(r)
      PROVE  Goal
  <2>1. UNCHANGED <<up, deleted>> /\ call' = Released(run[r].job)
    BY <1>3 DEF Close
  <2>2. \A c \in Callers : call'[c] = call[c] \/ call'[c].pc = "none"
    BY <2>1 DEF Released, NoCall
  <2> QED BY <2>1, <2>2
<1>4. CASE UNCHANGED <<up, deleted, call>>
  BY <1>4
<1>5. CASE Crash
  BY <1>5 DEF Crash, NoCall
<1>6. ASSUME NEW r \in Runs,
             \/ Execute(r) \/ Acquire(r) \/ Withdraw(r) \/ StopOnPause(r) \/ NextStage(r)
             \/ RecognitionFails(r) \/ WorkFails(r) \/ Poll(r)
      PROVE  UNCHANGED <<up, deleted, call>> \/ Close(r)
  <2>1. CASE Lookup(r) \/ Admit(r) \/ Wake(r) \/ Start(r) \/ Begin(r) \/ Enter(r)
             \/ Acquire(r) \/ Withdraw(r) \/ StopOnPause(r) \/ WorkFails(r) \/ Poll(r)
    BY <2>1 DEF Lookup, Admit, Wake, Start, Begin, Enter, Acquire, Withdraw, StopOnPause,
       WorkFails, Poll, PollerLoads, PollerSyncs
  <2>2. CASE Recognize(r) \/ NextStage(r) \/ Recognized(r) \/ RecognitionFails(r)
             \/ MarkTranslating(r) \/ JoinPrefix(r) \/ PublishCues(r) \/ MarkPublished(r)
    BY <2>2 DEF Recognize, NextStage, WriteStage, Recognized, RecognitionFails, MarkTranslating,
       JoinPrefix, PublishCues, MarkPublished
  <2>3. CASE Translate(r) \/ TranslatePending(r) \/ MarkDone(r) \/ FailManifest(r) \/ LoadFinal(r)
             \/ SyncFinal(r) \/ ForgetAutomatic(r)
    BY <2>3 DEF Translate, TranslatePending, MarkDone, FailManifest, LoadFinal, SyncFinal, ForgetAutomatic
  <2> QED BY <1>6, <2>1, <2>2, <2>3 DEF Execute
<1>7. CASE Ready
  BY <1>7 DEF Ready
<1>8. CASE (\E j \in Jobs : Recover(j)) \/ UNCHANGED vars
  BY <1>8 DEF Recover, vars
<1> QED BY <1>1, <1>2, <1>3, <1>4, <1>5, <1>6, <1>7, <1>8 DEF Next

\* Without the commands that would, nothing is refreshed or interrupted either.
LEMMA NextPlain ==
  ASSUME IInv, Plain, [Next]_vars, Commands \cap {"refresh", "delete", "crash"} = {}
  PROVE  Plain'
<1>1. "delete" \notin Commands /\ "refresh" \notin Commands /\ "crash" \notin Commands
  OBVIOUS
<1>2. ~ Crash
  BY <1>1 DEF Crash
<1>3. up'
  BY <1>1, <1>2, NextUndeleted DEF Plain, Ready
<1> QED BY <1>1, <1>3, NextUndeleted DEF Plain

-----------------------------------------------------------------------------
(* A settled task: its row shows its status file *)

\* The points of a run, and of a command, that still has to publish the status
\* it leaves in the status file.
Owing == Executing \ {"leaving", "closing"}
OwingCalls == {"pause_sync", "unhold", "requeue_sync"}

Owed(j) ==
  \/ \E r \in Runs : run[r].job = j /\ run[r].pc \in Owing
  \/ \E c \in Callers : call[c].job = j /\ call[c].pc \in OwingCalls

Agrees(j) == row[j] # None /\ Loadable(j) => row[j].status = dir[j].manifest.status

\* The row shows the status file, or somebody is going to see to it.
AgreesOrOwed == \A j \in Jobs : Agrees(j) \/ Owed(j)

\* What a run reports in the end is what the status file says.
ReportsStatus ==
  \A r \in Runs : run[r].pc = "reporting" =>
    run[r].kept.manifest.status = dir[run[r].job].manifest.status

Settling == Plain /\ AgreesOrOwed /\ ReportsStatus

\* A run works for a task: the other tasks and runs stay, and its own task agrees
\* afterwards unless the run is going to see to it.
LEMMA RunSettles ==
  ASSUME IInv, Settling, Plain', NEW r \in Runs, NEW j \in Jobs, run[r].pc # "none", run[r].job = j,
         \A s \in Runs \ {r} : run'[s] = run[s],
         \A c \in Callers : call'[c] = call[c] \/ call[c].pc \notin OwingCalls,
         \A k \in Jobs \ {j} : Alike(k),
         \/ run'[r].job = j /\ run'[r].pc \in Owing
         \/ Agrees(j)'
         \/ Alike(j) /\ run[r].pc \notin Owing,
         run'[r].pc = "reporting" =>
           run'[r].job = j /\ run'[r].kept.manifest.status = dir'[j].manifest.status
  PROVE  Settling'
<1> USE DEF Settling
<1>1. \A s \in Runs \ {r} : run[s].job # j
  BY DEF IInv, OneDispatch, Plain, Undeleted
<1>2. ReportsStatus'
  <2> SUFFICES ASSUME NEW s \in Runs, run'[s].pc = "reporting"
               PROVE  run'[s].kept.manifest.status = dir'[run'[s].job].manifest.status
    BY DEF ReportsStatus
  <2>1. CASE s # r
    <3>1. run'[s] = run[s] /\ run[s].job \in Jobs \ {j}
      BY <1>1, <2>1, RunAt
    <3> QED BY <3>1 DEF ReportsStatus, Alike
  <2> QED BY <2>1
<1>3. ASSUME NEW k \in Jobs
      PROVE  (Agrees(k) \/ Owed(k))'
  <2>1. CASE k # j \/ (Alike(j) /\ run[r].pc \notin Owing)
    <3>1. Alike(k)
      BY <2>1
    <3>2. CASE Agrees(k)
      BY <3>1, <3>2 DEF Agrees, Alike, Loadable
    <3>3. CASE \E s \in Runs : run[s].job = k /\ run[s].pc \in Owing
      <4>1. PICK s \in Runs : run[s].job = k /\ run[s].pc \in Owing
        BY <3>3
      <4>2. run'[s] = run[s]
        BY <2>1, <4>1
      <4> QED BY <4>1, <4>2 DEF Owed
    <3>4. CASE \E c \in Callers : call[c].job = k /\ call[c].pc \in OwingCalls
      BY <3>4 DEF Owed
    <3> QED BY <3>2, <3>3, <3>4 DEF AgreesOrOwed, Owed
  <2>2. CASE k = j /\ ~ (Alike(j) /\ run[r].pc \notin Owing)
    BY <2>2 DEF Owed
  <2> QED BY <2>1, <2>2
<1> QED BY <1>2, <1>3 DEF AgreesOrOwed

\* The runs are where they were, but for one that is spawned.
RunsStand ==
  \A s \in Runs :
    \/ run'[s].pc = run[s].pc /\ run'[s].job = run[s].job /\ run'[s].kept = run[s].kept
    \/ run[s].pc = "none" /\ run'[s].pc = "sent"

\* The task is not reported by a run.
NotReported(j) == \A s \in Runs : run[s].pc = "reporting" => run[s].job # j

\* A command works for a task: likewise, and no report is overtaken.
LEMMA CallSettles ==
  ASSUME IInv, Settling, Plain', NEW c \in Callers, NEW j \in Jobs,
         RunsStand,
         \A d \in Callers \ {c} : call'[d] = call[d],
         \A k \in Jobs \ {j} : Alike(k),
         \/ call'[c].job = j /\ call'[c].pc \in OwingCalls
         \/ Agrees(j)'
         \/ Alike(j),
         call[c].pc \in OwingCalls => call[c].job = j /\ Agrees(j)',
         \/ dir'[j].manifest.status = dir[j].manifest.status
         \/ NotReported(j)
  PROVE  Settling'
<1> USE DEF Settling, RunsStand, NotReported
<1>1. ReportsStatus'
  <2> SUFFICES ASSUME NEW s \in Runs, run'[s].pc = "reporting"
               PROVE  run'[s].kept.manifest.status = dir'[run'[s].job].manifest.status
    BY DEF ReportsStatus
  <2>1. run'[s].pc = run[s].pc /\ run'[s].job = run[s].job /\ run'[s].kept = run[s].kept /\ run[s].job \in Jobs
    BY RunAt
  <2>2. dir'[run[s].job].manifest.status = dir[run[s].job].manifest.status
    BY <2>1 DEF Alike
  <2> QED BY <2>1, <2>2 DEF ReportsStatus
<1>2. ASSUME NEW k \in Jobs
      PROVE  (Agrees(k) \/ Owed(k))'
  <2>1. CASE k # j \/ Alike(j)
    <3>1. Alike(k)
      BY <2>1
    <3>2. CASE Agrees(k)
      BY <3>1, <3>2 DEF Agrees, Alike, Loadable
    <3>3. CASE \E s \in Runs : run[s].job = k /\ run[s].pc \in Owing
      <4>1. PICK s \in Runs : run[s].job = k /\ run[s].pc \in Owing
        BY <3>3
      <4>2. run'[s].job = k /\ run'[s].pc \in Owing
        BY <4>1 DEF Owing, Executing, Interruptible
      <4> QED BY <4>2 DEF Owed
    <3>4. CASE \E d \in Callers : call[d].job = k /\ call[d].pc \in OwingCalls
      <4>1. PICK d \in Callers : call[d].job = k /\ call[d].pc \in OwingCalls
        BY <3>4
      <4>2. CASE d = c
        BY <4>1, <4>2
      <4>3. CASE d # c
        BY <4>1, <4>3 DEF Owed
      <4> QED BY <4>2, <4>3
    <3> QED BY <3>2, <3>3, <3>4 DEF AgreesOrOwed, Owed
  <2>2. CASE k = j /\ ~ Alike(j)
    BY <2>2 DEF Owed
  <2> QED BY <2>1, <2>2
<1> QED BY <1>1, <1>2 DEF AgreesOrOwed

\* A task that has not started, or is dispatched, has nothing to report.
LEMMA NothingReported ==
  ASSUME IInv, deleted = {}, NEW j \in Jobs,
         \/ control[j] = None \/ ~ control[j].started
         \/ \E c \in Callers : call[c].job = j /\ Dispatching(c)
  PROVE  NotReported(j)
BY DEF NotReported, IInv, Controlled, OneDispatch, Executing

\* Only a run that is on takes a step.
LEMMA ExecuteOn ==
  ASSUME IInv, NEW r \in Runs,
         \/ Execute(r) \/ Acquire(r) \/ Withdraw(r) \/ StopOnPause(r) \/ NextStage(r)
         \/ RecognitionFails(r) \/ WorkFails(r) \/ Poll(r)
  PROVE  run[r].pc # "none" /\ run[r].job \in Jobs
<1>1. run[r].pc # "none"
  <2>1. CASE Poll(r)
    BY <2>1 DEF Poll, PollerLoads, PollerSyncs, IInv, RunShape, Shaped, Working, Interruptible
  <2>2. CASE ~ Poll(r)
    BY <2>2 DEF Execute, Lookup, Admit, Wake, Acquire, Withdraw, Start, Begin, StopOnPause,
       WorkFails, Enter, Recognize, NextStage, Recognized, RecognitionFails, MarkTranslating,
       JoinPrefix, PublishCues, MarkPublished, Translate, TranslatePending, MarkDone,
       FailManifest, LoadFinal, SyncFinal, ForgetAutomatic, Close, Interruptible
  <2> QED BY <2>1, <2>2
<1> QED BY <1>1, RunAt

\* The steps of a run.
LEMMA ExecuteSettles ==
  ASSUME IInv, Settling, Plain', NEW r \in Runs,
         \/ Execute(r) \/ Acquire(r) \/ Withdraw(r) \/ StopOnPause(r) \/ NextStage(r)
         \/ RecognitionFails(r) \/ WorkFails(r) \/ Poll(r)
  PROVE  Settling'
<1> USE DEF Settling
<1>1. run[r].pc # "none" /\ run[r].job \in Jobs
  BY ExecuteOn
<1>2. PICK j \in Jobs : run[r].job = j
  BY <1>1
<1>3. deleted = {}
  BY DEF Plain, Undeleted
<1>4. ASSUME Silent
      PROVE  \A k \in Jobs : Alike(k)
  BY <1>4, SilentStays DEF StatusesStay
<1>5. ASSUME NEW s, Marks(j, s) \/ Shows(j, s)
      PROVE  \A k \in Jobs \ {j} : Alike(k)
  BY <1>5 DEF Marks, Shows, Alike
<1> USE DEF Owing, Executing, Interruptible
<1>6. CASE Lookup(r) \/ Admit(r) \/ Wake(r) \/ Acquire(r) \/ Withdraw(r) \/ Start(r)
  <2>1. /\ run[r].pc \in Before /\ Silent /\ UNCHANGED call
        /\ \E p \in Before \cup {"starting"} : RunTo(r, p)
    BY <1>3, <1>6, AdmissionStep
  <2> QED BY <1>1, <1>2, <1>4, <2>1, RunSettles DEF Before, RunTo
<1>7. CASE Begin(r)
  <2>1. /\ Silent /\ UNCHANGED call /\ run'[r].pc = "entering" /\ run'[r].job = run[r].job
        /\ \A s \in Runs \ {r} : run'[s] = run[s]
    BY <1>7, BeginStep
  <2> QED BY <1>1, <1>2, <1>4, <2>1, RunSettles
<1>8. CASE StopOnPause(r) \/ WorkFails(r) \/ Enter(r)
  <2>1. /\ Silent /\ UNCHANGED call /\ \E p \in {"failing", "translate", "recognize"} : RunTo(r, p)
    BY <1>8, BreakStep
  <2> QED BY <1>1, <1>2, <1>4, <2>1, RunSettles DEF RunTo
<1>9. CASE Recognize(r) \/ NextStage(r) \/ RecognitionFails(r)
  <2>1. /\ UNCHANGED call /\ \E p \in {"recognizing", "unrecognized"} : RunTo(r, p)
        /\ \E s \in Statuses : Marks(j, s)
    BY <1>2, <1>9, StageStep DEF Statuses
  <2> QED BY <1>1, <1>2, <1>5, <2>1, RunSettles DEF RunTo
<1>10. CASE Recognized(r)
  <2>1. UNCHANGED call /\ RunTo(r, "recognized") /\ Marks(j, "done")
    BY <1>2, <1>10, RecognizedStep
  <2> QED BY <1>1, <1>2, <1>5, <2>1, RunSettles DEF RunTo
<1>11. CASE MarkTranslating(r)
  <2>1. UNCHANGED call /\ RunTo(r, "prefix") /\ (Marks(j, "translating") \/ Silent)
    BY <1>2, <1>3, <1>11, MarkTranslatingStep
  <2> QED BY <1>1, <1>2, <1>4, <1>5, <2>1, RunSettles DEF RunTo
<1>12. CASE JoinPrefix(r)
  <2>1. Silent /\ UNCHANGED call /\ \E p \in {"failing", "publishing"} : RunTo(r, p)
    BY <1>12, JoinPrefixStep
  <2> QED BY <1>1, <1>2, <1>4, <2>1, RunSettles DEF RunTo
<1>13. CASE PublishCues(r)
  <2>1. UNCHANGED call /\ RunTo(r, "marking") /\ Shows(j, run[r].kept.manifest.status)
    BY <1>2, <1>13, PublishCuesStep
  <2> QED BY <1>1, <1>2, <1>5, <2>1, RunSettles DEF RunTo
<1>14. CASE MarkPublished(r)
  <2>1. UNCHANGED <<call, row>> /\ RunTo(r, "translate") /\ \A k \in Jobs \ {j} : dir'[k] = dir[k]
    BY <1>2, <1>14, MarkPublishedStep
  <2>2. \A k \in Jobs \ {j} : Alike(k)
    BY <2>1 DEF Alike
  <2> QED BY <1>1, <1>2, <2>1, <2>2, RunSettles DEF RunTo
<1>15. CASE Translate(r)
  <2>1. /\ UNCHANGED call /\ \E p \in {"translating", "ending"} : RunTo(r, p)
        /\ Marks(j, "translating") \/ Silent
    BY <1>2, <1>3, <1>15, TranslateStep
  <2> QED BY <1>1, <1>2, <1>4, <1>5, <2>1, RunSettles DEF RunTo
<1>16. CASE TranslatePending(r)
  <2>1. UNCHANGED <<call, dir>> /\ RunTo(r, "translated") /\ \A k \in Jobs \ {j} : row'[k] = row[k]
    BY <1>2, <1>16, TranslatePendingStep
  <2>2. \A k \in Jobs \ {j} : Alike(k)
    BY <2>1 DEF Alike
  <2> QED BY <1>1, <1>2, <2>1, <2>2, RunSettles DEF RunTo
<1>17. CASE MarkDone(r) \/ FailManifest(r)
  <2>1. UNCHANGED call /\ RunTo(r, "ending") /\ \E s \in Statuses : Marks(j, s)
    BY <1>2, <1>3, <1>17, OutcomeStep DEF Statuses
  <2> QED BY <1>1, <1>2, <1>5, <2>1, RunSettles DEF RunTo
<1>18. CASE LoadFinal(r)
  <2>1. Silent /\ UNCHANGED call /\ RunTo(r, "reporting") /\ run'[r].kept = Snapshot(j)
    BY <1>2, <1>3, <1>18, LoadFinalStep
  <2>2. run'[r].kept.manifest.status = dir'[j].manifest.status
    BY <2>1 DEF Snapshot, Silent
  <2> QED BY <1>1, <1>2, <1>4, <2>1, <2>2, RunSettles DEF RunTo
<1>19. CASE SyncFinal(r)
  <2>1. /\ UNCHANGED call /\ RunTo(r, "leaving") /\ Shows(j, run[r].kept.manifest.status)
        /\ run[r].pc = "reporting"
    BY <1>2, <1>19, SyncFinalStep
  <2>2. Agrees(j)'
    BY <1>2, <2>1 DEF Agrees, Shows, ReportsStatus
  <2> QED BY <1>1, <1>2, <1>5, <2>1, <2>2, RunSettles DEF RunTo
<1>20. CASE ForgetAutomatic(r)
  <2>1. Silent /\ UNCHANGED call /\ RunTo(r, "closing") /\ run[r].pc = "leaving"
    BY <1>20, ForgetAutomaticStep
  <2> QED BY <1>1, <1>2, <1>4, <2>1, RunSettles DEF RunTo
<1>21. CASE Close(r)
  <2>1. /\ Silent /\ run'[r].pc = "none" /\ run[r].pc = "closing" /\ call' = Released(j)
        /\ \A s \in Runs \ {r} : run'[s] = run[s]
    BY <1>2, <1>21, CloseStep
  <2>2. \A c \in Callers : call'[c] = call[c] \/ call[c].pc \notin OwingCalls
    BY <2>1 DEF Released, OwingCalls
  <2> QED BY <1>1, <1>2, <1>4, <2>1, <2>2, RunSettles
<1>22. CASE PollerLoads(r)
  <2>1. Silent /\ UNCHANGED <<call, run>>
    BY <1>3, <1>22, PollerLoadsStep
  <2>2. \A k \in Jobs : Alike(k)
    BY <1>4, <2>1
  <2>3. AgreesOrOwed' /\ ReportsStatus'
    BY <2>1, <2>2 DEF AgreesOrOwed, Agrees, Owed, ReportsStatus, Silent, Loadable
  <2> QED BY <2>3
<1>23. CASE PollerSyncs(r)
  <2>1. UNCHANGED <<call, run>> /\ Shows(j, poller[r].seen.manifest.status) /\ run[r].pc \in Working
    BY <1>2, <1>23, PollerSyncsStep
  <2>2. run[r].pc \in Owing /\ run[r].pc # "reporting"
    BY <2>1 DEF Working
  <2> QED BY <1>1, <1>2, <1>5, <2>1, <2>2, RunSettles
<1> QED BY <1>6, <1>7, <1>8, <1>9, <1>10, <1>11, <1>12, <1>13, <1>14, <1>15, <1>16, <1>17,
          <1>18, <1>19, <1>20, <1>21, <1>22, <1>23 DEF Execute, Poll

\* The steps of a command.
LEMMA ServeSettles ==
  ASSUME IInv, Settling, Plain', NEW c \in Callers, Serve(c)
  PROVE  Settling'
<1> USE DEF Settling
<1> USE DEF OwingCalls
<1>1. call[c].pc # "none" /\ deleted = {}
  BY DEF Plain, Undeleted, Serve, SubmitSync, SubmitPrepare, Enqueue, Send, ReturnResumed, PauseSync, ResumeCheck,
     ResumeLock, Unhold, Reserve, Requeue, RequeueSync, RefreshSync, RelinkRow, DeleteMove, DeleteRow
<1>2. PICK j \in Jobs : call[c].job = j /\ Loadable(j)
  BY <1>1, CallFinds
<1>3. ASSUME StatusesStay
      PROVE  Alike(j) /\ \A k \in Jobs \ {j} : Alike(k)
  BY <1>3 DEF StatusesStay
<1>4. ASSUME NEW s, Marks(j, s) \/ Shows(j, s)
      PROVE  \A k \in Jobs \ {j} : Alike(k)
  BY <1>4 DEF Marks, Shows, Alike
<1>5. ASSUME NEW s, Shows(j, s), s = dir[j].manifest.status
      PROVE  Agrees(j)'
  BY <1>5 DEF Shows, Agrees, Loadable
<1>6. ASSUME UNCHANGED run
      PROVE  RunsStand
  BY <1>6 DEF RunsStand
<1>7. ASSUME StatusesStay, UNCHANGED run, call[c].pc \notin OwingCalls,
             \A d \in Callers \ {c} : call'[d] = call[d]
      PROVE  Settling'
  BY <1>3, <1>6, <1>7, CallSettles DEF Alike
<1>8. CASE SubmitSync(c)
  <2>1. /\ call[c].pc = "submit_sync" /\ CallTo(c, "submit_prepare") /\ Shows(j, "queued")
        /\ dir[j].manifest.status = "queued" /\ UNCHANGED run
    BY <1>2, <1>8, SubmitSyncStep DEF Loadable
  <2>2. dir'[j].manifest.status = dir[j].manifest.status
    BY <2>1 DEF Shows
  <2> QED BY <1>2, <1>4, <1>5, <1>6, <2>1, <2>2, CallSettles DEF CallTo
<1>9. CASE SubmitPrepare(c) \/ Enqueue(c)
  <2>1. /\ call[c].pc \in {"submit_prepare", "enqueue"} /\ StatusesStay /\ UNCHANGED run
        /\ \E p \in CallPoints : CallTo(c, p)
    BY <1>9, SubmitPrepareStep, EnqueueStep DEF CallPoints
  <2> QED BY <1>7, <2>1 DEF CallTo
<1>10. CASE Send(c)
  <2>1. /\ call[c].pc = "send" /\ Silent /\ (CallTo(c, "sent") \/ CallOver(c))
        /\ RunsStand
    BY <1>10, SendStep DEF RunsStand
  <2>2. Alike(j) /\ \A k \in Jobs \ {j} : Alike(k)
    BY <1>3, <2>1, SilentStays
  <2> QED BY <1>2, <2>1, <2>2, CallSettles DEF CallTo, CallOver, Alike
<1>11. CASE ReturnResumed(c) \/ ResumeCheck(c) \/ RelinkRow(c) \/ Reserve(c)
  <2>1. /\ call[c].pc \in {"sent", "resume_check", "relink_row", "reserve"} /\ StatusesStay /\ UNCHANGED run
        /\ CallOver(c) \/ \E p \in CallPoints : CallTo(c, p)
    BY <1>1, <1>11, SilentStays, ReturnResumedStep, ResumeCheckStep, RelinkRowStep, ReserveStep DEF CallPoints
  <2> QED BY <1>7, <2>1 DEF CallTo, CallOver
<1>12. CASE PauseSync(c) \/ Unhold(c) \/ RequeueSync(c)
  <2>1. /\ call[c].pc \in OwingCalls /\ Shows(j, dir[j].manifest.status)
        /\ CallOver(c) \/ CallTo(c, "enqueue")
        /\ RunsStand
    BY <1>1, <1>2, <1>12, PauseSyncStep, UnholdStep, RequeueSyncStep DEF RunsStand
  <2>2. dir'[j].manifest.status = dir[j].manifest.status
    BY <2>1 DEF Shows
  <2> QED BY <1>2, <1>4, <1>5, <2>1, <2>2, CallSettles DEF CallTo, CallOver
<1>13. CASE ResumeLock(c)
  <2>1. call[c].pc = "resume_lock" /\ UNCHANGED run
    BY <1>1, <1>13, ResumeLockStep
  <2>2. CASE Silent /\ \A d \in Callers \ {c} : call'[d] = call[d]
    BY <1>7, <2>1, <2>2, SilentStays
  <2>3. CASE ~ control[j].started /\ Marks(j, "queued") /\ CallTo(c, "unhold")
    <3>1. NotReported(j)
      BY <1>1, <2>3, NothingReported
    <3> QED BY <1>2, <1>4, <1>6, <2>1, <2>3, <3>1, CallSettles DEF CallTo
  <2> QED BY <1>1, <1>2, <1>13, <2>2, <2>3, ResumeLockStep DEF CallOver
<1>14. CASE Requeue(c)
  <2>1. /\ call[c].pc = "requeue" /\ CallTo(c, "requeue_sync") /\ Marks(j, "queued") /\ UNCHANGED run
    BY <1>2, <1>14, RequeueStep
  <2>2. NotReported(j)
    BY <1>1, <1>2, <2>1, NothingReported DEF Dispatching
  <2> QED BY <1>2, <1>4, <1>6, <2>1, <2>2, CallSettles DEF CallTo
<1>15. CASE RefreshSync(c) \/ DeleteMove(c) \/ DeleteRow(c)
  BY <1>15 DEF Plain, Undeleted, RefreshSync, DeleteMove, DeleteRow
<1> QED BY <1>8, <1>9, <1>10, <1>11, <1>12, <1>13, <1>14, <1>15 DEF Serve

\* The steps that issue a command.
LEMMA IssueSettles ==
  ASSUME IInv, Settling, Plain', NEW c \in Callers, NEW j \in Jobs, Issue(c, j)
  PROVE  Settling'
<1> USE DEF Settling
<1> USE DEF OwingCalls
<1>1. deleted = {}
  BY DEF Plain, Undeleted
<1>2. ASSUME UNCHANGED run
      PROVE  RunsStand
  BY <1>2 DEF RunsStand
<1>3. ASSUME NEW s, Marks(j, s)
      PROVE  \A k \in Jobs \ {j} : Alike(k)
  BY <1>3 DEF Marks, Alike
<1>4. CASE SubmitCreate(c, j) \/ RetryCreate(c, j)
  <2>1. /\ j \notin submitted /\ CallBegins(c, "submit_sync", j) /\ Marks(j, "queued") /\ UNCHANGED run
    BY <1>4, CreateStep
  <2>2. row[j] = None /\ \A s \in Runs : run[s].job # j
    BY <2>1 DEF IInv, Untouched
  <2>3. Agrees(j)'
    BY <2>1, <2>2 DEF Agrees, Marks
  <2> QED BY <1>2, <1>3, <2>1, <2>2, <2>3, CallSettles DEF CallBegins, NotReported
<1>5. CASE Pause(c, j)
  <2>0. \A s \in Runs : run'[s].pc = run[s].pc /\ run'[s].job = run[s].job /\ run'[s].kept = run[s].kept
    BY <1>5, PauseStep
  <2>1. RunsStand
    BY <2>0 DEF RunsStand
  <2>2. CASE Silent /\ (CallBegins(c, "await_stop", j) \/ UNCHANGED call)
    <3>1. StatusesStay
      BY <2>2, SilentStays
    <3>2. \A d \in Callers : call'[d] = call[d] \/ (call'[d].pc \notin OwingCalls /\ call[d].pc \notin OwingCalls)
      BY <2>2 DEF CallBegins
    <3>3. AgreesOrOwed' /\ ReportsStatus'
      <4>1. \A k \in Jobs : Owed(k)' <=> Owed(k)
        BY <2>0, <3>2 DEF Owed
      <4>2. \A k \in Jobs : Agrees(k)' <=> Agrees(k)
        BY <2>2 DEF Agrees, Silent, Loadable
      <4>3. ReportsStatus'
        BY <2>0, <2>2 DEF ReportsStatus, Silent
      <4> QED BY <4>1, <4>2, <4>3 DEF AgreesOrOwed
    <3> QED BY <3>3
  <2>3. CASE ~ control[j].started /\ Marks(j, "failed") /\ CallBegins(c, "pause_sync", j)
    <3>1. NotReported(j)
      BY <1>1, <2>3, NothingReported
    <3> QED BY <1>3, <2>1, <2>3, <3>1, CallSettles DEF CallBegins
  <2> QED BY <1>5, <2>2, <2>3, PauseStep
<1>6. CASE ResumeConfigure(c, j) \/ RefreshLoad(c, j) \/ RelinkManifest(c, j) \/ DeleteCheck(c, j)
  <2>1. StatusesStay /\ UNCHANGED run /\ \E p \in CallPoints : CallBegins(c, p, j)
    BY <1>6, BeginsStep DEF CallPoints
  <2> QED BY <1>2, <2>1, CallSettles DEF StatusesStay, CallBegins, Alike
<1> QED BY <1>4, <1>5, <1>6 DEF Issue

\* The row of every task keeps agreeing with its status file, or is going to.
LEMMA NextSettles ==
  ASSUME IInv, Settling, [Next]_vars, Commands \cap {"refresh", "delete", "crash"} = {}
  PROVE  Settling'
<1>1. Plain /\ Plain'
  BY NextPlain DEF Settling
<1>2. CASE Crash \/ Ready \/ \E j \in Jobs : Recover(j)
  BY <1>1, <1>2 DEF Plain, Crash, Ready, Recover
<1>3. CASE UNCHANGED vars
  BY <1>3 DEF vars, Settling, Plain, Undeleted, AgreesOrOwed, Agrees, Owed, ReportsStatus, Loadable
<1> QED BY <1>1, <1>2, <1>3, ExecuteSettles, ServeSettles, IssueSettles DEF Next

\* Once nobody works for a task any more, the task list shows what its status
\* file says: every run and every command publishes the status it has written,
\* and nobody publishes an older one later.  Deleted tasks, refreshes and crashes
\* are left out: each of them can leave the two apart.
THEOREM Settled ==
  ASSUME Commands \cap {"refresh", "delete", "crash"} = {}
  PROVE  Spec => []SettledAgrees
<1>1. Init => Settling
  BY InitPlain DEF Init, Settling, AgreesOrOwed, Agrees, ReportsStatus, NoRun
<1>2. IInv /\ Settling /\ [Next]_vars => Settling'
  BY NextSettles
<1>3. Settling => SettledAgrees
  <2> SUFFICES ASSUME Settling, NEW j \in Jobs, ~ Busy(j), ~ HasRun(j), row[j] # None, Loadable(j)
               PROVE  row[j].status = dir[j].manifest.status
    BY DEF SettledAgrees
  <2>1. ~ Owed(j)
    BY DEF Owed, Busy, HasRun
  <2> QED BY <2>1 DEF Settling, AgreesOrOwed, Agrees
<1> QED BY <1>1, <1>2, <1>3, Invariance, PTL DEF Spec

-----------------------------------------------------------------------------
(* A held task: paused before its run has started *)

Held(j) == control[j] # None /\ control[j].paused /\ ~ control[j].started

\* Every task that has got past its first row has one, and so has every task
\* with a control.
RowsThere ==
  /\ \A j \in Jobs : control[j] # None => row[j] # None
  /\ \A c \in Callers : call[c].pc \notin {"none", "submit_sync"} => row[call[c].job] # None

\* A held task is failed in its status file unless a resume is letting it go,
\* and in its row unless the pause is on its way there; it is not dispatched,
\* and a refresh has read nothing else.
Rests(j) ==
  Held(j) =>
    /\ \/ dir[j].manifest.status = "failed"
       \/ \E c \in Callers : call[c].job = j /\ call[c].pc = "unhold"
    /\ \/ row[j].status = "failed"
       \/ \E c \in Callers : call[c].job = j /\ call[c].pc \in {"pause_sync", "unhold"}
    /\ \A c \in Callers : call[c].job = j => ~ Dispatching(c)
    /\ \A c \in Callers : call[c].job = j /\ call[c].pc = "refresh_sync" =>
         call[c].kept.manifest.status = "failed"

\* No control survives the end of the application.
DownForgets == ~ up => \A j \in Jobs : control[j] = None

Holding == Undeleted /\ RowsThere /\ DownForgets /\ \A j \in Jobs : Rests(j)

\* Only one command is in flight at a time.
OneCaller == \A c, d \in Callers : c = d

\* Rows and controls come in this order and rows stay.
RowsStay ==
  /\ \A j \in Jobs : row[j] # None => row'[j] # None
  /\ \A j \in Jobs : control'[j] # None => control[j] # None

\* A run works for its task: the others stay, and its own is held afterwards only
\* if it was before and nothing was written.
LEMMA RunHolds ==
  ASSUME IInv, Holding, Undeleted', NEW j \in Jobs, RowsStay, up' = up,
         \A c \in Callers : call'[c] = call[c] \/ (call[c].pc = "await_stop" /\ call'[c].pc = "none"),
         \A k \in Jobs \ {j} : Alike(k) /\ control'[k] = control[k],
         Held(j)' => Held(j) /\ Alike(j)
  PROVE  Holding'
<1> USE DEF Holding
<1>1. RowsThere'
  <2>1. \A k \in Jobs : control'[k] # None => row'[k] # None
    BY DEF RowsThere, RowsStay
  <2>2. ASSUME NEW c \in Callers, call'[c].pc \notin {"none", "submit_sync"}
        PROVE  row'[call'[c].job] # None
    <3>1. call'[c] = call[c] /\ call[c].job \in Jobs
      BY <2>2, CallAtKnows
    <3> QED BY <2>2, <3>1 DEF RowsThere, RowsStay
  <2> QED BY <2>1, <2>2 DEF RowsThere
<1>2. DownForgets'
  BY DEF DownForgets, RowsStay
<1>3. ASSUME NEW k \in Jobs, Held(k)'
      PROVE  Rests(k)'
  <2>1. Held(k) /\ Alike(k)
    BY <1>3 DEF Held
  <2>2. \A c \in Callers : call'[c] = call[c] \/ call'[c].pc \notin {"pause_sync", "unhold", "refresh_sync", "requeue", "requeue_sync", "send", "enqueue"}
    OBVIOUS
  <2>3. \A c \in Callers : call[c].pc \in {"pause_sync", "unhold"} => call'[c] = call[c]
    OBVIOUS
  <2>4. /\ \/ dir[k].manifest.status = "failed"
           \/ \E c \in Callers : call[c].job = k /\ call[c].pc = "unhold"
        /\ \/ row[k].status = "failed"
           \/ \E c \in Callers : call[c].job = k /\ call[c].pc \in {"pause_sync", "unhold"}
        /\ \A c \in Callers : call[c].job = k => ~ Dispatching(c)
        /\ \A c \in Callers : call[c].job = k /\ call[c].pc = "refresh_sync" =>
             call[c].kept.manifest.status = "failed"
    BY <2>1 DEF Rests
  <2>5. dir'[k].manifest.status = "failed" \/ \E c \in Callers : call'[c].job = k /\ call'[c].pc = "unhold"
    BY <2>1, <2>3, <2>4 DEF Alike
  <2>6. row'[k].status = "failed" \/ \E c \in Callers : call'[c].job = k /\ call'[c].pc \in {"pause_sync", "unhold"}
    BY <2>1, <2>3, <2>4 DEF Alike
  <2>7. \A c \in Callers : call'[c].job = k => ~ Dispatching(c)'
    BY <2>2, <2>4 DEF Dispatching
  <2>8. \A c \in Callers : call'[c].job = k /\ call'[c].pc = "refresh_sync" =>
          call'[c].kept.manifest.status = "failed"
    BY <2>2, <2>4
  <2> QED BY <2>5, <2>6, <2>7, <2>8 DEF Rests
<1>4. \A k \in Jobs : Rests(k)'
  BY <1>3 DEF Rests
<1> QED BY <1>1, <1>2, <1>4

\* A run that executes, or whose control is gone, has no held task.
LEMMA StartedIsNotHeld ==
  ASSUME IInv, Undeleted, NEW r \in Runs, run[r].pc \in Executing
  PROVE  run[r].job \in Jobs /\ ~ Held(run[r].job)
<1>1. run[r].job \in Jobs
  BY RunAt DEF Executing, Interruptible
<1> QED BY <1>1 DEF IInv, Controlled, Undeleted, Held

\* The steps of a run.
LEMMA ExecuteHolds ==
  ASSUME IInv, Holding, Undeleted', NEW r \in Runs,
         \/ Execute(r) \/ Acquire(r) \/ Withdraw(r) \/ StopOnPause(r) \/ NextStage(r)
         \/ RecognitionFails(r) \/ WorkFails(r) \/ Poll(r)
  PROVE  Holding'
<1> USE DEF Holding
<1>1. run[r].pc # "none" /\ deleted = {}
  BY ExecuteOn DEF Undeleted
<1>2. PICK j \in Jobs : run[r].job = j
  BY ExecuteOn
<1>3. up' = up
  <2>1. CASE Lookup(r) \/ Admit(r) \/ Wake(r) \/ Start(r) \/ Begin(r) \/ Enter(r)
             \/ Acquire(r) \/ Withdraw(r) \/ StopOnPause(r) \/ WorkFails(r) \/ Poll(r)
    BY <2>1 DEF Lookup, Admit, Wake, Start, Begin, Enter, Acquire, Withdraw, StopOnPause,
       WorkFails, Poll, PollerLoads, PollerSyncs
  <2>2. CASE Recognize(r) \/ NextStage(r) \/ Recognized(r) \/ RecognitionFails(r)
             \/ MarkTranslating(r) \/ JoinPrefix(r) \/ PublishCues(r) \/ MarkPublished(r)
    BY <2>2 DEF Recognize, NextStage, WriteStage, Recognized, RecognitionFails, MarkTranslating,
       JoinPrefix, PublishCues, MarkPublished
  <2>3. CASE Translate(r) \/ TranslatePending(r) \/ MarkDone(r) \/ FailManifest(r) \/ LoadFinal(r)
             \/ SyncFinal(r) \/ ForgetAutomatic(r) \/ Close(r)
    BY <2>3 DEF Translate, TranslatePending, MarkDone, FailManifest, LoadFinal, SyncFinal,
       ForgetAutomatic, Close
  <2> QED BY <2>1, <2>2, <2>3 DEF Execute
<1>4. ASSUME Silent
      PROVE  \A k \in Jobs : Alike(k) /\ (row[k] # None => row'[k] # None)
  BY <1>4, SilentStays DEF StatusesStay, Silent
<1>5. ASSUME NEW s, Marks(j, s) \/ Shows(j, s)
      PROVE  /\ \A k \in Jobs \ {j} : Alike(k)
             /\ \A k \in Jobs : row[k] # None => row'[k] # None
  BY <1>5 DEF Marks, Shows, Alike
\* Work: the control stays as it is, and its task is not held.
<1>6. ASSUME UNCHANGED <<control, call>>, run[r].pc \in Executing,
             \A k \in Jobs \ {j} : Alike(k), \A k \in Jobs : row[k] # None => row'[k] # None
      PROVE  Holding'
  <2>1. ~ Held(j)'
    BY <1>2, <1>6, StartedIsNotHeld DEF Held
  <2>2. RowsStay
    BY <1>6 DEF RowsStay
  <2> QED BY <1>3, <1>6, <2>1, <2>2, RunHolds
<1> USE DEF Executing, Interruptible
<1>7. CASE Lookup(r) \/ Admit(r) \/ Wake(r) \/ Acquire(r) \/ Withdraw(r) \/ Start(r)
  <2>1. Silent /\ UNCHANGED call
    BY <1>1, <1>7, AdmissionStep
  <2>2. CASE UNCHANGED control
    BY <1>3, <1>4, <2>1, <2>2, RunHolds DEF Held, RowsStay
  <2>3. CASE Start(r) /\ control[j] # None /\ ~ control[j].paused /\ control' = [control EXCEPT ![j].started = TRUE]
    <3>1. control[j] \in Controls
      BY <2>3 DEF IInv, TypeOK
    <3>2. /\ ~ control'[j].paused /\ \A k \in Jobs \ {j} : control'[k] = control[k]
          /\ \A k \in Jobs : control'[k] # None => control[k] # None
      BY <2>3, <3>1 DEF IInv, TypeOK, Controls
    <3>3. RowsStay
      BY <1>4, <2>1, <3>2 DEF RowsStay
    <3>4. ~ Held(j)'
      BY <3>2 DEF Held
    <3> QED BY <1>3, <1>4, <2>1, <3>2, <3>3, <3>4, RunHolds
  <2>4. CASE Lookup(r) \/ Start(r)
    <3>1. control[j] # None /\ dir[j].exists
      BY <1>1, <1>2, RunFinds
    <3> QED BY <1>2, <2>2, <2>3, <2>4, <3>1 DEF Lookup, Start
  <2> QED BY <1>7, <2>2, <2>4 DEF Admit, Wake, Acquire, Withdraw
<1>8. CASE Begin(r) \/ StopOnPause(r) \/ WorkFails(r) \/ Enter(r)
  <2>1. Silent /\ UNCHANGED <<call, control>> /\ run[r].pc \in Executing
    BY <1>8, BeginStep, BreakStep
  <2> QED BY <1>4, <1>6, <2>1
<1>9. CASE Recognize(r) \/ NextStage(r) \/ RecognitionFails(r)
  <2>1. UNCHANGED <<call, control>> /\ run[r].pc \in Executing /\ \E s \in Statuses : Marks(j, s)
    BY <1>2, <1>9, StageStep DEF Statuses
  <2> QED BY <1>5, <1>6, <2>1
<1>10. CASE Recognized(r) \/ MarkTranslating(r) \/ JoinPrefix(r)
  <2>1. /\ UNCHANGED <<call, control>> /\ run[r].pc \in Executing
        /\ Silent \/ \E s \in Statuses : Marks(j, s)
    BY <1>1, <1>2, <1>10, RecognizedStep, MarkTranslatingStep, JoinPrefixStep DEF Statuses
  <2> QED BY <1>4, <1>5, <1>6, <2>1
<1>11. CASE PublishCues(r) \/ SyncFinal(r)
  <2>1. /\ UNCHANGED <<call, control>> /\ run[r].pc \in Executing
        /\ Shows(j, run[r].kept.manifest.status)
    BY <1>2, <1>11, PublishCuesStep, SyncFinalStep
  <2> QED BY <1>5, <1>6, <2>1
<1>12. CASE MarkPublished(r)
  <2>1. /\ UNCHANGED <<call, control, row>> /\ run[r].pc \in Executing
        /\ \A k \in Jobs \ {j} : dir'[k] = dir[k]
    BY <1>2, <1>12, MarkPublishedStep
  <2> QED BY <1>6, <2>1 DEF Alike
<1>13. CASE Translate(r)
  <2>1. /\ UNCHANGED <<call, control>> /\ run[r].pc \in Executing
        /\ Marks(j, "translating") \/ Silent
    BY <1>1, <1>2, <1>13, TranslateStep
  <2> QED BY <1>4, <1>5, <1>6, <2>1
<1>14. CASE TranslatePending(r)
  <2>1. /\ UNCHANGED <<call, control, dir>> /\ run[r].pc \in Executing
        /\ row'[j] # None /\ \A k \in Jobs \ {j} : row'[k] = row[k]
    BY <1>2, <1>14, TranslatePendingStep
  <2> QED BY <1>6, <2>1 DEF Alike
<1>15. CASE MarkDone(r) \/ FailManifest(r)
  <2>1. UNCHANGED <<call, control>> /\ run[r].pc \in Executing /\ \E s \in Statuses : Marks(j, s)
    BY <1>1, <1>2, <1>15, OutcomeStep DEF Statuses
  <2> QED BY <1>5, <1>6, <2>1
<1>16. CASE LoadFinal(r) \/ ForgetAutomatic(r)
  <2>1. Silent /\ UNCHANGED <<call, control>> /\ run[r].pc \in Executing
    BY <1>1, <1>16, LoadFinalStep, ForgetAutomaticStep
  <2> QED BY <1>4, <1>6, <2>1
<1>17. CASE Close(r)
  <2>1. Silent /\ control' = [control EXCEPT ![j] = None] /\ call' = Released(j)
    BY <1>2, <1>17, CloseStep
  <2>2. /\ \A k \in Jobs \ {j} : control'[k] = control[k]
        /\ \A k \in Jobs : control'[k] # None => control[k] # None
        /\ ~ Held(j)'
    BY <2>1 DEF IInv, TypeOK, Held
  <2>3. \A c \in Callers : call'[c] = call[c] \/ (call[c].pc = "await_stop" /\ call'[c].pc = "none")
    BY <2>1 DEF Released, NoCall
  <2> QED BY <1>3, <1>4, <2>1, <2>2, <2>3, RunHolds DEF RowsStay
<1>18. CASE Poll(r)
  <2>1. CASE PollerLoads(r)
    <3>1. Silent /\ UNCHANGED <<call, control>>
      BY <1>1, <2>1, PollerLoadsStep
    <3> QED BY <1>3, <1>4, <3>1, RunHolds DEF Held, RowsStay
  <2>2. CASE PollerSyncs(r)
    <3>1. UNCHANGED <<call, control>> /\ run[r].pc \in Working /\ Shows(j, poller[r].seen.manifest.status)
      BY <1>2, <2>2, PollerSyncsStep
    <3> QED BY <1>5, <1>6, <3>1 DEF Working
  <2> QED BY <1>18, <2>1, <2>2 DEF Poll
<1> QED BY <1>7, <1>8, <1>9, <1>10, <1>11, <1>12, <1>13, <1>14, <1>15, <1>16, <1>17, <1>18 DEF Execute

\* A command works for its task, the only one that does.
LEMMA CallHolds ==
  ASSUME IInv, Holding, Undeleted', OneCaller, NEW c \in Callers, NEW j \in Jobs, up' = up,
         call[c].job \in {j, None}, call'[c].job \in {j, None},
         \A k \in Jobs \ {j} : Alike(k) /\ control'[k] = control[k],
         control'[j] # None \/ call'[c].pc \notin {"none", "submit_sync"} => row'[j] # None,
         up \/ control'[j] = None,
         call'[c].pc # "none" => call'[c].job = j,
         Rests(j)'
  PROVE  Holding'
<1> USE DEF Holding
<1>1. \A d \in Callers : d = c
  BY DEF OneCaller
<1>2. RowsThere'
  <2>1. \A k \in Jobs : control'[k] # None => row'[k] # None
    BY DEF RowsThere, Alike
  <2>2. call'[c].pc \notin {"none", "submit_sync"} => row'[call'[c].job] # None
    OBVIOUS
  <2> QED BY <1>1, <2>1, <2>2 DEF RowsThere
<1>3. DownForgets'
  BY DEF DownForgets
<1>4. ASSUME NEW k \in Jobs \ {j}
      PROVE  Rests(k)'
  <2>1. \A d \in Callers : call[d].job # k /\ call'[d].job # k
    BY <1>1, NoneAssumption
  <2>2. Held(k)' => Held(k)
    BY DEF Held
  <2> QED BY <2>1, <2>2 DEF Rests, Alike
<1> QED BY <1>2, <1>3, <1>4

\* While it writes no status it leaves a held task at rest.
LEMMA RestStays ==
  ASSUME Holding, OneCaller, NEW c \in Callers, NEW j \in Jobs,
         Alike(j), control'[j] = control[j],
         call[c].pc \notin {"pause_sync", "unhold"},
         call'[c].pc \in {"none", "await_stop", "resume_check", "resume_lock", "reserve", "relink_row"}
  PROVE  Rests(j)'
<1>1. \A d \in Callers : d = c
  BY DEF OneCaller
<1>2. ~ Dispatching(c)'
  BY DEF Dispatching
<1>3. SUFFICES ASSUME Held(j)'
               PROVE  Rests(j)'
  BY DEF Rests
<1>4. Held(j)
  BY <1>3 DEF Held
<1>5. dir[j].manifest.status = "failed" /\ row[j].status = "failed"
  BY <1>1, <1>4 DEF Holding, Rests
<1> QED BY <1>1, <1>2, <1>5 DEF Rests, Alike

\* A task with a control can be loaded.
LEMMA ControlledLoads ==
  ASSUME IInv, Holding, NEW j \in Jobs, control[j] # None
  PROVE  Loadable(j) /\ row[j] # None
BY DEF IInv, Untouched, Kept, Holding, Undeleted, RowsThere, Loadable

\* The steps of a command.
LEMMA ServeHolds ==
  ASSUME IInv, Holding, Undeleted', OneCaller, NEW c \in Callers, Serve(c)
  PROVE  Holding'
<1> USE DEF Holding
<1>1. /\ call[c].pc # "none" /\ deleted = {}
      /\ \A d \in Callers : d = c
  BY DEF OneCaller, Undeleted, Serve, SubmitSync, SubmitPrepare, Enqueue, Send, ReturnResumed, PauseSync,
     ResumeCheck, ResumeLock, Unhold, Reserve, Requeue, RequeueSync, RefreshSync, RelinkRow,
     DeleteMove, DeleteRow
<1>2. up
  BY <1>1 DEF IInv, DownIsIdle
<1>3. PICK j \in Jobs : call[c].job = j
  BY <1>1, CallFinds
<1>4. /\ Rests(j) /\ call[c].pc # "submit_sync" => row[j] # None
      /\ control[j] # None => row[j] # None
  BY <1>1, <1>3 DEF RowsThere
<1>5. ASSUME StatusesStay
      PROVE  (\A k \in Jobs : Alike(k)) /\ (row'[j] = None <=> row[j] = None)
  BY <1>5 DEF StatusesStay, Alike
<1>6. ASSUME NEW s, Marks(j, s) \/ Shows(j, s)
      PROVE  (\A k \in Jobs \ {j} : Alike(k)) /\ (row[j] # None => row'[j] # None)
  BY <1>6 DEF Marks, Shows, Alike
<1>7. ASSUME CallOver(c)
      PROVE  call'[c].job = None /\ call'[c].pc = "none"
  BY <1>7 DEF CallOver
<1>8. ASSUME NEW p, CallTo(c, p)
      PROVE  call'[c].job = j /\ call'[c].pc = p
  BY <1>3, <1>8 DEF CallTo
<1>9. up' = up
  BY DEF Serve, SubmitSync, SubmitPrepare, Enqueue, Send, ReturnResumed, PauseSync, ResumeCheck,
     ResumeLock, Unhold, Reserve, Requeue, RequeueSync, RefreshSync, RelinkRow, DeleteMove, DeleteRow
<1>10. CASE SubmitSync(c)
  <2>1. /\ call[c].pc = "submit_sync" /\ CallTo(c, "submit_prepare") /\ Shows(j, "queued") /\ UNCHANGED control
    BY <1>3, <1>10, SubmitSyncStep
  <2>2. control[j] = None /\ row'[j] # None
    BY <1>3, <2>1 DEF IInv, SubmissionIsQuiet, Submitting, Quiet, Shows
  <2>3. Rests(j)'
    BY <2>1, <2>2 DEF Rests, Held
  <2> QED BY <1>2, <1>3, <1>6, <1>8, <1>9, <2>1, <2>2, <2>3, CallHolds
<1>11. CASE SubmitPrepare(c)
  <2>1. /\ call[c].pc = "submit_prepare" /\ CallTo(c, "enqueue") /\ StatusesStay /\ UNCHANGED control
    BY <1>11, SubmitPrepareStep
  <2>2. control[j] = None
    BY <1>3, <2>1 DEF IInv, SubmissionIsQuiet, Submitting, Quiet
  <2>3. Rests(j)'
    BY <2>1, <2>2 DEF Rests, Held
  <2> QED BY <1>2, <1>3, <1>4, <1>5, <1>8, <1>9, <2>1, <2>2, <2>3, CallHolds
<1>12. CASE Enqueue(c)
  <2>1. /\ call[c].pc = "enqueue" /\ CallTo(c, "send") /\ StatusesStay
        /\ control' = [control EXCEPT ![j] = IF @ = None THEN NewControl ELSE @]
    BY <1>3, <1>12, EnqueueStep
  <2>2. control[j] = None \/ ~ Held(j)
    <3>1. call[c].kept \in Manifests \cup Snapshots
      BY <2>1, CallAtKnows
    <3>2. CASE call[c].kept \in Snapshots
      BY <1>3, <2>1, <3>2 DEF IInv, SubmissionIsQuiet, Submitting, Quiet
    <3>3. CASE call[c].kept \in Manifests
      BY <1>3, <1>4, <2>1, <3>3 DEF Rests, Dispatching
    <3> QED BY <3>1, <3>2, <3>3
  <2>3. /\ \A k \in Jobs \ {j} : control'[k] = control[k]
        /\ control'[j] = IF control[j] = None THEN NewControl ELSE control[j]
    BY <2>1 DEF IInv, TypeOK
  <2>4. ~ Held(j)'
    BY <2>2, <2>3 DEF Held, NewControl
  <2>5. Rests(j)'
    BY <2>4 DEF Rests
  <2> QED BY <1>2, <1>3, <1>4, <1>5, <1>8, <1>9, <2>1, <2>3, <2>5, CallHolds
<1>13. CASE Send(c)
  <2>1. /\ call[c].pc = "send" /\ Silent /\ (CallTo(c, "sent") \/ CallOver(c)) /\ UNCHANGED control
    BY <1>13, SendStep
  <2>2. ~ Held(j)'
    BY <1>3, <1>4, <2>1 DEF Rests, Dispatching, Held
  <2>3. Rests(j)'
    BY <2>2 DEF Rests
  <2> QED BY <1>2, <1>3, <1>4, <1>5, <1>7, <1>8, <1>9, <2>1, <2>3, SilentStays, CallHolds
<1>14. CASE ReturnResumed(c) \/ ResumeCheck(c) \/ RelinkRow(c)
  <2>1. /\ call[c].pc \in {"sent", "resume_check", "relink_row"} /\ StatusesStay /\ UNCHANGED control
        /\ CallOver(c) \/ CallTo(c, "resume_lock")
    BY <1>1, <1>14, SilentStays, ReturnResumedStep, ResumeCheckStep, RelinkRowStep
  <2>2. Rests(j)'
    BY <1>5, <1>7, <1>8, <2>1, RestStays
  <2> QED BY <1>2, <1>3, <1>4, <1>5, <1>7, <1>8, <1>9, <2>1, <2>2, CallHolds
<1>15. CASE Reserve(c)
  <2>1. call[c].pc = "reserve" /\ Silent
    BY <1>15, ReserveStep
  <2>2. CASE CallOver(c) /\ UNCHANGED control
    <3>1. Rests(j)'
      BY <1>5, <1>7, <2>1, <2>2, SilentStays, RestStays
    <3> QED BY <1>2, <1>3, <1>4, <1>5, <1>7, <1>9, <2>1, <2>2, <3>1, SilentStays, CallHolds
  <2>3. CASE CallTo(c, "requeue") /\ control' = [control EXCEPT ![j] = NewControl]
    <3>1. ~ Held(j)' /\ \A k \in Jobs \ {j} : control'[k] = control[k]
      BY <2>3 DEF Held, NewControl, IInv, TypeOK
    <3>2. Rests(j)'
      BY <3>1 DEF Rests
    <3> QED BY <1>2, <1>3, <1>4, <1>5, <1>8, <1>9, <2>1, <2>3, <3>1, <3>2, SilentStays, CallHolds
  <2> QED BY <1>3, <1>15, <2>2, <2>3, ReserveStep
<1>16. CASE ResumeLock(c)
  <2>1. call[c].pc = "resume_lock" /\ UNCHANGED <<control, row>>
    BY <1>1, <1>16, ResumeLockStep
  <2>2. CASE Silent /\ (CallOver(c) \/ (call'[c].pc = "reserve" /\ call'[c].job = j))
    <3>1. Rests(j)'
      BY <1>5, <1>7, <2>1, <2>2, SilentStays, RestStays
    <3> QED BY <1>2, <1>3, <1>4, <1>5, <1>7, <1>9, <2>1, <2>2, <3>1, SilentStays, CallHolds
  <2>3. CASE Marks(j, "queued") /\ CallTo(c, "unhold")
    <3>1. ~ Dispatching(c)'
      BY <1>8, <2>3 DEF Dispatching
    <3>2. Rests(j)'
      BY <1>1, <1>8, <2>3, <3>1 DEF Rests
    <3> QED BY <1>2, <1>3, <1>4, <1>6, <1>8, <1>9, <2>1, <2>3, <3>2, CallHolds
  <2> QED BY <1>1, <1>3, <1>16, <2>2, <2>3, ResumeLockStep
<1>17. CASE Unhold(c)
  <2>1. /\ call[c].pc = "unhold" /\ CallOver(c) /\ Shows(j, dir[j].manifest.status)
        /\ control' = [control EXCEPT ![j].paused = FALSE]
    BY <1>1, <1>3, <1>17, UnholdStep
  <2>2. control[j] # None
    BY <1>3, <2>1 DEF IInv, CallShape
  <2>3. control[j] \in Controls
    BY <2>2 DEF IInv, TypeOK
  <2>4. ~ control'[j].paused /\ \A k \in Jobs \ {j} : control'[k] = control[k]
    BY <2>1, <2>3 DEF IInv, TypeOK, Controls
  <2>5. Rests(j)'
    BY <2>4 DEF Rests, Held
  <2> QED BY <1>2, <1>3, <1>4, <1>6, <1>7, <1>9, <2>1, <2>2, <2>4, <2>5, CallHolds
<1>18. CASE PauseSync(c)
  <2>1. /\ call[c].pc = "pause_sync" /\ CallOver(c) /\ Shows(j, dir[j].manifest.status) /\ UNCHANGED control
    BY <1>1, <1>3, <1>18, PauseSyncStep
  <2>2. ASSUME Held(j)'
        PROVE  dir'[j].manifest.status = "failed" /\ row'[j].status = "failed"
    <3>1. Held(j)
      BY <2>1, <2>2 DEF Held
    <3>2. dir[j].manifest.status = "failed"
      BY <1>1, <1>4, <2>1, <3>1 DEF Rests
    <3> QED BY <2>1, <3>2 DEF Shows
  <2>3. ~ Dispatching(c)'
    BY <1>7, <2>1 DEF Dispatching
  <2>4. Rests(j)'
    BY <1>1, <1>7, <2>1, <2>2, <2>3 DEF Rests
  <2> QED BY <1>2, <1>3, <1>4, <1>6, <1>7, <1>9, <2>1, <2>4, CallHolds
<1>19. CASE Requeue(c) \/ RequeueSync(c)
  <2>1. /\ Dispatching(c) /\ \E p \in {"requeue_sync", "enqueue"} : CallTo(c, p)
        /\ \E s : Marks(j, s) \/ Shows(j, s)
        /\ UNCHANGED control /\ call[c].pc # "submit_sync"
    BY <1>1, <1>3, <1>19, RequeueStep, RequeueSyncStep DEF Dispatching
  <2>2. ~ Held(j)'
    BY <1>3, <1>4, <2>1 DEF Rests, Held
  <2>3. Rests(j)'
    BY <2>2 DEF Rests
  <2> QED BY <1>2, <1>3, <1>4, <1>6, <1>8, <1>9, <2>1, <2>3, CallHolds
<1>20. CASE RefreshSync(c)
  <2>1. /\ call[c].pc = "refresh_sync" /\ CallOver(c) /\ Shows(j, call[c].kept.manifest.status) /\ UNCHANGED control
    BY <1>3, <1>20, RefreshSyncStep
  <2>2. ASSUME Held(j)'
        PROVE  dir'[j].manifest.status = "failed" /\ row'[j].status = "failed"
    <3>1. Held(j)
      BY <2>1, <2>2 DEF Held
    <3>2. dir[j].manifest.status = "failed" /\ call[c].kept.manifest.status = "failed"
      BY <1>1, <1>3, <1>4, <2>1, <3>1 DEF Rests
    <3> QED BY <2>1, <3>2 DEF Shows
  <2>3. ~ Dispatching(c)'
    BY <1>7, <2>1 DEF Dispatching
  <2>4. Rests(j)'
    BY <1>1, <1>7, <2>1, <2>2, <2>3 DEF Rests
  <2> QED BY <1>2, <1>3, <1>4, <1>6, <1>7, <1>9, <2>1, <2>4, CallHolds
<1>21. CASE DeleteMove(c) \/ DeleteRow(c)
  BY <1>21 DEF Undeleted, DeleteMove, DeleteRow
<1> QED BY <1>10, <1>11, <1>12, <1>13, <1>14, <1>15, <1>16, <1>17, <1>18, <1>19, <1>20, <1>21 DEF Serve

\* The steps that issue a command.
LEMMA IssueHolds ==
  ASSUME IInv, Holding, Undeleted', OneCaller, NEW c \in Callers, NEW j \in Jobs, Issue(c, j)
  PROVE  Holding'
<1> USE DEF Holding
<1>1. /\ up /\ up' = up /\ call[c].pc = "none" /\ call[c].job = None /\ deleted = {}
      /\ \A d \in Callers : d = c
  <2>1. up /\ call[c] = NoCall
    BY DEF Issue, SubmitCreate, RetryCreate, Pause, ResumeConfigure, RefreshLoad, RelinkManifest,
       DeleteCheck, Issues
  <2>2. up' = up
    BY CreateStep, PauseStep, BeginsStep DEF Issue
  <2> QED BY <2>1, <2>2 DEF NoCall, Undeleted, OneCaller
<1>2. ASSUME NEW p, CallBegins(c, p, j)
      PROVE  call'[c].job = j /\ call'[c].pc = p
  BY <1>2 DEF CallBegins
<1>3. ASSUME StatusesStay
      PROVE  (\A k \in Jobs : Alike(k)) /\ (row'[j] = None <=> row[j] = None)
  BY <1>3 DEF StatusesStay, Alike
<1>4. ASSUME NEW s, Marks(j, s)
      PROVE  (\A k \in Jobs \ {j} : Alike(k)) /\ (row[j] # None => row'[j] # None)
  BY <1>4 DEF Marks, Alike
<1>5. CASE SubmitCreate(c, j) \/ RetryCreate(c, j)
  <2>1. /\ j \notin submitted /\ CallBegins(c, "submit_sync", j) /\ Marks(j, "queued") /\ UNCHANGED control
    BY <1>5, CreateStep
  <2>2. control[j] = None
    BY <2>1 DEF IInv, Untouched
  <2>3. Rests(j)'
    BY <2>1, <2>2 DEF Rests, Held
  <2> QED BY <1>1, <1>2, <1>4, <2>1, <2>2, <2>3, CallHolds
<1>6. CASE Pause(c, j)
  <2>1. control[j] # None /\ row' = row /\ control' = [control EXCEPT ![j].paused = TRUE]
    BY <1>6, PauseStep
  <2>2. Loadable(j) /\ row[j] # None
    BY <2>1, ControlledLoads
  <2>3. control[j] \in Controls
    BY <2>1 DEF IInv, TypeOK
  <2>4. /\ control'[j] # None /\ control'[j].started = control[j].started
        /\ \A k \in Jobs \ {j} : control'[k] = control[k]
    <3> DEFINE new == [control[j] EXCEPT !.paused = TRUE]
    <3>1. new \in Controls /\ new.started = control[j].started
      BY <2>3 DEF Controls
    <3>2. new # None
      BY <3>1, NoneAssumption
    <3>3. control' = [control EXCEPT ![j] = new]
      BY <2>1 DEF IInv, TypeOK
    <3> HIDE DEF new
    <3> QED BY <3>1, <3>2, <3>3 DEF IInv, TypeOK
  <2>5. CASE control[j].started /\ Silent /\ CallBegins(c, "await_stop", j)
    <3>1. ~ Held(j)'
      BY <2>4, <2>5 DEF Held
    <3>2. Rests(j)'
      BY <3>1 DEF Rests
    <3> QED BY <1>1, <1>2, <1>3, <2>2, <2>4, <2>5, <3>2, SilentStays, CallHolds
  <2>6. CASE Marks(j, "failed") /\ CallBegins(c, "pause_sync", j)
    <3>1. ~ Dispatching(c)'
      BY <1>2, <2>6 DEF Dispatching
    <3>2. dir'[j].manifest.status = "failed"
      BY <2>6 DEF Marks
    <3>3. Rests(j)'
      BY <1>1, <1>2, <2>6, <3>1, <3>2 DEF Rests
    <3> QED BY <1>1, <1>2, <1>4, <2>2, <2>4, <2>6, <3>3, CallHolds
  <2> QED BY <1>6, <2>2, <2>5, <2>6, PauseStep
<1>7. CASE ResumeConfigure(c, j) \/ RelinkManifest(c, j)
  <2>1. /\ StatusesStay /\ UNCHANGED control /\ row[j] # None
        /\ CallBegins(c, "resume_check", j) \/ CallBegins(c, "relink_row", j)
    <3>1. row[j] # None
      BY <1>7 DEF ResumeConfigure, RelinkManifest
    <3>2. CASE ResumeConfigure(c, j)
      <4>1. call'[c].pc = "resume_check"
        BY <3>2 DEF ResumeConfigure, IInv, TypeOK
      <4> QED BY <3>1, <3>2, <4>1, BeginsStep DEF CallBegins
    <3>3. CASE RelinkManifest(c, j)
      <4>1. call'[c].pc = "relink_row"
        BY <3>3 DEF RelinkManifest, IInv, TypeOK
      <4> QED BY <3>1, <3>3, <4>1, BeginsStep DEF CallBegins
    <3> QED BY <1>7, <3>2, <3>3
  <2>2. Rests(j)'
    BY <1>1, <1>2, <1>3, <2>1, RestStays
  <2> QED BY <1>1, <1>2, <1>3, <2>1, <2>2, CallHolds
<1>8. CASE RefreshLoad(c, j)
  <2>1. /\ StatusesStay /\ UNCHANGED control /\ row[j] # None
        /\ CallBegins(c, "refresh_sync", j) /\ call'[c].kept = Snapshot(j)
    <3>1. row[j] # None
      BY <1>8 DEF RefreshLoad
    <3>2. call'[c].pc = "refresh_sync" /\ call'[c].kept = Snapshot(j)
      BY <1>8 DEF RefreshLoad, IInv, TypeOK
    <3> QED BY <1>8, <3>1, <3>2, BeginsStep DEF CallBegins
  <2>2. ~ Dispatching(c)'
    BY <1>2, <2>1 DEF Dispatching
  <2>3. ASSUME Held(j)'
        PROVE  Rests(j)'
    <3>1. Held(j)
      BY <2>1, <2>3 DEF Held
    <3>2. dir[j].manifest.status = "failed" /\ row[j].status = "failed"
      BY <1>1, <3>1 DEF Rests
    <3>3. dir'[j].manifest.status = "failed" /\ row'[j].status = "failed" /\ call'[c].kept.manifest.status = "failed"
      BY <1>3, <2>1, <3>2 DEF Alike, Snapshot
    <3> QED BY <1>1, <2>2, <3>3 DEF Rests
  <2>4. Rests(j)'
    BY <2>3 DEF Rests
  <2> QED BY <1>1, <1>2, <1>3, <2>1, <2>4, CallHolds
<1>9. CASE DeleteCheck(c, j)
  <2>1. call'[c].pc = "delete_move"
    BY <1>9 DEF DeleteCheck, IInv, TypeOK
  <2> QED BY <2>1 DEF Undeleted
<1> QED BY <1>5, <1>6, <1>7, <1>8, <1>9 DEF Issue

\* The application ends, recovers and starts with no control left.
LEMMA DownHolds ==
  ASSUME IInv, Holding, Undeleted', Crash \/ Ready \/ \E j \in Jobs : Recover(j)
  PROVE  Holding'
<1> USE DEF Holding
<1>1. (\A j \in Jobs : control'[j] = None) /\ \A c \in Callers : call'[c].pc = "none"
  <2>1. CASE Crash
    BY <2>1 DEF Crash, NoCall
  <2>2. CASE Ready \/ \E j \in Jobs : Recover(j)
    BY <2>2 DEF Ready, Recover, DownForgets, IInv, DownIsIdle
  <2> QED BY <2>1, <2>2
<1> QED BY <1>1 DEF RowsThere, DownForgets, Rests, Held

\* Held tasks rest, step by step.
LEMMA NextHolds ==
  ASSUME IInv, Holding, [Next]_vars, OneCaller, "delete" \notin Commands
  PROVE  Holding'
<1>1. Undeleted'
  BY NextUndeleted DEF Holding
<1>2. CASE UNCHANGED vars
  BY <1>2 DEF vars, Holding, Undeleted, RowsThere, DownForgets, Rests, Held, Dispatching
<1> QED BY <1>1, <1>2, ExecuteHolds, ServeHolds, IssueHolds, DownHolds DEF Next

\* A task paused before it started is listed as stopped once the pause has
\* returned, the only state in which a resume takes it, whatever refreshes,
\* relinks, retries and crashes come in between.  The commands come one after
\* the other: a pause in the middle of a resume can leave a held task queued.
THEOREM HeldResumable ==
  ASSUME \A c, d \in Callers : c = d, "delete" \notin Commands
  PROVE  Spec => []HeldIsResumable
<1>1. Init => Holding
  BY DEF Init, Holding, Undeleted, RowsThere, DownForgets, Rests, Held, NoCall
<1>2. IInv /\ Holding /\ [Next]_vars => Holding'
  BY NextHolds DEF OneCaller
<1>3. Holding => HeldIsResumable
  BY DEF Holding, Rests, Held, HeldIsResumable, Busy
<1> QED BY <1>1, <1>2, <1>3, Invariance, PTL DEF Spec

-----------------------------------------------------------------------------
(* An automatic task is done when it is translated *)

\* The points of a task that waits for its run to begin.
Awaiting == Before \cup {"starting"}

\* Without resumes a command is at one of these points.
FirstPoints ==
  {"none", "submit_sync", "submit_prepare", "enqueue", "send", "sent", "pause_sync",
   "await_stop", "relink_row"}

\* The status file says that the task is done.
FileDone(j) == Loadable(j) /\ dir[j].manifest.status = "done"

\* The workspace of an automatic task stays configured until its run notes it
\* and works by it; its status file says done when its row is translated or its
\* recognition has just ended, and its row says done when it is translated or
\* its run is going to publish another status.
Truthful(j) ==
  /\ \A c \in Callers : call[c].job = j /\ call[c].pc \in {"enqueue", "send"} => j \in automatic
  /\ \A r \in Runs : run[r].job = j /\ run[r].pc \in Awaiting => j \in automatic
  /\ \A r \in Runs : run[r].job = j /\ run[r].pc \in Working => run[r].auto
  /\ \A r \in Runs : run[r].job = j /\ run[r].pc = "translated" => row[j] # None /\ row[j].translated
  /\ FileDone(j) =>
       \/ row[j] # None /\ row[j].translated
       \/ \E r \in Runs : run[r].job = j /\ run[r].pc = "recognized"
  /\ row[j] # None /\ row[j].status = "done" =>
       \/ row[j].translated
       \/ \E r \in Runs : run[r].job = j /\ run[r].pc \in Owing

Speaking ==
  /\ Settling /\ \A j \in Automatic : Truthful(j)
  /\ \A c \in Callers : call[c].pc \in FirstPoints

\* A step that leaves a task, its run and its commands alone keeps it truthful.
LEMMA OthersSpeak ==
  ASSUME NEW k \in Automatic, Truthful(k), Alike(k),
         \A s \in Runs : run[s].job = k \/ run'[s].job = k =>
           run'[s].pc = run[s].pc /\ run'[s].job = run[s].job /\ run'[s].auto = run[s].auto,
         \A d \in Callers : call[d].job = k \/ call'[d].job = k =>
           \/ call'[d].pc = call[d].pc /\ call'[d].job = call[d].job
           \/ call'[d].pc \notin {"enqueue", "send"},
         k \in automatic => k \in automatic'
  PROVE  Truthful(k)'
BY DEF Truthful, Alike, FileDone, Loadable

\* The task of a run is not being dispatched.
LEMMA RunIsNotDispatched ==
  ASSUME IInv, deleted = {}, NEW r \in Runs, run[r].pc # "none"
  PROVE  /\ \A s \in Runs \ {r} : run[s].job # run[r].job
         /\ \A c \in Callers : call[c].job = run[r].job => call[c].pc \notin {"enqueue", "send"}
<1>1. PICK j \in Jobs : run[r].job = j
  BY RunAt
<1>2. \A s \in Runs \ {r} : run[s].job # j
  BY <1>1 DEF IInv, OneDispatch
<1>3. ASSUME NEW c \in Callers, call[c].job = j, call[c].pc \in {"enqueue", "send"}
      PROVE  FALSE
  <2>1. call[c].kept \in Manifests \cup Snapshots
    BY <1>3, CallAtKnows
  <2>2. CASE Submitting(c)
    BY <1>1, <1>3, <2>2 DEF IInv, SubmissionIsQuiet, Quiet, Controlled
  <2>3. CASE Dispatching(c)
    BY <1>1, <1>3, <2>3 DEF IInv, OneDispatch
  <2> QED BY <1>3, <2>1, <2>2, <2>3 DEF Submitting, Dispatching
<1> QED BY <1>1, <1>2, <1>3

\* A run goes to point p: what it must say of its own task.
LEMMA RunSpeaks ==
  ASSUME IInv, Speaking, Settling', NEW r \in Runs, NEW j \in Jobs, NEW p,
         run[r].pc # "none", run[r].job = j, RunTo(r, p), UNCHANGED call,
         \A k \in Jobs \ {j} : Alike(k),
         automatic' = automatic \/ (automatic' = automatic \ {j} /\ p = "closing"),
         p \in Awaiting => run[r].pc \in Awaiting,
         j \in Automatic =>
           /\ p \in Working => run[r].auto
           /\ p = "translated" => row'[j] # None /\ row'[j].translated
           /\ FileDone(j)' => p = "recognized" \/ (row'[j] # None /\ row'[j].translated)
           /\ row'[j] # None /\ row'[j].status = "done" => p \in Owing \/ row'[j].translated
  PROVE  Speaking'
<1> USE DEF Speaking
<1>1. deleted = {}
  BY DEF Settling, Plain, Undeleted
<1>2. /\ \A s \in Runs \ {r} : run[s].job # j
      /\ \A c \in Callers : call[c].job = j => call[c].pc \notin {"enqueue", "send"}
  BY <1>1, RunIsNotDispatched
<1>3. /\ \A s \in Runs \ {r} : run'[s] = run[s]
      /\ run'[r].pc = p /\ run'[r].job = j /\ run'[r].auto = run[r].auto
  BY DEF RunTo
<1>4. ASSUME NEW k \in Automatic, k # j
      PROVE  Truthful(k)'
  <2>1. k \in Jobs \ {j}
    BY <1>4, BoundsAssumption
  <2>2. \A s \in Runs : run[s].job = k \/ run'[s].job = k => run'[s] = run[s]
    BY <1>3, <2>1
  <2> QED BY <2>1, <2>2, OthersSpeak
<1>5. ASSUME j \in Automatic
      PROVE  Truthful(j)'
  <2>1. \A s \in Runs : run'[s].job = j => s = r
    BY <1>2, <1>3
  <2>2. p # "closing" \/ p \notin Awaiting
    BY DEF Awaiting, Before
  <2>3. p \in Awaiting => j \in automatic'
    BY <1>5, <2>2 DEF Truthful
  <2> QED BY <1>2, <1>3, <1>5, <2>1, <2>3 DEF Truthful
<1> QED BY <1>4, <1>5

\* The steps of a run.
LEMMA ExecuteSpeaks ==
  ASSUME IInv, Speaking, Settling', NEW r \in Runs,
         \/ Execute(r) \/ Acquire(r) \/ Withdraw(r) \/ StopOnPause(r) \/ NextStage(r)
         \/ RecognitionFails(r) \/ WorkFails(r) \/ Poll(r)
  PROVE  Speaking'
<1> USE DEF Speaking
<1>1. run[r].pc # "none" /\ deleted = {}
  BY ExecuteOn DEF Settling, Plain, Undeleted
<1>2. PICK j \in Jobs : run[r].job = j
  BY ExecuteOn
<1>3. \A s \in Runs \ {r} : run[s].job # j
  BY <1>1, <1>2, RunIsNotDispatched
<1>4. ASSUME Silent
      PROVE  \A k \in Jobs : Alike(k)
  BY <1>4, SilentStays DEF StatusesStay
<1>5. ASSUME NEW s, Marks(j, s) \/ Shows(j, s)
      PROVE  \A k \in Jobs \ {j} : Alike(k)
  BY <1>5 DEF Marks, Shows, Alike, FileDone, Loadable
\* What its task says before the step, for any other point than "recognized".
<1>6. ASSUME j \in Automatic
      PROVE  /\ Truthful(j)
             /\ run[r].pc \in Working => run[r].auto
             /\ run[r].pc = "translated" => row[j] # None /\ row[j].translated
             /\ FileDone(j) =>
                  run[r].pc = "recognized" \/ (row[j] # None /\ row[j].translated)
             /\ row[j] # None /\ row[j].status = "done" => run[r].pc \in Owing \/ row[j].translated
  BY <1>2, <1>3, <1>6 DEF Truthful
\* A step that writes nothing, into a point where the run still owes its end.
<1>7. ASSUME NEW p, RunTo(r, p), Silent, UNCHANGED <<automatic, call>>,
             p \in Awaiting => run[r].pc \in Awaiting,
             p \in Working /\ j \in Automatic => run[r].auto,
             p # "translated", run[r].pc # "recognized" \/ p = "recognized",
             run[r].pc \in Owing => p \in Owing
      PROVE  Speaking'
  BY <1>1, <1>2, <1>4, <1>6, <1>7, RunSpeaks DEF Silent, FileDone, Loadable
\* A step that writes a status other than done.
<1>8. ASSUME NEW p, NEW s, RunTo(r, p), Marks(j, s), UNCHANGED <<automatic, call>>,
             s # "done" \/ p = "recognized",
             p \notin Awaiting, p \in Working => run[r].pc \in Working,
             p # "translated", p \in Owing
      PROVE  Speaking'
  BY <1>1, <1>2, <1>5, <1>6, <1>8, RunSpeaks DEF Marks, FileDone, Loadable
<1> USE DEF Awaiting, Before, Working, Owing, Executing, Interruptible
<1>9. CASE Lookup(r) \/ Admit(r) \/ Wake(r) \/ Acquire(r) \/ Withdraw(r) \/ Start(r)
  <2>1. PICK p \in Awaiting : RunTo(r, p)
    BY <1>1, <1>9, AdmissionStep
  <2>2. run[r].pc \in Before /\ Silent /\ UNCHANGED <<automatic, call>>
    BY <1>1, <1>9, AdmissionStep
  <2> QED BY <1>7, <2>1, <2>2
<1>10. CASE Begin(r)
  <2>1. /\ Silent /\ UNCHANGED <<automatic, call>> /\ run[r].pc = "starting"
        /\ run'[r].pc = "entering" /\ run'[r].job = j /\ run'[r].auto = (j \in automatic)
        /\ \A s \in Runs \ {r} : run'[s] = run[s]
    BY <1>2, <1>10, BeginStep
  <2>2. ASSUME NEW k \in Automatic
        PROVE  Truthful(k)'
    <3>1. CASE k # j
      <4>1. k \in Jobs \ {j}
        BY <3>1, BoundsAssumption
      <4> QED BY <1>2, <1>4, <2>1, <4>1, OthersSpeak
    <3>2. CASE k = j
      <4>1. j \in automatic /\ run'[r].auto
        BY <1>2, <1>6, <2>1, <3>2 DEF Truthful
      <4>2. \A s \in Runs : run'[s].job = j => s = r
        BY <1>3, <2>1
      <4> QED BY <1>2, <1>6, <2>1, <3>2, <4>1, <4>2 DEF Truthful, Silent, FileDone, Loadable
    <3> QED BY <3>1, <3>2
  <2> QED BY <2>1, <2>2
<1>11. CASE StopOnPause(r) \/ WorkFails(r) \/ Enter(r)
  <2>1. PICK p \in {"failing", "translate", "recognize"} : RunTo(r, p)
    BY <1>11, BreakStep
  <2>2. Silent /\ UNCHANGED <<automatic, call>> /\ run[r].pc \in Interruptible \cup {"recognize"}
    BY <1>11, BreakStep
  <2> QED BY <1>6, <1>7, <2>1, <2>2
<1>12. CASE Recognize(r) \/ NextStage(r) \/ RecognitionFails(r)
  <2>1. run[r].pc \in Working /\ UNCHANGED <<automatic, call>>
    BY <1>12, StageStep
  <2>2. \/ RunTo(r, "recognizing") /\ Marks(j, "active")
        \/ RunTo(r, "unrecognized") /\ Marks(j, "failed")
    BY <1>2, <1>12, StageStep
  <2> QED BY <1>8, <2>1, <2>2
<1>13. CASE Recognized(r)
  <2>1. run[r].pc \in Working /\ RunTo(r, "recognized") /\ Marks(j, "done") /\ UNCHANGED <<automatic, call>>
    BY <1>2, <1>13, RecognizedStep
  <2> QED BY <1>8, <2>1
<1>14. CASE MarkTranslating(r)
  <2>1. /\ run[r].pc = "recognized" /\ RunTo(r, "prefix") /\ UNCHANGED <<automatic, call>>
        /\ IF run[r].auto THEN Marks(j, "translating") ELSE Silent
    BY <1>1, <1>2, <1>14, MarkTranslatingStep
  <2>2. CASE run[r].auto
    BY <1>8, <2>1, <2>2
  <2>3. CASE ~ run[r].auto
    <3>1. j \notin Automatic
      BY <1>6, <2>1, <2>3
    <3> QED BY <1>1, <1>2, <1>4, <2>1, <2>3, <3>1, RunSpeaks
  <2> QED BY <2>2, <2>3
<1>15. CASE JoinPrefix(r)
  <2>1. PICK p \in {"failing", "publishing"} : RunTo(r, p)
    BY <1>15, JoinPrefixStep
  <2>2. Silent /\ UNCHANGED <<automatic, call>> /\ run[r].pc \in {"prefix", "unrecognized"}
    BY <1>15, JoinPrefixStep
  <2> QED BY <1>6, <1>7, <2>1, <2>2
<1>16. CASE PublishCues(r)
  <2>1. /\ run[r].pc = "publishing" /\ UNCHANGED <<automatic, call>>
        /\ RunTo(r, "marking") /\ Shows(j, run[r].kept.manifest.status)
    BY <1>2, <1>16, PublishCuesStep
  <2> QED BY <1>1, <1>2, <1>5, <1>6, <2>1, RunSpeaks DEF Shows, FileDone, Loadable
<1>17. CASE MarkPublished(r)
  <2>1. /\ run[r].pc = "marking" /\ UNCHANGED <<automatic, call, row>> /\ RunTo(r, "translate")
        /\ dir'[j].manifest = dir[j].manifest /\ \A k \in Jobs \ {j} : dir'[k] = dir[k]
    BY <1>2, <1>17, MarkPublishedStep
  <2> QED BY <1>1, <1>2, <1>6, <2>1, RunSpeaks DEF Alike, FileDone, Loadable
<1>18. CASE Translate(r)
  <2>1. run[r].pc = "translate" /\ UNCHANGED <<automatic, call>>
    BY <1>1, <1>18, TranslateStep
  <2>2. CASE RunTo(r, "translating") /\ Marks(j, "translating")
    BY <1>8, <2>1, <2>2
  <2>3. CASE ~ run[r].auto /\ RunTo(r, "ending") /\ Silent
    BY <1>7, <2>1, <2>3
  <2> QED BY <1>1, <1>2, <1>18, <2>2, <2>3, TranslateStep
<1>19. CASE TranslatePending(r)
  <2>1. /\ run[r].pc = "translating" /\ UNCHANGED <<automatic, call, dir>> /\ RunTo(r, "translated")
        /\ row'[j] # None /\ row'[j].translated /\ \A k \in Jobs \ {j} : row'[k] = row[k]
    BY <1>2, <1>19, TranslatePendingStep
  <2> QED BY <1>1, <1>2, <1>6, <2>1, RunSpeaks DEF Alike, FileDone, Loadable
<1>20. CASE MarkDone(r) \/ FailManifest(r)
  <2>1. UNCHANGED <<automatic, call>> /\ RunTo(r, "ending")
    BY <1>1, <1>20, OutcomeStep
  <2>2. CASE run[r].pc = "translated" /\ Marks(j, "done")
    BY <1>1, <1>2, <1>5, <1>6, <2>1, <2>2, RunSpeaks DEF Marks, FileDone, Loadable
  <2>3. CASE Marks(j, "failed")
    BY <1>8, <2>1, <2>3
  <2> QED BY <1>1, <1>2, <1>20, <2>2, <2>3, OutcomeStep
<1>21. CASE LoadFinal(r)
  <2>1. run[r].pc = "ending" /\ RunTo(r, "reporting") /\ Silent /\ UNCHANGED <<automatic, call>>
    BY <1>1, <1>21, LoadFinalStep
  <2> QED BY <1>7, <2>1
<1>22. CASE SyncFinal(r)
  <2>1. /\ run[r].pc = "reporting" /\ UNCHANGED <<automatic, call>> /\ RunTo(r, "leaving")
        /\ Shows(j, run[r].kept.manifest.status)
    BY <1>2, <1>22, SyncFinalStep
  <2>2. Loadable(j) /\ run[r].kept.manifest.status = dir[j].manifest.status
    BY <1>1, <1>2, <2>1, RunFinds DEF Settling, ReportsStatus
  <2> QED BY <1>1, <1>2, <1>5, <1>6, <2>1, <2>2, RunSpeaks DEF Shows, FileDone, Loadable
<1>23. CASE ForgetAutomatic(r)
  <2>1. /\ run[r].pc = "leaving" /\ RunTo(r, "closing") /\ Silent /\ UNCHANGED call
        /\ automatic' = automatic \ {j}
    BY <1>2, <1>23, ForgetAutomaticStep
  <2> QED BY <1>1, <1>2, <1>4, <1>6, <2>1, RunSpeaks DEF Silent, FileDone, Loadable
<1>24. CASE Close(r)
  <2>1. /\ run[r].pc = "closing" /\ Silent /\ UNCHANGED automatic /\ call' = Released(j)
        /\ run'[r].pc = "none" /\ run'[r].job = None /\ \A s \in Runs \ {r} : run'[s] = run[s]
    BY <1>2, <1>24, CloseStep
  <2>2. \A c \in Callers : call'[c] = call[c] \/ (call[c].pc = "await_stop" /\ call'[c].pc = "none")
    BY <2>1 DEF Released, NoCall
  <2>3. ASSUME NEW k \in Automatic
        PROVE  Truthful(k)'
    <3>1. Alike(k) /\ k \in Jobs
      BY <1>4, <2>1, BoundsAssumption
    <3>2. CASE k # j
      <4>1. k # None
        BY <3>1, NoneAssumption
      <4>2. \A s \in Runs : run[s].job = k \/ run'[s].job = k => run'[s] = run[s]
        BY <1>2, <2>1, <3>2, <4>1
      <4> QED BY <2>1, <2>2, <3>1, <4>2, OthersSpeak
    <3>3. CASE k = j
      <4>1. \A s \in Runs : run'[s].job # j
        BY <1>3, <2>1, NoneAssumption
      <4>2. \A c \in Callers : call'[c].job = j => call'[c].pc \notin {"enqueue", "send"}
        BY <1>1, <1>2, <2>2, RunIsNotDispatched
      <4> QED BY <1>6, <2>1, <3>3, <4>1, <4>2 DEF Truthful, Silent, FileDone, Loadable
    <3> QED BY <3>2, <3>3
  <2> QED BY <2>2, <2>3 DEF FirstPoints
<1>25. CASE Poll(r)
  <2>1. CASE PollerLoads(r)
    <3>1. Silent /\ UNCHANGED <<automatic, call, run>>
      BY <1>1, <2>1, PollerLoadsStep
    <3>2. \A k \in Automatic : Alike(k)
      BY <1>4, <3>1, BoundsAssumption
    <3> QED BY <3>1, <3>2, OthersSpeak
  <2>2. CASE PollerSyncs(r)
    <3>1. /\ UNCHANGED <<automatic, call, run>> /\ run[r].pc \in Working
          /\ Shows(j, poller[r].seen.manifest.status)
      BY <1>2, <2>2, PollerSyncsStep
    <3>2. RunTo(r, run[r].pc)
      BY <3>1 DEF RunTo
    <3> QED BY <1>1, <1>2, <1>5, <1>6, <3>1, <3>2, RunSpeaks DEF Shows, FileDone, Loadable
  <2> QED BY <1>25, <2>1, <2>2 DEF Poll
<1> QED BY <1>9, <1>10, <1>11, <1>12, <1>13, <1>14, <1>15, <1>16, <1>17, <1>18, <1>19, <1>20,
          <1>21, <1>22, <1>23, <1>24, <1>25 DEF Execute

\* A command works for its task: what it must say of it.
LEMMA CallSpeaks ==
  ASSUME IInv, Speaking, Settling', NEW c \in Callers, NEW j \in Jobs,
         call[c].job \in {j, None}, call'[c].job \in {j, None}, call'[c].pc \in FirstPoints,
         \A d \in Callers \ {c} : call'[d] = call[d],
         \A k \in Jobs \ {j} : Alike(k),
         \A s \in Runs : run'[s].pc = run[s].pc /\ run'[s].job = run[s].job /\ run'[s].auto = run[s].auto,
         automatic \subseteq automatic',
         j \in Automatic =>
           /\ call'[c].pc \in {"enqueue", "send"} => j \in automatic'
           /\ row[j] # None /\ row[j].translated => row'[j] # None /\ row'[j].translated
           /\ FileDone(j)' => FileDone(j)
           /\ row'[j] # None /\ row'[j].status = "done" =>
                \/ row[j] # None /\ row[j].status = "done"
                \/ FileDone(j)
  PROVE  Speaking'
<1> USE DEF Speaking
<1>1. ASSUME NEW k \in Automatic, k # j
      PROVE  Truthful(k)'
  <2>1. k \in Jobs \ {j} /\ k # None
    BY <1>1, BoundsAssumption, NoneAssumption
  <2>2. \A d \in Callers : call[d].job = k \/ call'[d].job = k => call'[d] = call[d]
    BY <2>1
  <2> QED BY <2>1, <2>2, OthersSpeak
<1>2. ASSUME j \in Automatic
      PROVE  Truthful(j)'
  <2>1. Truthful(j)
    BY <1>2
  <2>2. \A d \in Callers : call'[d].job = j /\ call'[d].pc \in {"enqueue", "send"} => j \in automatic'
    BY <1>2, <2>1 DEF Truthful
  <2>3. FileDone(j)' =>
          \/ row'[j] # None /\ row'[j].translated
          \/ \E r \in Runs : run'[r].job = j /\ run'[r].pc = "recognized"
    BY <1>2, <2>1 DEF Truthful
  <2>4. row'[j] # None /\ row'[j].status = "done" =>
          \/ row'[j].translated
          \/ \E r \in Runs : run'[r].job = j /\ run'[r].pc \in Owing
    BY <1>2, <2>1 DEF Truthful, Owing, Executing
  <2> QED BY <1>2, <2>1, <2>2, <2>3, <2>4 DEF Truthful
<1> QED BY <1>1, <1>2

\* A run that is woken keeps its note.
LEMMA NotifyAuto ==
  ASSUME TypeOK, NEW j \in Jobs, run' = Notify(j, run)
  PROVE  \A r \in Runs : run'[r].pc = run[r].pc /\ run'[r].job = run[r].job /\ run'[r].auto = run[r].auto
<1>1. ASSUME NEW r \in Runs
      PROVE  LET state == [run[r] EXCEPT !.unseen = TRUE] IN
             state.pc = run[r].pc /\ state.job = run[r].job /\ state.auto = run[r].auto
  BY DEF TypeOK, RunStates
<1>2. \A r \in Runs : run'[r] = run[r] \/ run'[r] = [run[r] EXCEPT !.unseen = TRUE]
  BY DEF Notify
<1> QED BY <1>1, <1>2

\* The steps of a command.
LEMMA ServeSpeaks ==
  ASSUME IInv, Speaking, Settling', NEW c \in Callers, Serve(c)
  PROVE  Speaking'
<1> USE DEF Speaking
<1>1. call[c].pc \in FirstPoints \ {"none"} /\ deleted = {}
  BY DEF Settling, Plain, Undeleted, Serve, SubmitSync, SubmitPrepare, Enqueue, Send, ReturnResumed, PauseSync,
     ResumeCheck, ResumeLock, Unhold, Reserve, Requeue, RequeueSync, RefreshSync, RelinkRow,
     DeleteMove, DeleteRow
<1>2. PICK j \in Jobs : call[c].job = j /\ Loadable(j)
  BY <1>1, CallFinds
<1>3. ASSUME StatusesStay
      PROVE  \A k \in Jobs : Alike(k)
  BY <1>3 DEF StatusesStay
<1>4. ASSUME NEW s, Marks(j, s) \/ Shows(j, s)
      PROVE  \A k \in Jobs \ {j} : Alike(k)
  BY <1>4 DEF Marks, Shows, Alike, FileDone, Loadable
<1>5. ASSUME CallOver(c)
      PROVE  /\ call'[c].job = None /\ call'[c].pc = "none"
             /\ \A d \in Callers \ {c} : call'[d] = call[d]
  BY <1>5 DEF CallOver
<1>6. ASSUME NEW p, CallTo(c, p)
      PROVE  /\ call'[c].job = j /\ call'[c].pc = p
             /\ \A d \in Callers \ {c} : call'[d] = call[d]
  BY <1>2, <1>6 DEF CallTo
\* A step that writes no status.
<1>7. ASSUME StatusesStay, UNCHANGED run, automatic \subseteq automatic',
             \A d \in Callers \ {c} : call'[d] = call[d],
             call'[c].job \in {j, None}, call'[c].pc \in FirstPoints,
             j \in Automatic /\ call'[c].pc \in {"enqueue", "send"} => j \in automatic'
      PROVE  Speaking'
  BY <1>2, <1>3, <1>7, CallSpeaks DEF Alike, FileDone, Loadable
<1> USE DEF FirstPoints
<1>8. CASE SubmitSync(c)
  <2>1. /\ CallTo(c, "submit_prepare") /\ Shows(j, "queued") /\ UNCHANGED <<automatic, run>>
    BY <1>2, <1>8, SubmitSyncStep
  <2> QED BY <1>2, <1>4, <1>6, <2>1, CallSpeaks DEF Shows, FileDone, Loadable
<1>9. CASE SubmitPrepare(c)
  <2>1. /\ CallTo(c, "enqueue") /\ StatusesStay /\ UNCHANGED run
        /\ automatic' = IF j \in Automatic THEN automatic \cup {j} ELSE automatic
    BY <1>2, <1>9, SubmitPrepareStep
  <2> QED BY <1>6, <1>7, <2>1
<1>10. CASE Enqueue(c)
  <2>1. call[c].pc = "enqueue" /\ CallTo(c, "send") /\ StatusesStay /\ UNCHANGED <<automatic, run>>
    BY <1>10, EnqueueStep
  <2>2. j \in Automatic => j \in automatic'
    BY <1>2, <2>1 DEF Truthful
  <2> QED BY <1>6, <1>7, <2>1, <2>2
<1>11. CASE ReturnResumed(c) \/ RelinkRow(c)
  <2>1. CallOver(c) /\ StatusesStay /\ UNCHANGED <<automatic, run>>
    BY <1>1, <1>11, SilentStays, ReturnResumedStep, RelinkRowStep
  <2> QED BY <1>5, <1>7, <2>1
<1>12. CASE Send(c)
  <2>1. call[c].pc = "send" /\ Silent /\ (CallTo(c, "sent") \/ CallOver(c)) /\ UNCHANGED automatic
    BY <1>12, SendStep
  <2>2. PICK r \in Runs :
          /\ \A s \in Runs \ {r} : run'[s] = run[s]
          /\ run[r].pc = "none" /\ run[r].job = None /\ run'[r].pc = "sent" /\ run'[r].job = j
    BY <1>2, <1>12, SendStep
  <2>3. /\ \A d \in Callers \ {c} : call'[d] = call[d]
        /\ call'[c].job \in {j, None} /\ call'[c].pc \in {"none", "sent"}
    BY <1>5, <1>6, <2>1
  <2>4. ASSUME NEW k \in Automatic
        PROVE  Truthful(k)'
    <3>1. Alike(k) /\ k \in Jobs /\ k # None
      BY <1>3, <2>1, SilentStays, BoundsAssumption, NoneAssumption
    <3>2. CASE k # j
      <4>1. \A s \in Runs : run[s].job = k \/ run'[s].job = k => run'[s] = run[s]
        BY <2>2, <3>1, <3>2
      <4>2. \A d \in Callers : call[d].job = k \/ call'[d].job = k => call'[d] = call[d]
        BY <1>2, <2>3, <3>1, <3>2
      <4> QED BY <2>1, <3>1, <4>1, <4>2, OthersSpeak
    <3>3. CASE k = j
      <4>1. Truthful(j) /\ j \in automatic
        BY <1>2, <2>1, <3>3 DEF Truthful
      <4>2. \A s \in Runs : run'[s] = run[s] \/ (run[s].job # j /\ run'[s].pc = "sent")
        BY <2>2, <3>1, <3>3
      <4>3. \A s \in Runs : run[s].job = j => run'[s] = run[s]
        BY <2>2, <3>1, <3>3
      <4> QED BY <2>1, <3>3, <4>1, <4>2, <4>3 DEF Truthful, Silent, FileDone, Loadable, Working, Interruptible
    <3> QED BY <3>2, <3>3
  <2> QED BY <2>3, <2>4
<1>13. CASE PauseSync(c)
  <2>1. /\ CallOver(c) /\ Shows(j, dir[j].manifest.status) /\ UNCHANGED <<automatic, run>>
    BY <1>1, <1>2, <1>13, PauseSyncStep
  <2> QED BY <1>2, <1>4, <1>5, <2>1, CallSpeaks DEF Shows, FileDone, Loadable
<1>14. CASE \/ ResumeCheck(c) \/ ResumeLock(c) \/ Unhold(c) \/ Reserve(c) \/ Requeue(c)
            \/ RequeueSync(c) \/ RefreshSync(c) \/ DeleteMove(c) \/ DeleteRow(c)
  BY <1>1, <1>14 DEF ResumeCheck, ResumeLock, Unhold, Reserve, Requeue, RequeueSync,
     RefreshSync, DeleteMove, DeleteRow
<1> QED BY <1>8, <1>9, <1>10, <1>11, <1>12, <1>13, <1>14 DEF Serve

\* The steps that issue a command.
LEMMA IssueSpeaks ==
  ASSUME IInv, Speaking, Settling', Commands \subseteq {"submit", "retry", "pause", "relink"},
         NEW c \in Callers, NEW j \in Jobs, Issue(c, j)
  PROVE  Speaking'
<1> USE DEF Speaking
<1>1. call[c].job = None
  <2>1. call[c] = NoCall
    BY DEF Issue, SubmitCreate, RetryCreate, Pause, ResumeConfigure, RefreshLoad, RelinkManifest,
       DeleteCheck, Issues
  <2> QED BY <2>1 DEF NoCall
<1>2. ASSUME NEW p, CallBegins(c, p, j)
      PROVE  call'[c].job = j /\ call'[c].pc = p /\ \A d \in Callers \ {c} : call'[d] = call[d]
  BY <1>2 DEF CallBegins
<1>3. ASSUME StatusesStay
      PROVE  \A k \in Jobs : Alike(k)
  BY <1>3 DEF StatusesStay
<1>4. ASSUME NEW s, Marks(j, s)
      PROVE  \A k \in Jobs \ {j} : Alike(k)
  BY <1>4 DEF Marks, Alike, FileDone, Loadable
<1> USE DEF FirstPoints
<1>5. CASE SubmitCreate(c, j) \/ RetryCreate(c, j)
  <2>1. CallBegins(c, "submit_sync", j) /\ Marks(j, "queued") /\ UNCHANGED <<automatic, run>>
    BY <1>5, CreateStep
  <2> QED BY <1>1, <1>2, <1>4, <2>1, CallSpeaks DEF Marks, FileDone, Loadable
<1>6. CASE Pause(c, j)
  <2>1. UNCHANGED automatic /\ run' = Notify(j, run)
    BY <1>6 DEF Pause
  <2>2. \A s \in Runs : run'[s].pc = run[s].pc /\ run'[s].job = run[s].job /\ run'[s].auto = run[s].auto
    BY <2>1, NotifyAuto DEF IInv
  <2>3. CASE Silent /\ (CallBegins(c, "await_stop", j) \/ UNCHANGED call)
    <3>1. call'[c].job \in {j, None} /\ call'[c].pc \in FirstPoints /\ \A d \in Callers \ {c} : call'[d] = call[d]
      BY <1>1, <1>2, <2>3
    <3>2. call'[c].pc \notin {"enqueue", "send"}
      BY <1>1, <1>2, <2>3, CallAtKnows, NoneAssumption
    <3> QED BY <1>1, <1>3, <2>1, <2>2, <2>3, <3>1, <3>2, SilentStays, CallSpeaks DEF Alike, FileDone, Loadable
  <2>4. CASE Marks(j, "failed") /\ CallBegins(c, "pause_sync", j)
    BY <1>1, <1>2, <1>4, <2>1, <2>2, <2>4, CallSpeaks DEF Marks, FileDone, Loadable
  <2> QED BY <1>6, <2>3, <2>4, PauseStep
<1>7. CASE RelinkManifest(c, j)
  <2>1. StatusesStay /\ UNCHANGED run /\ UNCHANGED automatic
    BY <1>7, BeginsStep DEF RelinkManifest
  <2>2. call'[c].job = j /\ call'[c].pc = "relink_row" /\ \A d \in Callers \ {c} : call'[d] = call[d]
    BY <1>7 DEF RelinkManifest, IInv, TypeOK
  <2> QED BY <1>1, <1>3, <2>1, <2>2, CallSpeaks DEF Alike, FileDone, Loadable
<1>8. CASE ResumeConfigure(c, j) \/ RefreshLoad(c, j) \/ DeleteCheck(c, j)
  BY <1>8 DEF ResumeConfigure, RefreshLoad, DeleteCheck, Issues
<1> QED BY <1>5, <1>6, <1>7, <1>8 DEF Issue

\* An automatic task keeps the truth about its translation.
LEMMA NextSpeaks ==
  ASSUME IInv, Speaking, [Next]_vars, Commands \subseteq {"submit", "retry", "pause", "relink"}
  PROVE  Speaking'
<1>1. Settling /\ Settling'
  BY NextSettles DEF Speaking
<1>2. CASE Crash \/ Ready \/ \E j \in Jobs : Recover(j)
  BY <1>1, <1>2 DEF Settling, Plain, Crash, Ready, Recover
<1>3. CASE UNCHANGED vars
  <2>1. \A k \in Jobs : Alike(k)
    BY <1>3 DEF vars, Alike, FileDone, Loadable
  <2>2. \A k \in Automatic : Truthful(k)'
    BY <1>3, <2>1, OthersSpeak, BoundsAssumption DEF vars, Speaking
  <2> QED BY <1>1, <1>3, <2>2 DEF vars, Speaking
<1> QED BY <1>1, <1>2, <1>3, ExecuteSpeaks, ServeSpeaks, IssueSpeaks DEF Next

\* An automatic task that settles as done has been translated: no pause, stale
\* progress or late report leaves it done without its translation.  A resume, a
\* refresh or a crash can, and their commands are left out.
THEOREM DoneTranslated ==
  ASSUME Commands \subseteq {"submit", "retry", "pause", "relink"}
  PROVE  Spec => []DoneIsTranslated
<1>1. Init => Speaking
  <2> SUFFICES ASSUME Init
               PROVE  Speaking
    OBVIOUS
  <2>1. Settling
    BY InitPlain DEF Init, Settling, AgreesOrOwed, Agrees, ReportsStatus, NoRun
  <2>2. /\ NoRun.pc = "none" /\ NoRun.job = None /\ NoCall.pc = "none" /\ NoCall.job = None
        /\ "none" \in FirstPoints
    BY DEF NoRun, NoCall, FirstPoints
  <2>3. ASSUME NEW j \in Automatic
        PROVE  Truthful(j)
    <3>1. j \in Jobs /\ j # None /\ row[j] = None
      BY BoundsAssumption, NoneAssumption DEF Init
    <3>2. dir[j].manifest = None
      BY <3>1 DEF Init, Absent
    <3> QED BY <2>2, <3>1, <3>2 DEF Init, Truthful, FileDone, Loadable
  <2> QED BY <2>1, <2>2, <2>3 DEF Speaking, Init
<1>2. IInv /\ Speaking /\ [Next]_vars => Speaking'
  BY NextSpeaks
<1>3. Speaking => DoneIsTranslated
  BY DEF Speaking, Truthful, DoneIsTranslated, HasRun
<1> QED BY <1>1, <1>2, <1>3, Invariance, PTL DEF Spec
-----------------------------------------------------------------------------
(* A listed task has somebody working for it *)

\* The marker that makes a run skip recognition.
Marker(j) == "published" \in dir[j].files

\* The points of a run at which its task has not been published.
Unmarked ==
  Before \cup {"starting", "entering", "recognize", "recognizing", "recognized", "prefix",
               "publishing", "marking", "unrecognized"}

\* A command is on its way to dispatch the task.
Dispatched(j) == \E c \in Callers : call[c].job = j /\ (Submitting(c) \/ Dispatching(c))

\* A run of the task is going to recognise it, now or once it is dispatched.
Pending(j) ==
  \/ control[j] # None /\ ~ control[j].started
  \/ Dispatched(j)
  \/ \E c \in Callers : call[c].job = j /\ call[c].pc \in {"resume_lock", "reserve"}
  \/ \E r \in Runs : run[r].job = j /\ run[r].pc \in Unmarked

\* A run ends with a settled status file, and then with a settled row.
Concludes(r) ==
  LET j == run[r].job IN
  /\ run[r].pc = "recognized" => dir[j].manifest.status = "done"
  /\ run[r].pc \in {"prefix", "publishing", "marking", "translate"} /\ ~ run[r].auto =>
       dir[j].manifest.status = "done"
  /\ run[r].pc = "ending" => dir[j].manifest.status \in Terminal
  /\ run[r].pc = "reporting" => run[r].kept.manifest.status \in Terminal
  /\ run[r].pc \in {"leaving", "closing"} => row[j] # None /\ row[j].status \in Terminal

\* A task is not published before it is recognised; a control is there for a run
\* or a dispatch, and is started by the run; a listed task has one or the other.
Works(j) ==
  /\ Pending(j) => ~ Marker(j)
  /\ \A r \in Runs : run[r].job = j => Concludes(r)
  /\ \A c \in Callers : call[c].job = j /\ (call[c].pc \in {"pause_sync", "unhold"} \/ Dispatching(c)) =>
       ~ control[j].started
  /\ \A r \in Runs : run[r].job = j /\ run[r].pc \in Before => ~ control[j].started
  /\ control[j] # None => HasRun(j) \/ \E c \in Callers : call[c].job = j /\ Dispatching(c)
  /\ up /\ row[j] # None /\ row[j].status \notin Terminal => HasRun(j) \/ Dispatched(j)

\* The points of a run that has started and not failed.
Going == {"starting", "entering", "recognize", "recognizing", "recognized", "prefix",
          "publishing", "marking", "translate"}

\* While a run goes on nobody sees its task failed, and a run that has failed has
\* not published.
Clean(r) ==
  LET j == run[r].job IN
  /\ run[r].pc \in Going =>
       /\ row[j].status # "failed" /\ dir[j].manifest.status # "failed"
       /\ poller[r].seen # None => poller[r].seen.manifest.status # "failed"
  /\ run[r].pc = "publishing" => run[r].kept.manifest.status # "failed"
  /\ run[r].pc = "failing" => ~ Marker(j)
  /\ run[r].pc = "reporting" /\ run[r].kept.manifest.status = "failed" => ~ Marker(j)

\* What a resume, or a pause, relies on: no run goes on while it waits for the
\* lock, and none is there when it reserves the control.
Finds(c) ==
  LET j == call[c].job IN
  /\ call[c].pc = "resume_lock" =>
       /\ \A r \in Runs : run[r].job = j => run[r].pc \notin Going
       /\ control[j] # None /\ ~ control[j].started => control[j].paused
  /\ call[c].pc = "reserve" => control[j] = None
  /\ call[c].pc \in {"requeue_sync", "unhold"} => dir[j].manifest.status # "failed"
  /\ call[c].pc \in {"pause_sync", "unhold"} => control[j].paused

\* The task is registered, neither held nor started, and written as it waits.
Awaits(j) ==
  /\ control[j] # None /\ ~ control[j].paused /\ ~ control[j].started
  /\ \A c \in Callers : call[c].job = j => call[c].pc \notin {"requeue", "requeue_sync"}

\* A published task is done and cannot be resumed; one that waits for its run
\* without being paused is not listed as failed.
Resumable(j) ==
  /\ Marker(j) => dir[j].manifest.status = "done" /\ (row[j] # None => row[j].status # "failed")
  /\ Awaits(j) => row[j].status # "failed" /\ dir[j].manifest.status # "failed"
  /\ \A r \in Runs : run[r].job = j => Clean(r)
  /\ \A c \in Callers : call[c].job = j => Finds(c)

\* The points of a resume.
ResumePoints == {"resume_check", "resume_lock", "unhold", "reserve", "requeue", "requeue_sync"}

\* No task is translated automatically.
Manual ==
  /\ automatic = {} /\ \A j \in Jobs : "preferences" \notin dir[j].files
  /\ \A r \in Runs : ~ run[r].auto /\ run[r].pc \notin {"translating", "translated"}

Serving ==
  /\ Undeleted /\ \A c \in Callers : call[c].pc # "refresh_sync"
  /\ \A j \in Jobs : Works(j)
  /\ IF "resume" \in Commands
     THEN OneCaller /\ Holding /\ Manual /\ \A j \in Jobs : Resumable(j)
     ELSE \A c \in Callers : call[c].pc \notin ResumePoints

\* What no step for another task changes.
Apart(k) ==
  /\ Alike(k) /\ control'[k] = control[k] /\ (up' => up)
  /\ \A s \in Runs : run[s].job = k \/ run'[s].job = k =>
       /\ run'[s].pc = run[s].pc /\ run'[s].job = run[s].job
       /\ run'[s].kept = run[s].kept /\ run'[s].auto = run[s].auto
       /\ poller'[s].seen = poller[s].seen \/ poller'[s].seen = None
  /\ \A d \in Callers : call[d].job = k \/ call'[d].job = k => call'[d] = call[d]

\* Such a task goes on being worked for ...
LEMMA ApartWorks ==
  ASSUME NEW k \in Jobs, Works(k), Apart(k)
  PROVE  Works(k)'
<1>1. /\ Alike(k) /\ control'[k] = control[k] /\ (up' => up)
      /\ \A s \in Runs : run[s].job = k \/ run'[s].job = k =>
           /\ run'[s].pc = run[s].pc /\ run'[s].job = run[s].job
           /\ run'[s].kept = run[s].kept /\ run'[s].auto = run[s].auto
      /\ \A d \in Callers : call[d].job = k \/ call'[d].job = k => call'[d] = call[d]
  BY DEF Apart
<1>2. Dispatched(k)' <=> Dispatched(k)
  BY <1>1 DEF Dispatched, Submitting, Dispatching
<1>3. Pending(k)' => Pending(k)
  BY <1>1, <1>2 DEF Pending
<1>4. (Marker(k)' <=> Marker(k)) /\ (HasRun(k)' <=> HasRun(k))
  BY <1>1 DEF Marker, HasRun, Alike
<1>5. ASSUME NEW r \in Runs, run'[r].job = k
      PROVE  Concludes(r)'
  <2>1. Concludes(r)
    BY <1>1, <1>5 DEF Works
  <2> QED BY <1>1, <1>5, <2>1 DEF Concludes, Alike
<1>6. \A c \in Callers : call'[c].job = k => call'[c] = call[c] /\ (Dispatching(c)' <=> Dispatching(c))
  BY <1>1 DEF Dispatching
<1>7. control'[k] # None => HasRun(k)' \/ \E c \in Callers : call'[c].job = k /\ Dispatching(c)'
  BY <1>1, <1>4, <1>6 DEF Works, Dispatching
<1>8. up' /\ row'[k] # None /\ row'[k].status \notin Terminal => HasRun(k)' \/ Dispatched(k)'
  BY <1>1, <1>2, <1>4 DEF Works, Alike
<1> QED BY <1>1, <1>3, <1>4, <1>5, <1>6, <1>7, <1>8 DEF Works

\* ... and to be resumable.
LEMMA ApartResumable ==
  ASSUME NEW k \in Jobs, Resumable(k), Apart(k)
  PROVE  Resumable(k)'
<1>1. /\ Alike(k) /\ control'[k] = control[k]
      /\ \A s \in Runs : run[s].job = k \/ run'[s].job = k =>
           /\ run'[s].pc = run[s].pc /\ run'[s].job = run[s].job
           /\ run'[s].kept = run[s].kept
           /\ poller'[s].seen = poller[s].seen \/ poller'[s].seen = None
      /\ \A d \in Callers : call[d].job = k \/ call'[d].job = k => call'[d] = call[d]
  BY DEF Apart
<1>2. (Marker(k)' <=> Marker(k))
  BY <1>1 DEF Marker, Alike
<1>3. ASSUME NEW r \in Runs, run'[r].job = k
      PROVE  Clean(r)'
  <2>1. Clean(r)
    BY <1>1, <1>3 DEF Resumable
  <2> QED BY <1>1, <1>2, <1>3, <2>1 DEF Clean, Alike
<1>4. ASSUME NEW c \in Callers, call'[c].job = k
      PROVE  Finds(c)'
  <2>1. Finds(c) /\ call'[c] = call[c]
    BY <1>1, <1>4 DEF Resumable
  <2> QED BY <1>1, <1>4, <2>1 DEF Finds, Alike
<1> QED BY <1>1, <1>2, <1>3, <1>4 DEF Resumable, Awaits, Alike

\* No other run works for the task of a run, and no command is about to dispatch it.
LEMMA RunIsAlone ==
  ASSUME IInv, deleted = {}, NEW r \in Runs, run[r].pc # "none"
  PROVE  /\ \A s \in Runs \ {r} : run[s].job # run[r].job
         /\ \A c \in Callers : call[c].job = run[r].job => ~ Submitting(c) /\ ~ Dispatching(c)
<1>1. \A s \in Runs \ {r} : run[s].job # run[r].job
  BY RunIsNotDispatched
<1>2. run[r].job \in Jobs
  BY RunAt
<1>3. ASSUME NEW c \in Callers, call[c].job = run[r].job, Submitting(c) \/ Dispatching(c)
      PROVE  FALSE
  <2>1. CASE Submitting(c)
    BY <1>2, <1>3, <2>1 DEF IInv, SubmissionIsQuiet, Quiet, Controlled
  <2>2. CASE Dispatching(c)
    BY <1>2, <1>3, <2>2 DEF IInv, OneDispatch
  <2> QED BY <1>3, <2>1, <2>2
<1> QED BY <1>1, <1>3

\* A control that is marked as started changes in nothing else.
LEMMA StartedControl ==
  ASSUME IInv, NEW j \in Jobs, control[j] \in Controls, control' = [control EXCEPT ![j].started = TRUE]
  PROVE  control'[j] \in Controls /\ control'[j].paused = control[j].paused /\ control'[j].started
BY DEF IInv, TypeOK, Controls

\* A run works for its task j and goes on to point p: the other tasks stay apart,
\* and of its own it must leave what its new point says.
LEMMA RunServes ==
  ASSUME IInv, Serving, NEW r \in Runs, NEW j \in Jobs, NEW p, run[r].pc # "none", run[r].job = j,
         \A s \in Runs \ {r} : run'[s] = run[s],
         run'[r].pc = p, p # "none", run'[r].job = j,
         UNCHANGED <<call, deleted>>, up' => up,
         automatic' \subseteq automatic,
         \A k \in Jobs : dir'[k].files \subseteq dir[k].files \cup {"segments", "published"},
         \A k \in Jobs \ {j} : Alike(k),
         control' = control \/ (p = "starting" /\ control' = [control EXCEPT ![j].started = TRUE]
                                /\ lock = None /\ Alike(j)),
         control'[j] # None, p = "starting" => control'[j].started,
         p \in Going => run[r].pc \in Going \/ (p = "starting" /\ ~ control[j].paused /\ run[r].pc \in Before),
         \A s \in Runs \ {r} : poller'[s].seen = poller[s].seen \/ poller'[s].seen = None,
         p \in Unmarked => run[r].pc \in Unmarked, p \in Before => run[r].pc \in Before,
         \/ Marker(j)' <=> Marker(j)
         \/ run[r].pc = "marking" /\ p = "translate",
         Alike(j) \/ run[r].pc \in Executing,
         Concludes(r)',
         "resume" \in Commands =>
           /\ Holding' /\ ~ run'[r].auto /\ p \notin {"translating", "translated"} /\ Clean(r)'
           /\ Marker(j)' => dir'[j].manifest.status = "done" /\ (row'[j] # None => row'[j].status # "failed")
  PROVE  Serving'
<1> USE DEF Serving
<1>1. deleted = {} /\ Undeleted'
  BY DEF Undeleted
<1>2. /\ \A s \in Runs \ {r} : run[s].job # j
      /\ \A c \in Callers : call[c].job = j => ~ Submitting(c) /\ ~ Dispatching(c)
  BY <1>1, RunIsAlone
<1>3. ASSUME NEW k \in Jobs, k # j
      PROVE  Apart(k)
  <2>1. control'[k] = control[k]
    BY <1>3 DEF IInv, TypeOK
  <2> QED BY <1>3, <2>1 DEF Apart
<1>4. Works(j) /\ control[j] # None /\ control[j] \in Controls
  BY <1>1 DEF IInv, Controlled, TypeOK
<1>5. /\ control'[j] \in Controls /\ control'[j].paused = control[j].paused
      /\ control[j].started => control'[j].started
      /\ control'[j] = control[j] \/ (p = "starting" /\ lock = None)
  <2>1. CASE control' = control
    BY <1>4, <2>1 DEF Controls
  <2>2. CASE p = "starting" /\ control' = [control EXCEPT ![j].started = TRUE] /\ lock = None
    BY <1>4, <2>2, StartedControl
  <2> QED BY <2>1, <2>2
<1>6. /\ ~ Dispatched(j)' /\ HasRun(j)'
      /\ \A c \in Callers : call[c].job = j => ~ Dispatching(c)'
  BY <1>2 DEF Dispatched, HasRun, Submitting, Dispatching
<1>7. Pending(j)' => Pending(j)
  <2>1. ASSUME NEW s \in Runs, run'[s].job = j, run'[s].pc \in Unmarked
        PROVE  run[s].job = j /\ run[s].pc \in Unmarked
    BY <1>2, <2>1
  <2>2. control'[j] # None /\ ~ control'[j].started => control[j] # None /\ ~ control[j].started
    BY <1>4, <1>5
  <2> QED BY <1>6, <2>1, <2>2 DEF Pending
<1>8. Pending(j)' => ~ Marker(j)'
  <2>1. CASE Marker(j)' <=> Marker(j)
    BY <1>4, <1>7, <2>1 DEF Works
  <2>2. CASE run[r].pc = "marking" /\ p = "translate"
    <3>1. control'[j].started
      BY <1>1, <1>5, <2>2 DEF IInv, Controlled, Executing, Interruptible
    <3>2. \A s \in Runs : run'[s].job = j => run'[s].pc \notin Unmarked
      BY <1>2, <2>2 DEF Unmarked, Before
    <3>3. ASSUME NEW c \in Callers, call[c].job = j, call[c].pc \in {"resume_lock", "reserve"}
          PROVE  FALSE
      <4>1. CASE "resume" \in Commands
        <5>1. Finds(c)
          BY <3>3, <4>1 DEF Resumable
        <5> QED BY <1>4, <2>2, <3>3, <5>1 DEF Finds, Going
      <4>2. CASE "resume" \notin Commands
        BY <3>3, <4>2 DEF ResumePoints
      <4> QED BY <4>1, <4>2
    <3> QED BY <1>6, <3>1, <3>2, <3>3 DEF Pending
  <2> QED BY <2>1, <2>2
<1>9. ASSUME NEW c \in Callers, call[c].job = j, call[c].pc \in {"pause_sync", "unhold"}
      PROVE  ~ control'[j].started
  <2>1. lock # None /\ ~ control[j].started
    BY <1>4, <1>9, NoneAssumption DEF IInv, CallShape, Works
  <2> QED BY <1>5, <2>1
<1>10. ASSUME p \in Before
       PROVE  ~ control'[j].started
  <2>1. ~ control[j].started
    BY <1>4, <1>10 DEF Works
  <2> QED BY <1>5, <1>10, <2>1 DEF Before
<1>11. Works(j)'
  <2>1. \A s \in Runs : run'[s].job = j => s = r
    BY <1>2
  <2> QED BY <1>6, <1>8, <1>9, <1>10, <2>1 DEF Works
<1>12. ASSUME "resume" \in Commands
       PROVE  Manual' /\ Resumable(j)'
  <2>1. Manual'
    BY <1>12 DEF Manual
  <2>2. ASSUME NEW c \in Callers, call[c].job = j
        PROVE  Finds(c)'
    <3>1. Finds(c)
      BY <1>12, <2>2 DEF Resumable
    <3>2. ASSUME call[c].pc = "resume_lock"
          PROVE  /\ \A s \in Runs : run'[s].job = j => run'[s].pc \notin Going
                 /\ control'[j] # None /\ ~ control'[j].started => control'[j].paused
      <4>1. /\ run[r].pc \notin Going
            /\ ~ control[j].started => control[j].paused
        BY <1>4, <2>2, <3>1, <3>2 DEF Finds
      <4>2. p \notin Going
        <5> SUFFICES ASSUME p \in Going
                     PROVE  FALSE
          OBVIOUS
        <5>1. ~ control[j].paused /\ run[r].pc \in Before
          BY <4>1
        <5>2. ~ control[j].started
          BY <1>4, <5>1 DEF Works
        <5> QED BY <4>1, <5>1, <5>2
      <4> QED BY <1>2, <1>5, <4>1, <4>2
    <3>3. call[c].pc # "reserve"
      BY <1>4, <2>2, <3>1 DEF Finds
    <3>4. call[c].pc \in {"requeue_sync", "unhold"} => dir'[j].manifest.status # "failed"
      <4> SUFFICES ASSUME call[c].pc \in {"requeue_sync", "unhold"}
                   PROVE  dir'[j].manifest.status # "failed"
        OBVIOUS
      <4>1. call[c].pc = "unhold" /\ dir[j].manifest.status # "failed"
        BY <1>2, <2>2, <3>1 DEF Dispatching, Finds
      <4>2. ~ control[j].started
        BY <1>4, <2>2, <4>1 DEF Works
      <4>3. run[r].pc \notin Executing
        BY <1>1, <4>2 DEF IInv, Controlled
      <4> QED BY <4>1, <4>3 DEF Alike
    <3>5. call[c].pc \in {"pause_sync", "unhold"} => control'[j].paused
      BY <1>5, <2>2, <3>1 DEF Finds
    <3> QED BY <2>2, <3>2, <3>3, <3>4, <3>5 DEF Finds
  <2>3. ASSUME Awaits(j)'
        PROVE  row'[j].status # "failed" /\ dir'[j].manifest.status # "failed"
    <3>1. Awaits(j)
      BY <1>4, <1>5, <2>3 DEF Awaits
    <3>2. Alike(j)
      BY <1>1, <3>1 DEF IInv, Controlled, Awaits
    <3>3. row[j].status # "failed" /\ dir[j].manifest.status # "failed"
      BY <1>12, <3>1 DEF Resumable
    <3> QED BY <3>2, <3>3 DEF Alike
  <2>4. \A s \in Runs : run'[s].job = j => Clean(s)'
    BY <1>2, <1>12
  <2> QED BY <1>12, <2>1, <2>2, <2>3, <2>4 DEF Resumable
<1>13. \A k \in Jobs : Works(k)'
  BY <1>3, <1>11, ApartWorks
<1>14. "resume" \in Commands => \A k \in Jobs : Resumable(k)'
  BY <1>3, <1>12, ApartResumable
<1> QED BY <1>1, <1>12, <1>13, <1>14

\* A run takes no file away and adds none but its segments and its marker, and it
\* forgets what its poller has seen or keeps it.
Frugal ==
  /\ UNCHANGED <<deleted, up>> /\ automatic' \subseteq automatic
  /\ \A k \in Jobs : dir'[k].files \subseteq dir[k].files \cup {"segments", "published"}
  /\ \A s \in Runs : poller'[s].seen = poller[s].seen \/ poller'[s].seen = None

\* So do all the steps of a run but the load of the poller.
LEMMA ExecuteFrugal ==
  ASSUME IInv, deleted = {}, NEW r \in Runs,
         \/ Execute(r) \/ Acquire(r) \/ Withdraw(r) \/ StopOnPause(r) \/ NextStage(r)
         \/ RecognitionFails(r) \/ WorkFails(r)
  PROVE  Frugal
<1> USE DEF Frugal
<1>1. run[r].pc # "none" /\ run[r].job \in Jobs
  BY ExecuteOn
<1>2. TypeOK /\ dir \in [Jobs -> Directories] /\ poller \in [Runs -> PollerStates]
  BY DEF IInv, TypeOK
<1>3. ASSUME UNCHANGED <<deleted, up>>, automatic' \subseteq automatic, UNCHANGED poller,
             dir' = dir \/ \A k \in Jobs : dir'[k].files = dir[k].files
      PROVE  Frugal
  BY <1>3
<1>4. ASSUME NEW p, FinishWork(r, p)
      PROVE  \A s \in Runs : poller'[s].seen = poller[s].seen \/ poller'[s].seen = None
  BY <1>2, <1>4 DEF FinishWork, Off
<1>5. ASSUME NEW m \in Manifests, WriteManifest(run[r].job, m)
      PROVE  \A k \in Jobs : dir'[k].files = dir[k].files
  BY <1>1, <1>2, <1>5, WriteManifestKeeps
<1>6. ASSUME NEW s \in Statuses, WriteStatus(run[r].job, s)
      PROVE  \A k \in Jobs : dir'[k].files = dir[k].files
  <2>1. Loadable(run[r].job)
    BY <1>1, RunFinds
  <2> QED BY <1>1, <1>2, <1>6, <2>1, WriteStatusKeeps
<1>7. CASE Lookup(r) \/ Admit(r) \/ Wake(r) \/ Acquire(r) \/ Withdraw(r) \/ Start(r)
  BY <1>3, <1>7 DEF Lookup, Admit, Wake, Acquire, Withdraw, Start
<1>8. CASE Begin(r)
  BY <1>2, <1>8 DEF Begin, PollerStates
<1>9. CASE StopOnPause(r) \/ WorkFails(r) \/ Enter(r) \/ JoinPrefix(r)
  BY <1>4, <1>9 DEF StopOnPause, WorkFails, Enter, JoinPrefix
<1>10. CASE Recognize(r) \/ NextStage(r) \/ RecognitionFails(r)
  <2>1. \A s \in Statuses : [status |-> s, input |-> run[r].input] \in Manifests
    BY <1>1, RunAt DEF Manifests
  <2> QED BY <1>3, <1>5, <1>10, <2>1 DEF Recognize, NextStage, WriteStage, RecognitionFails, Statuses
<1>11. CASE Recognized(r)
  <2> DEFINE j    == run[r].job
             m    == [status |-> "done", input |-> run[r].input]
             task == [exists |-> TRUE, manifest |-> m, files |-> dir[j].files \cup {"segments"}]
  <2>1. dir' = [dir EXCEPT ![j] = task] /\ UNCHANGED <<deleted, up, automatic, poller>>
    BY <1>11 DEF Recognized
  <2>2. task.files = dir[j].files \cup {"segments"}
    OBVIOUS
  <2> HIDE DEF task
  <2> QED BY <1>1, <1>2, <2>1, <2>2
<1>12. CASE MarkTranslating(r) \/ Translate(r) \/ FailManifest(r)
  <2>1. \A k \in Jobs : dir'[k].files = dir[k].files
    BY <1>6, <1>12 DEF MarkTranslating, Translate, FailManifest, Statuses
  <2> QED BY <1>4, <1>12, <2>1 DEF MarkTranslating, Translate, FailManifest
<1>13. CASE PublishCues(r) \/ TranslatePending(r) \/ LoadFinal(r) \/ SyncFinal(r) \/ ForgetAutomatic(r)
            \/ Close(r)
  BY <1>3, <1>13 DEF PublishCues, TranslatePending, LoadFinal, SyncFinal, ForgetAutomatic, Close
<1>14. CASE MarkPublished(r)
  <2>1. \A k \in Jobs : dir'[k].files \subseteq dir[k].files \cup {"published"}
    BY <1>1, <1>2, <1>14 DEF MarkPublished, Directories
  <2> QED BY <1>14, <2>1 DEF MarkPublished
<1>15. CASE MarkDone(r)
  <2> DEFINE m == [run[r].kept EXCEPT !.status = "done"]
  <2>1. m \in Manifests
    BY <1>1, <1>15, RunAt DEF MarkDone, Shaped, Manifests, Statuses
  <2> QED BY <1>4, <1>5, <1>15, <2>1 DEF MarkDone
<1> QED BY <1>7, <1>8, <1>9, <1>10, <1>11, <1>12, <1>13, <1>14, <1>15 DEF Execute

\* Admission marks the task as started when it starts it, and only then.
LEMMA StartMarks ==
  ASSUME IInv, deleted = {}, NEW r \in Runs,
         Lookup(r) \/ Admit(r) \/ Wake(r) \/ Acquire(r) \/ Withdraw(r) \/ Start(r)
  PROVE  \/ UNCHANGED control /\ run'[r].pc \in Before
         \/ /\ run'[r].pc = "starting" /\ lock = None /\ ~ control[run[r].job].paused
            /\ control' = [control EXCEPT ![run[r].job].started = TRUE]
<1>1. PICK p \in Before \cup {"starting"} : RunTo(r, p)
  BY AdmissionStep
<1>2. run[r].pc \in Before /\ run \in [Runs -> RunStates]
  BY AdmissionStep DEF IInv, TypeOK
<1>3. control[run[r].job] # None /\ dir[run[r].job].exists
  BY <1>2, RunFinds DEF Before
<1>4. CASE Lookup(r)
  BY <1>2, <1>3, <1>4 DEF Lookup, RunStates, Before
<1>5. CASE Admit(r)
  <2>1. UNCHANGED control
    BY <1>5 DEF Admit
  <2>2. \E q \in {"held", "acquiring", "granted"} : run' = [run EXCEPT ![r] = [@ EXCEPT !.pc = q]]
    BY <1>3, <1>5 DEF Admit
  <2> QED BY <1>2, <2>1, <2>2 DEF RunStates, Before
<1>6. CASE Wake(r) \/ Acquire(r) \/ Withdraw(r)
  BY <1>2, <1>3, <1>6 DEF Wake, Acquire, Withdraw, RunStates, Before
<1>7. CASE Start(r)
  BY <1>2, <1>3, <1>7 DEF Start, RunStates, Before
<1> QED BY <1>4, <1>5, <1>6, <1>7

\* The steps of a run up to its wrap-up.
LEMMA ExecuteServes ==
  ASSUME IInv, Serving, Undeleted', "delete" \notin Commands, NEW r \in Runs,
         \/ Execute(r) \/ Acquire(r) \/ Withdraw(r) \/ StopOnPause(r) \/ NextStage(r)
         \/ RecognitionFails(r) \/ WorkFails(r),
         ~ Close(r)
  PROVE  Serving'
<1>1. run[r].pc # "none" /\ deleted = {} /\ Undeleted
  BY ExecuteOn DEF Serving, Undeleted
<1>2. PICK j \in Jobs : run[r].job = j
  BY ExecuteOn
<1>3. Frugal
  BY <1>1, ExecuteFrugal
<1>4. /\ Works(j) /\ Concludes(r) /\ control[j] # None /\ control[j] \in Controls
      /\ run[r].pc \in Unmarked => ~ Marker(j)
  <2>1. Works(j) /\ control[j] # None /\ control[j] \in Controls
    BY <1>1, <1>2 DEF Serving, IInv, Controlled, TypeOK
  <2> QED BY <1>2, <2>1 DEF Works, Pending
<1>5. ASSUME "resume" \in Commands
      PROVE  /\ Holding' /\ automatic = {} /\ ~ run[r].auto
             /\ run[r].pc \notin {"translating", "translated"}
             /\ Resumable(j) /\ Clean(r)
             /\ Marker(j) => dir[j].manifest.status = "done" /\ (row[j] # None => row[j].status # "failed")
  <2>1. Holding'
    BY <1>5, ExecuteHolds DEF Serving
  <2>2. Manual /\ Resumable(j)
    BY <1>5 DEF Serving
  <2> QED BY <1>2, <2>1, <2>2 DEF Manual, Resumable
<1>6. ASSUME Silent
      PROVE  /\ \A k \in Jobs : Alike(k)
             /\ Marker(j)' <=> Marker(j)
  BY <1>6 DEF Silent, Alike, Marker
<1>7. ASSUME NEW s, Marks(j, s)
      PROVE  /\ \A k \in Jobs \ {j} : Alike(k)
             /\ (Marker(j)' <=> Marker(j)) /\ row' = row /\ dir'[j].manifest.status = s
  BY <1>7 DEF Marks, Alike, Marker
<1>8. ASSUME NEW s, Shows(j, s)
      PROVE  /\ \A k \in Jobs \ {j} : Alike(k)
             /\ (Marker(j)' <=> Marker(j)) /\ dir' = dir /\ row'[j] # None /\ row'[j].status = s
  BY <1>8 DEF Shows, Alike, Marker
\* What a run that is started owes.
<1>9. ASSUME NEW p \in Executing \ {"starting"}, run[r].pc \in Executing,
             \A s \in Runs \ {r} : run'[s] = run[s],
             run'[r].pc = p, run'[r].job = j, UNCHANGED <<call, control>>,
             \A k \in Jobs \ {j} : Alike(k),
             p \in Going => run[r].pc \in Going,
             p \in Unmarked => run[r].pc \in Unmarked,
             \/ Marker(j)' <=> Marker(j)
             \/ run[r].pc = "marking" /\ p = "translate",
             Concludes(r)',
             "resume" \in Commands =>
               /\ ~ run'[r].auto /\ p \notin {"translating", "translated"} /\ Clean(r)'
               /\ Marker(j)' => dir'[j].manifest.status = "done" /\ (row'[j] # None => row'[j].status # "failed")
      PROVE  Serving'
  <2>1. p # "none" /\ p \notin Before
    BY <1>9 DEF Executing, Interruptible, Before
  <2>2. up' => up
    BY <1>3 DEF Frugal
  <2> QED BY <1>1, <1>2, <1>3, <1>4, <1>5, <1>9, <2>1, <2>2, RunServes DEF Frugal
<1> USE DEF Executing, Interruptible, Going, Unmarked, Before, RunTo
<1>10. CASE Lookup(r) \/ Admit(r) \/ Wake(r) \/ Acquire(r) \/ Withdraw(r) \/ Start(r)
  <2>1. run[r].pc \in Before /\ Silent /\ UNCHANGED <<automatic, poller, call>>
    BY <1>1, <1>10, AdmissionStep
  <2>2. PICK p \in Before \cup {"starting"} : RunTo(r, p)
    BY <1>1, <1>10, AdmissionStep
  <2>3. \/ UNCHANGED control /\ p \in Before
        \/ /\ p = "starting" /\ lock = None /\ ~ control[j].paused
           /\ control' = [control EXCEPT ![j].started = TRUE]
    BY <1>1, <1>2, <1>10, <2>2, StartMarks
  <2>4. control'[j] # None /\ (p = "starting" => control'[j].started)
    <3>1. CASE UNCHANGED control /\ p \in Before
      BY <1>4, <3>1
    <3>2. CASE p = "starting" /\ control' = [control EXCEPT ![j].started = TRUE]
      <4>1. control'[j] \in Controls /\ control'[j].started
        BY <1>4, <3>2, StartedControl
      <4>2. None \notin Controls
        BY NoneAssumption
      <4> QED BY <4>1, <4>2
    <3> QED BY <2>3, <3>1, <3>2
  <2>5. Concludes(r)'
    BY <2>2 DEF Concludes
  <2>6. ASSUME "resume" \in Commands
        PROVE  Clean(r)'
    <3>1. CASE p # "starting"
      BY <2>2, <3>1 DEF Clean
    <3>2. CASE p = "starting"
      <4>1. ~ control[j].paused /\ ~ control[j].started
        BY <1>2, <1>4, <2>1, <2>3, <3>2 DEF Works
      <4>2. \A c \in Callers : call[c].job = j => call[c].pc \notin {"requeue", "requeue_sync"}
        BY <1>1, <1>2 DEF IInv, OneDispatch, Dispatching
      <4>3. row[j].status # "failed" /\ dir[j].manifest.status # "failed"
        BY <1>4, <1>5, <2>6, <4>1, <4>2 DEF Resumable, Awaits
      <4>4. poller[r].seen = None
        BY <2>1 DEF IInv, RunShape, Shaped, Working
      <4> QED BY <1>2, <2>1, <2>2, <3>2, <4>3, <4>4 DEF Clean, Silent
    <3> QED BY <3>1, <3>2
  <2>7. ASSUME "resume" \in Commands
        PROVE  /\ Holding' /\ ~ run'[r].auto /\ p \notin {"translating", "translated"} /\ Clean(r)'
               /\ Marker(j)' => dir'[j].manifest.status = "done" /\ (row'[j] # None => row'[j].status # "failed")
    BY <1>5, <1>6, <2>1, <2>2, <2>6, <2>7 DEF Silent
  <2>8. /\ p # "none" /\ run'[r].pc = p /\ run'[r].job = j /\ \A s \in Runs \ {r} : run'[s] = run[s]
        /\ Alike(j) /\ (Marker(j)' <=> Marker(j)) /\ \A k \in Jobs \ {j} : Alike(k)
        /\ p \in Unmarked => run[r].pc \in Unmarked
        /\ p \in Before => run[r].pc \in Before
        /\ p \in Going => p = "starting" /\ ~ control[j].paused /\ run[r].pc \in Before
    BY <1>2, <1>6, <2>1, <2>2, <2>3
  <2>9. /\ \/ UNCHANGED control
           \/ /\ p = "starting" /\ lock = None
              /\ control' = [control EXCEPT ![j].started = TRUE]
        /\ UNCHANGED <<call, deleted, up>> /\ automatic' \subseteq automatic
    BY <1>3, <2>1, <2>3 DEF Frugal
  <2> QED BY <1>1, <1>2, <1>3, <2>4, <2>5, <2>7, <2>8, <2>9, RunServes DEF Frugal
<1>11. CASE Begin(r)
  <2>1. /\ run[r].pc = "starting" /\ Silent /\ UNCHANGED <<automatic, call, control>>
        /\ \A s \in Runs \ {r} : run'[s] = run[s]
        /\ run'[r].pc = "entering" /\ run'[r].job = j
        /\ run'[r].auto = (j \in automatic)
    BY <1>2, <1>11, BeginStep
  <2>2. Concludes(r)'
    BY <2>1 DEF Concludes
  <2>3. ASSUME "resume" \in Commands
        PROVE  Clean(r)'
    BY <1>2, <1>3, <1>5, <2>1, <2>3 DEF Clean, Silent, Frugal
  <2> QED BY <1>5, <1>6, <1>9, <2>1, <2>2, <2>3 DEF Silent
<1>12. CASE StopOnPause(r) \/ WorkFails(r) \/ Enter(r)
  <2>1. /\ run[r].pc \in Interruptible \cup {"recognize"} /\ Silent /\ UNCHANGED <<automatic, call, control>>
        /\ \/ RunTo(r, "failing")
           \/ RunTo(r, "translate") /\ "published" \in dir[j].files
           \/ RunTo(r, "recognize") /\ "published" \notin dir[j].files
    BY <1>2, <1>12, BreakStep
  <2>2. CASE RunTo(r, "failing")
    <3>1. Concludes(r)'
      BY <2>2 DEF Concludes
    <3>2. ASSUME "resume" \in Commands
          PROVE  Clean(r)' /\ ~ Marker(j)'
      <4>1. ~ Marker(j)
        BY <1>4, <1>5, <2>1, <3>2
      <4>2. ~ Marker(j)'
        BY <1>6, <2>1, <4>1
      <4> QED BY <1>2, <2>2, <4>2 DEF Clean
    <3> QED BY <1>2, <1>5, <1>6, <1>9, <2>1, <2>2, <3>1, <3>2
  <2>3. CASE RunTo(r, "translate") \/ RunTo(r, "recognize")
    <3>1. Enter(r) /\ run[r].pc = "entering"
      <4>1. ~ StopOnPause(r) /\ ~ WorkFails(r)
        BY <2>3, RunAt DEF StopOnPause, WorkFails, FinishWork, IInv, TypeOK, RunStates
      <4> QED BY <1>12, <4>1 DEF Enter
    <3>2. RunTo(r, "recognize")
      BY <1>4, <2>1, <2>3, <3>1 DEF Marker
    <3>3. Concludes(r)'
      BY <3>2 DEF Concludes
    <3>4. ASSUME "resume" \in Commands
          PROVE  Clean(r)'
      BY <1>2, <1>3, <1>5, <2>1, <3>1, <3>2, <3>4 DEF Clean, Silent, Frugal
    <3> QED BY <1>2, <1>4, <1>5, <1>6, <1>9, <2>1, <3>1, <3>2, <3>3, <3>4
  <2> QED BY <2>1, <2>2, <2>3
<1>13. CASE Recognize(r) \/ NextStage(r) \/ RecognitionFails(r)
  <2>1. /\ run[r].pc \in {"recognize", "recognizing"} /\ UNCHANGED <<automatic, call, control>>
        /\ \/ RunTo(r, "recognizing") /\ Marks(j, "active")
           \/ RunTo(r, "unrecognized") /\ Marks(j, "failed")
    BY <1>2, <1>13, StageStep
  <2>2. Concludes(r)'
    BY <2>1 DEF Concludes
  <2>3. ~ Marker(j)'
    BY <1>4, <1>7, <2>1
  <2>4. ASSUME "resume" \in Commands
        PROVE  Clean(r)'
    BY <1>2, <1>3, <1>5, <1>7, <2>1, <2>4 DEF Clean, Frugal
  <2> QED BY <1>2, <1>5, <1>7, <1>9, <2>1, <2>2, <2>3, <2>4
<1>14. CASE Recognized(r)
  <2>1. /\ run[r].pc = "recognizing" /\ UNCHANGED <<automatic, call, control>>
        /\ RunTo(r, "recognized") /\ Marks(j, "done")
    BY <1>2, <1>14, RecognizedStep
  <2>2. Concludes(r)'
    BY <1>2, <1>7, <2>1 DEF Concludes
  <2>3. ~ Marker(j)'
    BY <1>4, <1>7, <2>1
  <2>4. ASSUME "resume" \in Commands
        PROVE  Clean(r)'
    BY <1>2, <1>3, <1>5, <1>7, <2>1, <2>4 DEF Clean, Frugal
  <2> QED BY <1>2, <1>5, <1>7, <1>9, <2>1, <2>2, <2>3, <2>4
<1>15. CASE MarkTranslating(r)
  <2>1. /\ run[r].pc = "recognized" /\ UNCHANGED <<automatic, call, control>>
        /\ RunTo(r, "prefix")
        /\ IF run[r].auto THEN Marks(j, "translating") ELSE Silent
    BY <1>1, <1>2, <1>15, MarkTranslatingStep
  <2>2. ~ Marker(j)' /\ \A k \in Jobs \ {j} : Alike(k)
    BY <1>4, <1>6, <1>7, <2>1
  <2>3. Concludes(r)'
    BY <1>2, <1>4, <2>1 DEF Concludes, Silent
  <2>4. ASSUME "resume" \in Commands
        PROVE  Clean(r)'
    BY <1>2, <1>3, <1>5, <2>1, <2>4 DEF Clean, Silent, Frugal
  <2> QED BY <1>2, <1>4, <1>5, <1>9, <2>1, <2>2, <2>3, <2>4
<1>16. CASE JoinPrefix(r)
  <2>1. /\ run[r].pc \in {"prefix", "unrecognized"} /\ Silent /\ UNCHANGED <<automatic, call, control>>
        /\ \/ RunTo(r, "failing")
           \/ RunTo(r, "publishing") /\ run[r].pc = "prefix" /\ run'[r].kept = Snapshot(j)
    BY <1>2, <1>16, JoinPrefixStep
  <2>2. ~ Marker(j)' /\ \A k \in Jobs \ {j} : Alike(k)
    BY <1>4, <1>6, <2>1
  <2>3. Concludes(r)'
    BY <1>2, <1>4, <2>1 DEF Concludes, Silent
  <2>4. ASSUME "resume" \in Commands
        PROVE  Clean(r)'
    <3>1. CASE RunTo(r, "failing")
      BY <1>2, <2>2, <3>1 DEF Clean
    <3>2. CASE RunTo(r, "publishing") /\ run[r].pc = "prefix" /\ run'[r].kept = Snapshot(j)
      <4>1. run'[r].kept.manifest = dir[j].manifest
        BY <3>2 DEF Snapshot
      <4> QED BY <1>2, <1>3, <1>5, <2>1, <2>4, <3>2, <4>1 DEF Clean, Silent, Frugal
    <3> QED BY <2>1, <3>1, <3>2
  <2> QED BY <1>2, <1>4, <1>5, <1>9, <2>1, <2>2, <2>3, <2>4
<1>17. CASE PublishCues(r)
  <2>1. /\ run[r].pc = "publishing" /\ UNCHANGED <<automatic, call, control>>
        /\ RunTo(r, "marking") /\ Shows(j, run[r].kept.manifest.status)
    BY <1>2, <1>17, PublishCuesStep
  <2>2. ~ Marker(j)' /\ \A k \in Jobs \ {j} : Alike(k)
    BY <1>4, <1>8, <2>1
  <2>3. Concludes(r)'
    BY <1>2, <1>4, <1>8, <2>1 DEF Concludes
  <2>4. ASSUME "resume" \in Commands
        PROVE  Clean(r)'
    BY <1>2, <1>3, <1>5, <1>8, <2>1, <2>4 DEF Clean, Frugal
  <2> QED BY <1>2, <1>4, <1>5, <1>9, <2>1, <2>2, <2>3, <2>4
<1>18. CASE MarkPublished(r)
  <2>1. /\ run[r].pc = "marking" /\ UNCHANGED <<automatic, call, control, row>>
        /\ RunTo(r, "translate") /\ dir'[j].manifest = dir[j].manifest
        /\ \A k \in Jobs \ {j} : dir'[k] = dir[k]
    BY <1>2, <1>18, MarkPublishedStep
  <2>2. \A k \in Jobs \ {j} : Alike(k)
    BY <2>1 DEF Alike
  <2>3. Concludes(r)'
    BY <1>2, <1>4, <2>1 DEF Concludes
  <2>4. ASSUME "resume" \in Commands
        PROVE  /\ Clean(r)'
               /\ dir'[j].manifest.status = "done" /\ row'[j].status # "failed"
    <3>1. row[j].status # "failed" /\ dir[j].manifest.status = "done"
      BY <1>2, <1>4, <1>5, <2>1, <2>4 DEF Clean, Concludes
    <3> QED BY <1>2, <1>3, <1>5, <2>1, <2>4, <3>1 DEF Clean, Frugal
  <2> QED BY <1>2, <1>4, <1>5, <1>9, <2>1, <2>2, <2>3, <2>4
<1>19. CASE Translate(r)
  <2>1. /\ run[r].pc = "translate" /\ UNCHANGED <<automatic, call, control>>
        /\ \/ run[r].auto /\ RunTo(r, "translating") /\ Marks(j, "translating")
           \/ ~ run[r].auto /\ RunTo(r, "ending") /\ Silent
    BY <1>1, <1>2, <1>19, TranslateStep
  <2>2. (Marker(j)' <=> Marker(j)) /\ \A k \in Jobs \ {j} : Alike(k)
    BY <1>6, <1>7, <2>1
  <2>3. Concludes(r)'
    BY <1>2, <1>4, <2>1 DEF Concludes, Silent, Terminal
  <2>4. ASSUME "resume" \in Commands
        PROVE  Clean(r)' /\ Silent /\ RunTo(r, "ending")
    BY <1>2, <1>5, <2>1, <2>4 DEF Clean
  <2> QED BY <1>2, <1>4, <1>5, <1>9, <2>1, <2>2, <2>3, <2>4 DEF Silent
<1>20. CASE TranslatePending(r)
  <2>1. /\ run[r].pc = "translating" /\ UNCHANGED <<automatic, call, control, dir>>
        /\ RunTo(r, "translated") /\ \A k \in Jobs \ {j} : row'[k] = row[k]
    BY <1>2, <1>20, TranslatePendingStep
  <2>2. (Marker(j)' <=> Marker(j)) /\ \A k \in Jobs \ {j} : Alike(k)
    BY <2>1 DEF Marker, Alike
  <2>3. Concludes(r)'
    BY <2>1 DEF Concludes
  <2>4. "resume" \notin Commands
    BY <1>5, <2>1
  <2> QED BY <1>2, <1>9, <2>1, <2>2, <2>3, <2>4
<1>21. CASE MarkDone(r) \/ FailManifest(r)
  <2>1. /\ UNCHANGED <<automatic, call, control>> /\ RunTo(r, "ending")
        /\ \/ run[r].pc = "translated" /\ Marks(j, "done")
           \/ run[r].pc = "failing" /\ Marks(j, "failed")
    BY <1>1, <1>2, <1>21, OutcomeStep
  <2>2. (Marker(j)' <=> Marker(j)) /\ \A k \in Jobs \ {j} : Alike(k)
    BY <1>7, <2>1
  <2>3. Concludes(r)'
    BY <1>2, <1>7, <2>1 DEF Concludes, Terminal
  <2>4. ASSUME "resume" \in Commands
        PROVE  Clean(r)' /\ ~ Marker(j)'
    BY <1>2, <1>5, <2>1, <2>2, <2>4 DEF Clean
  <2> QED BY <1>2, <1>5, <1>9, <2>1, <2>2, <2>3, <2>4
<1>22. CASE LoadFinal(r)
  <2>1. /\ run[r].pc = "ending" /\ Silent /\ UNCHANGED <<automatic, call, control>>
        /\ RunTo(r, "reporting") /\ run'[r].kept = Snapshot(j)
    BY <1>1, <1>2, <1>22, LoadFinalStep
  <2>2. run'[r].kept.manifest = dir[j].manifest
    BY <2>1 DEF Snapshot
  <2>3. Concludes(r)'
    BY <1>2, <1>4, <2>1, <2>2 DEF Concludes
  <2>4. ASSUME "resume" \in Commands
        PROVE  Clean(r)'
    <3>1. dir[j].manifest.status = "failed" => ~ Marker(j)'
      BY <1>5, <1>6, <2>1, <2>4
    <3> QED BY <1>2, <2>1, <2>2, <3>1 DEF Clean
  <2> QED BY <1>2, <1>5, <1>6, <1>9, <2>1, <2>3, <2>4 DEF Silent
<1>23. CASE SyncFinal(r)
  <2>1. /\ run[r].pc = "reporting" /\ UNCHANGED <<automatic, call, control>>
        /\ RunTo(r, "leaving") /\ Shows(j, run[r].kept.manifest.status)
    BY <1>2, <1>23, SyncFinalStep
  <2>2. Concludes(r)'
    BY <1>2, <1>4, <1>8, <2>1 DEF Concludes
  <2>3. ASSUME "resume" \in Commands
        PROVE  /\ Clean(r)'
               /\ Marker(j)' => dir'[j].manifest.status = "done" /\ row'[j].status # "failed"
    BY <1>2, <1>5, <1>8, <2>1, <2>3 DEF Clean
  <2> QED BY <1>2, <1>5, <1>8, <1>9, <2>1, <2>2, <2>3
<1>24. CASE ForgetAutomatic(r)
  <2>1. /\ run[r].pc = "leaving" /\ Silent /\ UNCHANGED <<call, control>> /\ RunTo(r, "closing")
    BY <1>24, ForgetAutomaticStep
  <2>2. Concludes(r)'
    BY <1>2, <1>4, <2>1 DEF Concludes, Silent
  <2>3. ASSUME "resume" \in Commands
        PROVE  Clean(r)'
    BY <1>2, <2>1 DEF Clean
  <2> QED BY <1>2, <1>5, <1>6, <1>9, <2>1, <2>2, <2>3 DEF Silent
<1> QED BY <1>10, <1>11, <1>12, <1>13, <1>14, <1>15, <1>16, <1>17, <1>18, <1>19, <1>20, <1>21, <1>22,
           <1>23, <1>24 DEF Execute

\* The end of a run: its task is settled.
LEMMA CloseServes ==
  ASSUME IInv, Serving, Undeleted', "delete" \notin Commands, NEW r \in Runs, Close(r)
  PROVE  Serving'
<1>1. run[r].pc = "closing" /\ deleted = {}
  BY CloseStep DEF Serving, Undeleted
<1>2. PICK j \in Jobs : run[r].job = j
  BY <1>1, RunAt
<1>3. /\ Silent /\ UNCHANGED <<automatic, up, poller>> /\ lock = None
      /\ run'[r].pc = "none" /\ run'[r].job = None /\ \A s \in Runs \ {r} : run'[s] = run[s]
      /\ ~ run'[r].auto
      /\ control' = [control EXCEPT ![j] = None] /\ call' = Released(j)
  <2>1. run' = [run EXCEPT ![r] = NoRun] /\ UNCHANGED <<up, poller>> /\ lock = None
    BY DEF Close
  <2>2. ~ run'[r].auto
    BY <2>1 DEF IInv, TypeOK, NoRun
  <2> QED BY <1>2, <2>1, <2>2, CloseStep
<1>4. /\ control'[j] = None /\ \A k \in Jobs \ {j} : control'[k] = control[k]
      /\ \A k \in Jobs : Alike(k)
      /\ \A d \in Callers : call'[d] = call[d] \/ (call[d].job = j /\ call'[d] = NoCall)
      /\ \A s \in Runs \ {r} : run[s].job # j
      /\ \A c \in Callers : call[c].job = j => ~ Submitting(c) /\ ~ Dispatching(c)
  BY <1>1, <1>2, <1>3, SilentStays, RunIsAlone DEF IInv, TypeOK, Released, StatusesStay
<1>5. NoCall.job = None /\ NoCall.pc = "none" /\ None \notin Jobs
  BY NoneAssumption DEF NoCall
<1>6. ASSUME NEW k \in Jobs \ {j}
      PROVE  Apart(k)
  BY <1>2, <1>3, <1>4, <1>5, <1>6 DEF Apart
<1>7. /\ Works(j) /\ (Marker(j)' <=> Marker(j))
      /\ row[j] # None /\ row[j].status \in Terminal
  BY <1>1, <1>2, <1>3 DEF Serving, Works, Concludes, Marker, Silent
<1>8. \A s \in Runs : run'[s].job # j
  BY <1>3, <1>4, <1>5
<1>9. \A c \in Callers : call'[c].job = j =>
        call'[c] = call[c] /\ ~ Dispatching(c)' /\ call[c].pc \notin {"pause_sync", "unhold"}
  <2> SUFFICES ASSUME NEW c \in Callers, call'[c].job = j
               PROVE  call'[c] = call[c] /\ ~ Dispatching(c)' /\ call[c].pc \notin {"pause_sync", "unhold"}
    OBVIOUS
  <2>1. call'[c] = call[c]
    BY <1>4, <1>5
  <2>2. call[c].pc \notin {"pause_sync", "unhold"}
    BY <1>3, NoneAssumption DEF IInv, CallShape
  <2> QED BY <1>4, <2>1, <2>2 DEF Dispatching
<1>10. Pending(j)' => Pending(j)
  BY <1>4, <1>8, <1>9 DEF Pending, Dispatched, Dispatching, Submitting
<1>11. Works(j)'
  BY <1>3, <1>4, <1>7, <1>8, <1>9, <1>10 DEF Works, Silent
<1>12. ASSUME "resume" \in Commands
       PROVE  OneCaller /\ Holding' /\ Manual' /\ Resumable(j)'
  <2>1. Holding'
    BY <1>12, ExecuteHolds DEF Serving, Execute
  <2>2. Manual'
    BY <1>3, <1>12 DEF Serving, Manual, Silent
  <2>3. \A c \in Callers : call'[c].job = j => Finds(c)'
    BY <1>3, <1>4, <1>8, <1>9, <1>12 DEF Serving, Resumable, Finds, Silent
  <2>4. Resumable(j)'
    BY <1>3, <1>4, <1>7, <1>8, <1>12, <2>3 DEF Serving, Resumable, Awaits, Silent
  <2> QED BY <1>12, <2>1, <2>2, <2>4 DEF Serving
<1>13. \A c \in Callers : call'[c].pc = call[c].pc \/ call'[c].pc = "none"
  BY <1>4, <1>5
<1>14. \A k \in Jobs : Works(k)' /\ ("resume" \in Commands => Resumable(k)')
  BY <1>6, <1>11, <1>12, ApartWorks, ApartResumable DEF Serving
<1> QED BY <1>12, <1>13, <1>14 DEF Serving, ResumePoints

\* The poller of a run.
LEMMA PollServes ==
  ASSUME IInv, Serving, Undeleted', "delete" \notin Commands, NEW r \in Runs, Poll(r)
  PROVE  Serving'
<1>1. run[r].pc # "none" /\ deleted = {} /\ Undeleted
  BY ExecuteOn DEF Serving, Undeleted
<1>2. PICK j \in Jobs : run[r].job = j
  BY ExecuteOn
<1>3. UNCHANGED <<run, call, control, automatic, up>>
  BY <1>1, PollerLoadsStep, PollerSyncsStep DEF Poll, PollerLoads, PollerSyncs
<1>4. \A s \in Runs \ {r} : poller'[s] = poller[s] /\ run[s].job # j
  BY <1>1, <1>2, RunIsAlone DEF Poll, PollerLoads, PollerSyncs, IInv, TypeOK
<1>5. "resume" \in Commands => OneCaller /\ Holding'
  BY ExecuteHolds DEF Serving
<1>6. CASE PollerLoads(r)
  <2>1. UNCHANGED <<dir, row>>
    BY <1>1, <1>6, PollerLoadsStep DEF Silent
  <2>2. \A k \in Jobs : Works(k)'
    BY <1>3, <2>1 DEF Serving, Works, Pending, Dispatched, Marker, Concludes, HasRun, Submitting, Dispatching
  <2>3. ASSUME "resume" \in Commands, NEW k \in Jobs
        PROVE  Resumable(k)'
    <3>1. Resumable(k)
      BY <2>3 DEF Serving
    <3>2. \A c \in Callers : call'[c].job = k => Finds(c)'
      BY <1>3, <2>1, <3>1 DEF Resumable, Finds
    <3>3. ASSUME NEW s \in Runs, run'[s].job = k
          PROVE  Clean(s)'
      <4>1. Clean(s)
        BY <1>3, <3>1, <3>3 DEF Resumable
      <4>2. poller'[s].seen = poller[s].seen \/ (s = r /\ poller'[s].seen = Snapshot(j))
        BY <1>2, <1>4, <1>6 DEF PollerLoads, IInv, TypeOK, PollerStates
      <4>3. Snapshot(j).manifest = dir[j].manifest
        BY DEF Snapshot
      <4> QED BY <1>2, <1>3, <2>1, <4>1, <4>2, <4>3 DEF Clean, Marker
    <3> QED BY <1>3, <2>1, <3>1, <3>2, <3>3 DEF Resumable, Awaits, Marker
  <2> QED BY <1>3, <1>5, <2>1, <2>2, <2>3 DEF Serving, Manual
<1>7. CASE PollerSyncs(r)
  <2>1. run[r].pc \in Working /\ Shows(j, poller[r].seen.manifest.status) /\ poller[r].seen # None
    BY <1>2, <1>7, PollerSyncsStep DEF PollerSyncs
  <2>2. poller'[r].seen = None
    BY <1>7 DEF PollerSyncs, IInv, TypeOK, PollerStates
  <2>3. ASSUME NEW k \in Jobs \ {j}
        PROVE  Apart(k)
    BY <1>2, <1>3, <1>4, <2>1, <2>3 DEF Apart, Alike, Shows
  <2>4. dir' = dir /\ row'[j] # None /\ row'[j].status = poller[r].seen.manifest.status /\ HasRun(j)'
    BY <1>2, <1>3, <2>1 DEF Shows, HasRun
  <2>5. \A s \in Runs : run[s].job = j => s = r
    BY <1>4
  <2>6. Works(j)'
    <3>1. Works(j) /\ Concludes(r)'
      BY <1>2, <1>3, <2>1, <2>4 DEF Serving, Works, Concludes, Working, Interruptible
    <3> QED BY <1>3, <2>4, <2>5, <3>1 DEF Works, Pending, Dispatched, Marker, Submitting, Dispatching
  <2>7. ASSUME "resume" \in Commands
        PROVE  Resumable(j)'
    <3>1. /\ Resumable(j) /\ Clean(r)
          /\ run[r].pc \in Unmarked => ~ Marker(j)
          /\ run[r].pc \in Going \cup {"unrecognized"}
          /\ run[r].pc \in Executing
      BY <1>2, <2>1, <2>7 DEF Serving, Manual, Resumable, Works, Pending, Working, Interruptible,
         Going, Executing
    <3>2. Marker(j) => row'[j].status # "failed"
      BY <2>1, <2>4, <3>1 DEF Clean, Unmarked
    <3>3. Clean(r)'
      BY <1>2, <1>3, <2>1, <2>2, <2>4, <3>1 DEF Clean, Marker
    <3>4. control[j].started
      BY <1>1, <1>2, <3>1 DEF IInv, Controlled
    <3>5. \A c \in Callers : call'[c].job = j => Finds(c)'
      BY <1>3, <2>4, <3>1 DEF Resumable, Finds
    <3> QED BY <1>3, <2>4, <2>5, <3>1, <3>2, <3>3, <3>4, <3>5 DEF Resumable, Awaits, Marker
  <2>8. \A k \in Jobs : Works(k)' /\ ("resume" \in Commands => Resumable(k)')
    BY <2>3, <2>6, <2>7, ApartWorks, ApartResumable DEF Serving
  <2> QED BY <1>3, <1>5, <2>4, <2>8 DEF Serving, Manual
<1> QED BY <1>6, <1>7 DEF Poll

-----------------------------------------------------------------------------
(* ... whatever the commands do *)

\* The run goes on as it is, perhaps notified.
SameRun(s) ==
  /\ run'[s].pc = run[s].pc /\ run'[s].job = run[s].job
  /\ run'[s].kept = run[s].kept /\ run'[s].auto = run[s].auto

\* A notified run is where it was.
LEMMA NotifiedSame ==
  ASSUME TypeOK, NEW j \in Jobs, run' = Notify(j, run)
  PROVE  \A s \in Runs : SameRun(s)
BY NotifyKeeps, NotifyAuto DEF SameRun

\* A command changes no run but the one it sends, no poller, and starts nothing.
LEMMA CallFrame ==
  ASSUME IInv, deleted = {}, NEW c \in Callers, ~ Send(c), Serve(c) \/ \E j \in Jobs : Issue(c, j)
  PROVE  UNCHANGED <<up, poller>> /\ \A s \in Runs : SameRun(s)
<1>1. CASE UNCHANGED <<up, poller, run>>
  BY <1>1 DEF SameRun
<1>2. CASE \E j \in Jobs : Pause(c, j)
  BY <1>2, NotifiedSame DEF Pause, IInv
<1>3. CASE Unhold(c)
  <2>1. call[c].job \in Jobs /\ Loadable(call[c].job)
    BY <1>3, CallFinds DEF Unhold
  <2> QED BY <1>3, <2>1, NotifiedSame DEF Unhold, IInv
<1>4. CASE Serve(c) /\ ~ Unhold(c)
  <2>1. UNCHANGED <<up, poller, run>>
    BY <1>4 DEF Serve, SubmitSync, SubmitPrepare, Enqueue, ReturnResumed, PauseSync, ResumeCheck,
       ResumeLock, Reserve, Requeue, RequeueSync, RefreshSync, RelinkRow, DeleteMove, DeleteRow
  <2> QED BY <1>1, <2>1
<1>5. ASSUME NEW j \in Jobs, Issue(c, j), ~ Pause(c, j)
      PROVE  UNCHANGED <<up, poller, run>>
  BY <1>5 DEF Issue, SubmitCreate, RetryCreate, Create, ResumeConfigure, RefreshLoad, RelinkManifest,
     DeleteCheck
<1> QED BY <1>1, <1>2, <1>3, <1>4, <1>5

\* Without automatic tasks no command configures a translation.
LEMMA CallManual ==
  ASSUME IInv, Undeleted, Undeleted', Manual, Automatic = {}, NEW c \in Callers,
         Serve(c) \/ \E j \in Jobs : Issue(c, j)
  PROVE  Manual'
<1>1. deleted = {} /\ TypeOK /\ dir \in [Jobs -> Directories]
  BY DEF Undeleted, IInv, TypeOK
<1>2. \A s \in Runs : ~ run'[s].auto /\ run'[s].pc \notin {"translating", "translated"}
  <2>1. CASE Send(c)
    <3> DEFINE resumed == call[c].kept \in Manifests
               input   == IF resumed THEN call[c].kept.input ELSE call[c].kept.manifest.input
               on      == [NoRun EXCEPT !.pc = "sent", !.job = call[c].job, !.input = input]
    <3>1. PICK r \in Runs : run[r] = NoRun /\ run' = [run EXCEPT ![r] = on]
      BY <2>1 DEF Send
    <3> HIDE DEF input
    <3>2. on.pc = "sent" /\ ~ on.auto
      BY DEF NoRun
    <3> HIDE DEF on
    <3>3. run'[r] = on /\ \A s \in Runs \ {r} : run'[s] = run[s]
      BY <3>1, RunStep
    <3> QED BY <3>2, <3>3 DEF Manual
  <2>2. CASE ~ Send(c)
    BY <1>1, <2>2, CallFrame DEF Manual, SameRun
  <2> QED BY <2>1, <2>2
<1>3. ASSUME \A k \in Jobs : dir'[k].files \subseteq dir[k].files \cup {"options", "workflow"}, automatic' \subseteq automatic
      PROVE  Manual'
  BY <1>2, <1>3 DEF Manual
<1>4. ASSUME NEW j \in Jobs, NEW m \in Manifests, WriteManifest(j, m)
      PROVE  \A k \in Jobs : dir'[k].files = dir[k].files
  BY <1>1, <1>4, WriteManifestKeeps
<1>5. ASSUME NEW j \in Jobs, NEW s \in Statuses, Loadable(j), WriteStatus(j, s)
      PROVE  \A k \in Jobs : dir'[k].files = dir[k].files
  BY <1>1, <1>5, WriteStatusKeeps
<1>6. CASE SubmitSync(c) \/ Send(c) \/ ReturnResumed(c) \/ PauseSync(c) \/ ResumeCheck(c) \/ Unhold(c)
           \/ Reserve(c) \/ RequeueSync(c) \/ RefreshSync(c) \/ RelinkRow(c)
  BY <1>3, <1>6 DEF SubmitSync, Send, ReturnResumed, PauseSync, ResumeCheck, Unhold, Reserve, RequeueSync,
     RefreshSync, RelinkRow
<1>7. CASE SubmitPrepare(c) \/ Enqueue(c)
  <2>1. call[c].job \in Jobs
    BY <1>7, CallAtKnows DEF SubmitPrepare, Enqueue
  <2>2. \A k \in Jobs : dir'[k].files \subseteq dir[k].files \cup {"options", "workflow"}
    BY <1>1, <1>7, <2>1 DEF SubmitPrepare, Enqueue, Directories
  <2> QED BY <1>3, <1>7, <2>2 DEF SubmitPrepare, Enqueue
<1>8. CASE ResumeLock(c)
  <2>1. call[c].job \in Jobs
    BY <1>8, CallAtKnows DEF ResumeLock
  <2> QED BY <1>3, <1>5, <1>8, <2>1 DEF ResumeLock, Statuses
<1>9. CASE Requeue(c)
  <2> DEFINE m == [call[c].kept EXCEPT !.status = "queued"]
  <2>1. call[c].job \in Jobs /\ m \in Manifests
    BY <1>9, CallAtKnows DEF Requeue, Manifests, Statuses
  <2> QED BY <1>3, <1>4, <1>9, <2>1 DEF Requeue
<1>10. CASE DeleteMove(c) \/ DeleteRow(c)
  BY <1>10 DEF Undeleted, DeleteMove, DeleteRow
<1>11. ASSUME NEW j \in Jobs, NEW input \in {"original", "relinked"}, Create(c, j, input)
       PROVE  Manual'
  <2>1. [status |-> "queued", input |-> input] \in Manifests
    BY DEF Manifests, Statuses
  <2> QED BY <1>3, <1>4, <1>11, <2>1 DEF Create
<1>12. ASSUME NEW j \in Jobs, SubmitCreate(c, j) \/ RetryCreate(c, j)
       PROVE  Manual'
  <2>1. CASE SubmitCreate(c, j)
    BY <1>11, <2>1 DEF SubmitCreate
  <2>2. CASE RetryCreate(c, j)
    <3>1. PICK k \in Jobs : Loadable(k) /\ Create(c, j, dir[k].manifest.input)
      BY <2>2 DEF RetryCreate
    <3>2. dir[k].manifest.input \in {"original", "relinked"}
      BY <1>1, <3>1 DEF Loadable, Directories, Manifests
    <3> QED BY <1>11, <3>1, <3>2
  <2> QED BY <1>12, <2>1, <2>2
<1>13. ASSUME NEW j \in Jobs, Pause(c, j)
       PROVE  Manual'
  BY <1>3, <1>5, <1>13 DEF Pause, Statuses
<1>14. ASSUME NEW j \in Jobs, ResumeConfigure(c, j) \/ RefreshLoad(c, j) \/ DeleteCheck(c, j)
       PROVE  Manual'
  BY <1>3, <1>14 DEF ResumeConfigure, RefreshLoad, DeleteCheck, Manual
<1>15. ASSUME NEW j \in Jobs, RelinkManifest(c, j)
       PROVE  Manual'
  <2>1. [dir[j].manifest EXCEPT !.input = "relinked"] \in Manifests
    BY <1>1, <1>15 DEF RelinkManifest, Loadable, Directories, Manifests
  <2> QED BY <1>3, <1>4, <1>15, <2>1 DEF RelinkManifest
<1> QED BY <1>6, <1>7, <1>8, <1>9, <1>10, <1>12, <1>13, <1>14, <1>15 DEF Serve, Issue

\* A control stays started or not; a new one is not.
Steady(j) ==
  \/ control'[j] = control[j]
  \/ /\ control'[j] # None
     /\ control[j] # None => control'[j].started = control[j].started
     /\ control[j] = None => ~ control'[j].started

\* No run of the task executes.
Idle(j) == \A s \in Runs : run[s].job = j => run[s].pc \notin Executing

\* A control that is not started has no run that executes, nor has a task without one.
LEMMA UnstartedIsIdle ==
  ASSUME IInv, deleted = {}, NEW j \in Jobs, control[j] = None \/ ~ control[j].started
  PROVE  Idle(j)
BY DEF IInv, Controlled, Idle

\* A command works for task j.  The task goes on being worked for if the command
\* dispatches it as long as it was about to, if a control comes with a dispatch,
\* and if a new status comes while no run executes and somebody works on.
LEMMA CallWorks ==
  ASSUME Serving, NEW c \in Callers, NEW j \in Jobs, up' => up,
         \A d \in Callers \ {c} : call'[d] = call[d],
         \A s \in Runs : SameRun(s),
         Marker(j)' => Marker(j), Alike(j) \/ Idle(j), Steady(j),
         control[j] = None /\ control'[j] # None => call'[c].job = j /\ Dispatching(c)',
         call[c].job = j /\ (Submitting(c) \/ Dispatching(c)) =>
           call'[c].job = j /\ (Submitting(c)' \/ Dispatching(c)'),
         call[c].job = j /\ Dispatching(c) => Dispatching(c)',
         call'[c].job = j =>
           /\ Submitting(c)' \/ Dispatching(c)' \/ call'[c].pc \in {"resume_lock", "reserve"} => ~ Marker(j)
           /\ Dispatching(c)' \/ call'[c].pc \in {"pause_sync", "unhold"} => ~ control'[j].started,
         \/ Alike(j)
         \/ control[j] # None
         \/ call'[c].job = j /\ (Submitting(c)' \/ Dispatching(c)')
  PROVE  Works(j)'
<1>1. Works(j) /\ (HasRun(j)' <=> HasRun(j))
  BY DEF Serving, SameRun, HasRun
<1>2. \A d \in Callers \ {c} :
        call'[d] = call[d] /\ (Submitting(d)' <=> Submitting(d)) /\ (Dispatching(d)' <=> Dispatching(d))
  BY DEF Submitting, Dispatching
<1>3. Dispatched(j) => Dispatched(j)'
  BY <1>2 DEF Dispatched
<1>4. ASSUME Marker(j), Pending(j)'
      PROVE  FALSE
  <2>1. ~ Pending(j)
    BY <1>1, <1>4 DEF Works
  <2>2. ~ Dispatched(j)'
    <3>1. ~ Dispatched(j)
      BY <2>1 DEF Pending
    <3> QED BY <1>2, <1>4, <3>1 DEF Dispatched
  <2>3. ~ (control'[j] # None /\ ~ control'[j].started)
    BY <1>4, <2>1, <2>2 DEF Pending, Steady, Dispatched
  <2>4. \A d \in Callers : call'[d].job = j => call'[d].pc \notin {"resume_lock", "reserve"}
    BY <1>2, <1>4, <2>1 DEF Pending
  <2>5. \A s \in Runs : run'[s].job = j => run'[s].pc \notin Unmarked
    BY <2>1 DEF Pending, SameRun
  <2> QED BY <1>4, <2>2, <2>3, <2>4, <2>5 DEF Pending
<1>5. ASSUME NEW s \in Runs, run'[s].job = j
      PROVE  Concludes(s)'
  <2>1. Concludes(s) /\ SameRun(s) /\ run[s].job = j
    BY <1>1, <1>5 DEF Works, SameRun
  <2>2. CASE Alike(j)
    BY <2>1, <2>2 DEF Concludes, SameRun, Alike
  <2>3. CASE Idle(j)
    BY <2>1, <2>3 DEF Concludes, SameRun, Idle, Executing, Interruptible
  <2> QED BY <2>2, <2>3
<1>6. ASSUME NEW d \in Callers, call'[d].job = j,
             call'[d].pc \in {"pause_sync", "unhold"} \/ Dispatching(d)'
      PROVE  ~ control'[j].started
  <2>1. CASE d = c
    BY <1>6, <2>1
  <2>2. CASE d # c
    <3>1. ~ control[j].started
      BY <1>1, <1>2, <1>6, <2>2 DEF Works
    <3> QED BY <3>1 DEF Steady
  <2> QED BY <2>1, <2>2
<1>7. ASSUME NEW s \in Runs, run'[s].job = j, run'[s].pc \in Before
      PROVE  ~ control'[j].started
  <2>1. ~ control[j].started
    BY <1>1, <1>7 DEF Works, SameRun
  <2> QED BY <2>1 DEF Steady
<1>8. ASSUME control[j] # None
      PROVE  HasRun(j)' \/ \E d \in Callers : call'[d].job = j /\ Dispatching(d)'
  <2>1. HasRun(j) \/ \E d \in Callers : call[d].job = j /\ Dispatching(d)
    BY <1>1, <1>8 DEF Works
  <2> QED BY <1>1, <1>2, <2>1
<1>9. control'[j] # None => HasRun(j)' \/ \E d \in Callers : call'[d].job = j /\ Dispatching(d)'
  BY <1>8
<1>10. up' /\ row'[j] # None /\ row'[j].status \notin Terminal => HasRun(j)' \/ Dispatched(j)'
  <2>1. CASE Alike(j)
    BY <1>1, <1>3, <2>1 DEF Works, Alike
  <2>2. CASE control[j] # None
    BY <1>8, <2>2 DEF Dispatched
  <2>3. CASE call'[c].job = j /\ (Submitting(c)' \/ Dispatching(c)')
    BY <2>3 DEF Dispatched
  <2> QED BY <2>1, <2>2, <2>3
<1> QED BY <1>4, <1>5, <1>6, <1>7, <1>9, <1>10 DEF Works

\* It stays resumable if the command is the only one, leaves it alone or works
\* while no run executes, and finds what its next point says.
LEMMA CallResumes ==
  ASSUME Serving, "resume" \in Commands, NEW c \in Callers, NEW j \in Jobs,
         \A s \in Runs : SameRun(s), UNCHANGED poller,
         Marker(j)' => Marker(j),
         \/ Alike(j)
         \/ /\ Idle(j)
            /\ Marker(j) => dir'[j].manifest.status = "done" /\ (row'[j] # None => row'[j].status # "failed"),
         Awaits(j)' => row'[j].status # "failed" /\ dir'[j].manifest.status # "failed",
         call'[c].job = j => Finds(c)'
  PROVE  Resumable(j)'
<1>1. Resumable(j) /\ \A d \in Callers : d = c
  BY DEF Serving, OneCaller
<1>2. Marker(j)' => dir'[j].manifest.status = "done" /\ (row'[j] # None => row'[j].status # "failed")
  BY <1>1 DEF Resumable, Alike
<1>3. ASSUME NEW s \in Runs, run'[s].job = j
      PROVE  Clean(s)'
  <2>1. Clean(s) /\ SameRun(s) /\ run[s].job = j
    BY <1>1, <1>3 DEF Resumable, SameRun
  <2>2. CASE Alike(j)
    BY <2>1, <2>2 DEF Clean, SameRun, Alike
  <2>3. CASE Idle(j)
    BY <2>1, <2>3 DEF Clean, SameRun, Idle, Executing, Interruptible, Going
  <2> QED BY <2>2, <2>3
<1> QED BY <1>1, <1>2, <1>3 DEF Resumable

\* So the tasks go on being worked for, this one and the others.
LEMMA CallServes ==
  ASSUME IInv, Serving, Undeleted', "delete" \notin Commands, "resume" \in Commands => Automatic = {},
         NEW c \in Callers, NEW j \in Jobs, Serve(c) \/ Issue(c, j), ~ Send(c),
         call[c].job \in {j, None}, call'[c].job \in {j, None},
         \A d \in Callers \ {c} : call'[d] = call[d],
         \A k \in Jobs \ {j} : Alike(k) /\ control'[k] = control[k],
         call'[c].pc # "refresh_sync",
         Works(j)',
         IF "resume" \in Commands THEN Resumable(j)' ELSE call'[c].pc \notin ResumePoints
  PROVE  Serving'
<1>1. Undeleted /\ deleted = {}
  BY DEF Serving, Undeleted
<1>2. UNCHANGED <<up, poller>> /\ \A s \in Runs : SameRun(s)
  BY <1>1, CallFrame
<1>3. ASSUME NEW k \in Jobs \ {j}
      PROVE  Apart(k)
  <2>1. call[c].job # k /\ call'[c].job # k
    BY NoneAssumption
  <2> QED BY <1>2, <2>1 DEF Apart, SameRun
<1>4. \A k \in Jobs : Works(k)' /\ ("resume" \in Commands => Resumable(k)')
  BY <1>3, ApartWorks, ApartResumable DEF Serving
<1>5. ASSUME "resume" \in Commands
      PROVE  OneCaller /\ Holding' /\ Manual'
  BY <1>1, <1>5, ServeHolds, IssueHolds, CallManual DEF Serving
<1>6. \A d \in Callers : call'[d].pc # "refresh_sync"
  BY DEF Serving
<1>7. "resume" \notin Commands => \A d \in Callers : call'[d].pc \notin ResumePoints
  BY DEF Serving
<1> QED BY <1>4, <1>5, <1>6, <1>7 DEF Serving

\* Both at once: the tasks go on being worked for if the command leaves its own
\* task to be dispatched, writes while no run executes, and finds what it relies on.
LEMMA CommandServes ==
  ASSUME IInv, Serving, Undeleted', "delete" \notin Commands, "resume" \in Commands => Automatic = {},
         NEW c \in Callers, NEW j \in Jobs, Serve(c) \/ Issue(c, j), ~ Send(c),
         call[c].job \in {j, None}, call'[c].job \in {j, None}, call'[c].pc # "refresh_sync",
         \A d \in Callers \ {c} : call'[d] = call[d],
         \A k \in Jobs \ {j} : Alike(k) /\ control'[k] = control[k],
         Marker(j)' => Marker(j), Alike(j) \/ Idle(j), Steady(j),
         control[j] = None /\ control'[j] # None => call'[c].job = j /\ Dispatching(c)',
         call[c].job = j /\ (Submitting(c) \/ Dispatching(c)) =>
           call'[c].job = j /\ (Submitting(c)' \/ Dispatching(c)'),
         call[c].job = j /\ Dispatching(c) => Dispatching(c)',
         call'[c].job = j =>
           /\ Submitting(c)' \/ Dispatching(c)' \/ call'[c].pc \in {"resume_lock", "reserve"} => ~ Marker(j)
           /\ Dispatching(c)' \/ call'[c].pc \in {"pause_sync", "unhold"} => ~ control'[j].started,
         Alike(j) \/ control[j] # None \/ (call'[c].job = j /\ (Submitting(c)' \/ Dispatching(c)')),
         "resume" \notin Commands => call'[c].pc \notin ResumePoints,
         "resume" \in Commands =>
           /\ \/ Alike(j)
              \/ Marker(j) => dir'[j].manifest.status = "done" /\ (row'[j] # None => row'[j].status # "failed")
           /\ Awaits(j)' => row'[j].status # "failed" /\ dir'[j].manifest.status # "failed"
           /\ call'[c].job = j => Finds(c)'
  PROVE  Serving'
<1>1. Undeleted /\ deleted = {}
  BY DEF Serving, Undeleted
<1>2. UNCHANGED <<up, poller>> /\ \A s \in Runs : SameRun(s)
  BY <1>1, CallFrame
<1>3. Works(j)'
  BY <1>2, CallWorks
<1>4. ASSUME "resume" \in Commands
      PROVE  Resumable(j)'
  BY <1>2, <1>4, CallResumes
<1> QED BY <1>3, <1>4, CallServes

\* A command that was not to dispatch its task returns.
LEMMA ReturnServes ==
  ASSUME IInv, Serving, Undeleted', "delete" \notin Commands, "resume" \in Commands => Automatic = {},
         NEW c \in Callers, Serve(c), ~ Send(c), call[c].pc # "none",
         CallOver(c), StatusesStay, UNCHANGED control, ~ Submitting(c), ~ Dispatching(c)
  PROVE  Serving'
<1>1. deleted = {}
  BY DEF Serving, Undeleted
<1>2. PICK j \in Jobs : call[c].job = j
  BY <1>1, CallFinds
<1>3. /\ \A d \in Callers \ {c} : call'[d] = call[d]
      /\ call'[c].pc = "none" /\ call'[c].job = None /\ None \notin Jobs
  BY NoneAssumption DEF CallOver
<1>4. /\ \A k \in Jobs : Alike(k) /\ control'[k] = control[k]
      /\ Marker(j)' <=> Marker(j)
  BY DEF StatusesStay, Alike, Marker
<1>5. ASSUME "resume" \in Commands, Awaits(j)'
      PROVE  row'[j].status # "failed" /\ dir'[j].manifest.status # "failed"
  <2>1. \A d \in Callers : call[d].pc \in {"requeue", "requeue_sync"} => d # c
    BY DEF Dispatching
  <2>2. Awaits(j)
    BY <1>3, <1>4, <1>5, <2>1 DEF Awaits
  <2> QED BY <1>4, <1>5, <2>2 DEF Serving, Resumable, Alike
<1>6. Steady(j)
  BY <1>4 DEF Steady
<1> QED BY <1>2, <1>3, <1>4, <1>5, <1>6, CommandServes DEF ResumePoints

\* A task that is sent gets a run, which has not begun; its control is there.
LEMMA SendServes ==
  ASSUME IInv, Serving, Undeleted', "delete" \notin Commands, "resume" \in Commands => Automatic = {},
         NEW c \in Callers, Send(c)
  PROVE  Serving'
<1>1. Undeleted /\ deleted = {}
  BY DEF Serving, Undeleted
<1>2. /\ call[c].pc = "send" /\ Silent /\ UNCHANGED <<control, poller>>
      /\ CallTo(c, "sent") \/ CallOver(c)
  BY SendStep
<1>3. PICK j \in Jobs : call[c].job = j
  BY <1>1, <1>2, CallFinds
<1>4. PICK r \in Runs :
        /\ \A s \in Runs \ {r} : run'[s] = run[s]
        /\ run[r].job = None /\ run'[r].pc = "sent" /\ run'[r].job = j
  BY <1>3, SendStep
<1>5. /\ \A d \in Callers \ {c} : call'[d] = call[d]
      /\ call'[c].pc \in {"sent", "none"} /\ call'[c].job \in {j, None} /\ None \notin Jobs
  BY <1>2, <1>3, NoneAssumption DEF CallTo, CallOver
<1>6. Dispatching(c) /\ ~ Dispatching(c)' /\ ~ Submitting(c)'
  BY <1>2, <1>5 DEF Dispatching, Submitting
<1>7. Works(j) /\ ~ Marker(j) /\ control[j] # None /\ ~ control[j].started
  BY <1>1, <1>3, <1>6 DEF Serving, Works, Pending, Dispatched, IInv, Controlled
<1>8. UNCHANGED up
  BY DEF Send
<1>9. \A k \in Jobs : Alike(k)
  BY <1>2 DEF Silent, Alike
<1>10. ASSUME NEW k \in Jobs \ {j}
       PROVE  Apart(k)
  <2>1. \A s \in Runs : run[s].job = k \/ run'[s].job = k => run'[s] = run[s]
    BY <1>4, <1>5
  <2>2. \A d \in Callers : call[d].job = k \/ call'[d].job = k => call'[d] = call[d]
    BY <1>3, <1>5
  <2> QED BY <1>2, <1>8, <1>9, <2>1, <2>2 DEF Apart
<1>11. Works(j)'
  <2>1. ~ Marker(j)'
    BY <1>2, <1>7 DEF Silent, Marker
  <2>2. ASSUME NEW s \in Runs, run'[s].job = j
        PROVE  Concludes(s)'
    <3>1. CASE s = r
      BY <1>4, <3>1 DEF Concludes
    <3>2. CASE s # r
      BY <1>2, <1>4, <1>7, <2>2, <3>2 DEF Works, Concludes, Silent
    <3> QED BY <3>1, <3>2
  <2>3. HasRun(j)'
    BY <1>4 DEF HasRun
  <2> QED BY <1>2, <1>7, <2>1, <2>2, <2>3 DEF Works
<1>12. ASSUME "resume" \in Commands
       PROVE  OneCaller /\ Holding' /\ Manual' /\ Resumable(j)'
  <2>1. OneCaller /\ Holding /\ Manual /\ Resumable(j)
    BY <1>12 DEF Serving
  <2>2. Serve(c)
    BY DEF Serve
  <2>3. Holding' /\ Manual'
    BY <1>1, <1>12, <2>1, <2>2, ServeHolds, CallManual
  <2>4. ~ Marker(j)'
    BY <1>2, <1>7 DEF Silent, Marker
  <2>5. ASSUME Awaits(j)'
        PROVE  row'[j].status # "failed" /\ dir'[j].manifest.status # "failed"
    <3>1. Awaits(j)
      BY <1>2, <1>5, <2>5 DEF Awaits
    <3> QED BY <1>2, <2>1, <3>1 DEF Resumable, Silent
  <2>6. ASSUME NEW s \in Runs, run'[s].job = j
        PROVE  Clean(s)'
    <3>1. CASE s = r
      BY <1>4, <3>1 DEF Clean, Going
    <3>2. CASE s # r
      <4>1. Clean(s) /\ run'[s] = run[s]
        BY <1>4, <2>1, <2>6, <3>2 DEF Resumable
      <4> QED BY <1>2, <4>1 DEF Clean, Silent, Marker
    <3> QED BY <3>1, <3>2
  <2>7. \A d \in Callers : call'[d].job = j => Finds(d)'
    BY <1>5, <2>1 DEF OneCaller, Finds
  <2> QED BY <2>1, <2>3, <2>4, <2>5, <2>6, <2>7 DEF Resumable
<1>13. \A k \in Jobs : Works(k)' /\ ("resume" \in Commands => Resumable(k)')
  BY <1>10, <1>11, <1>12, ApartWorks, ApartResumable DEF Serving
<1>14. /\ \A d \in Callers : call'[d].pc # "refresh_sync"
       /\ "resume" \notin Commands => \A d \in Callers : call'[d].pc \notin ResumePoints
  BY <1>5 DEF Serving, ResumePoints
<1> QED BY <1>12, <1>13, <1>14 DEF Serving

\* The steps of a command.
LEMMA ServeServes ==
  ASSUME IInv, Serving, Undeleted', "delete" \notin Commands, "resume" \in Commands => Automatic = {},
         NEW c \in Callers, Serve(c)
  PROVE  Serving'
<1>1. call[c].pc # "none" /\ Undeleted /\ deleted = {}
  BY DEF Serving, Undeleted, Serve, SubmitSync, SubmitPrepare, Enqueue, Send, ReturnResumed, PauseSync,
     ResumeCheck, ResumeLock, Unhold, Reserve, Requeue, RequeueSync, RefreshSync, RelinkRow,
     DeleteMove, DeleteRow
<1>2. PICK j \in Jobs : call[c].job = j
  BY <1>1, CallFinds
<1>3. Works(j) /\ Loadable(j) /\ Fits(call[c]) /\ None \notin Jobs /\ dir[j].manifest # None
  BY <1>1, <1>2, CallFinds, NoneAssumption DEF Serving, Loadable
<1>4. ASSUME "resume" \in Commands
      PROVE  /\ Resumable(j) /\ Finds(c) /\ (\A d \in Callers : d = c)
             /\ call[c].pc # "submit_sync" => row[j] # None
  BY <1>1, <1>2, <1>4 DEF Serving, Resumable, OneCaller, Holding, RowsThere
<1>5. "resume" \notin Commands => call[c].pc \notin ResumePoints
  BY DEF Serving
<1>6. ASSUME NEW s, Marks(j, s)
      PROVE  /\ \A k \in Jobs \ {j} : Alike(k)
             /\ (Marker(j)' => Marker(j)) /\ row' = row /\ dir'[j].manifest.status = s
  BY <1>6 DEF Marks, Alike, Marker
<1>7. ASSUME NEW s, Shows(j, s)
      PROVE  /\ \A k \in Jobs \ {j} : Alike(k)
             /\ (Marker(j)' => Marker(j)) /\ dir' = dir /\ row'[j] # None /\ row'[j].status = s
  BY <1>7 DEF Shows, Alike, Marker
<1>8. ASSUME StatusesStay
      PROVE  (\A k \in Jobs : Alike(k)) /\ (Marker(j)' => Marker(j))
  BY <1>8 DEF StatusesStay, Alike, Marker
<1>9. ASSUME NEW p, CallTo(c, p)
      PROVE  /\ \A d \in Callers \ {c} : call'[d] = call[d]
             /\ call'[c].pc = p /\ call'[c].job = j /\ call'[c].kept = call[c].kept
  BY <1>2, <1>9 DEF CallTo
<1>10. ASSUME CallOver(c)
       PROVE  /\ \A d \in Callers \ {c} : call'[d] = call[d]
              /\ call'[c].pc = "none" /\ call'[c].job = None
              /\ ~ Submitting(c)' /\ ~ Dispatching(c)'
  BY <1>10 DEF CallOver, Submitting, Dispatching
<1>11. ASSUME UNCHANGED control
       PROVE  Steady(j) /\ \A k \in Jobs : control'[k] = control[k]
  BY <1>11 DEF Steady
<1>12. ASSUME control[j] = None, control' = [control EXCEPT ![j] = NewControl]
       PROVE  /\ Steady(j) /\ ~ control'[j].started /\ ~ control'[j].paused
              /\ \A k \in Jobs \ {j} : control'[k] = control[k]
  <2>1. NewControl \in Controls /\ ~ NewControl.started /\ ~ NewControl.paused
    BY DEF NewControl, Controls
  <2>2. control'[j] = NewControl /\ \A k \in Jobs \ {j} : control'[k] = control[k]
    BY <1>12 DEF IInv, TypeOK
  <2> QED BY <1>12, <2>1, <2>2, NoneAssumption DEF Steady
<1>13. ASSUME Submitting(c)
       PROVE  control[j] = None /\ TaskQuiet(j) /\ ~ Marker(j) /\ Idle(j)
  <2>1. control[j] = None /\ TaskQuiet(j)
    BY <1>2, <1>13 DEF IInv, SubmissionIsQuiet, Quiet
  <2>2. ~ Marker(j)
    BY <1>2, <1>3, <1>13 DEF Works, Pending, Dispatched
  <2> QED BY <1>1, <2>1, <2>2, UnstartedIsIdle
<1>14. ASSUME Dispatching(c)
       PROVE  control[j] # None /\ ~ control[j].started /\ ~ Marker(j) /\ Idle(j)
  <2>1. control[j] # None /\ ~ control[j].started
    BY <1>1, <1>2, <1>3, <1>14 DEF Works, IInv, Controlled
  <2>2. ~ Marker(j)
    BY <1>2, <1>3, <1>14 DEF Works, Pending, Dispatched
  <2> QED BY <1>1, <2>1, <2>2, UnstartedIsIdle
<1>15. ASSUME call[c].pc \in {"pause_sync", "unhold"}
       PROVE  control[j] # None /\ ~ control[j].started /\ ~ Marker(j) /\ Idle(j)
  <2>1. control[j] # None /\ ~ control[j].started
    BY <1>2, <1>3, <1>15 DEF Works, IInv, CallShape
  <2>2. ~ Marker(j)
    BY <1>3, <2>1 DEF Works, Pending
  <2> QED BY <1>1, <2>1, <2>2, UnstartedIsIdle
<1>16. CASE SubmitSync(c)
  <2>1. /\ call[c].pc = "submit_sync" /\ CallTo(c, "submit_prepare") /\ Shows(j, "queued") /\ UNCHANGED control
    BY <1>2, <1>16, SubmitSyncStep
  <2>2. Submitting(c) /\ ~ Dispatching(c) /\ Submitting(c)' /\ ~ Dispatching(c)'
    BY <1>9, <2>1 DEF Submitting, Dispatching
  <2>3. ~ Awaits(j)' /\ Finds(c)'
    BY <1>9, <1>13, <2>1, <2>2 DEF Awaits, Finds
  <2>4. ~ Send(c)
    BY <2>1 DEF Send
  <2> QED BY <1>2, <1>7, <1>9, <1>11, <1>13, <2>1, <2>2, <2>3, <2>4, CommandServes DEF ResumePoints
<1>17. CASE SubmitPrepare(c)
  <2>1. /\ call[c].pc = "submit_prepare" /\ CallTo(c, "enqueue") /\ StatusesStay /\ UNCHANGED control
    BY <1>17, SubmitPrepareStep
  <2>2. Submitting(c) /\ ~ Dispatching(c) /\ Submitting(c)'
    BY <1>3, <1>9, <2>1 DEF Submitting, Dispatching
  <2>3. ~ Dispatching(c)'
    <3>1. call[c].kept \in Snapshots /\ call[c].kept.manifest.status = "queued"
      BY <1>2, <1>3, <2>1, <2>2 DEF IInv, SubmissionIsQuiet, Quiet
    <3>2. call[c].kept \notin Manifests
      BY <3>1 DEF Snapshots, Manifests
    <3> QED BY <1>9, <2>1, <3>2 DEF Dispatching
  <2>4. ~ Awaits(j)' /\ Finds(c)'
    BY <1>9, <1>13, <2>1, <2>2 DEF Awaits, Finds
  <2>5. ~ Send(c)
    BY <2>1 DEF Send
  <2> QED BY <1>2, <1>8, <1>9, <1>11, <1>13, <2>1, <2>2, <2>3, <2>4, <2>5, CommandServes DEF ResumePoints
<1>18. CASE Enqueue(c)
  <2>1. /\ call[c].pc = "enqueue" /\ CallTo(c, "send") /\ StatusesStay
        /\ control' = [control EXCEPT ![j] = IF @ = None THEN NewControl ELSE @]
    BY <1>2, <1>18, EnqueueStep
  <2>2. Dispatching(c)' /\ Finds(c)' /\ ~ Send(c)
    BY <1>9, <2>1 DEF Dispatching, Finds, Send
  <2>3. Submitting(c) \/ Dispatching(c)
    BY <1>3, <2>1 DEF Submitting, Dispatching
  <2>4. CASE control[j] = None
    <3>1. control' = [control EXCEPT ![j] = NewControl]
      BY <2>1, <2>4
    <3>2. Submitting(c)
      BY <1>14, <2>3, <2>4
    <3>3. "resume" \in Commands => row'[j].status # "failed" /\ dir'[j].manifest.status # "failed"
      BY <1>3, <1>4, <1>8, <1>13, <2>1, <3>2 DEF Alike
    <3> QED BY <1>2, <1>8, <1>9, <1>12, <1>13, <2>1, <2>2, <2>4, <3>1, <3>2, <3>3, CommandServes DEF ResumePoints
  <2>5. CASE control[j] # None
    <3>1. control'[j] = control[j] /\ Steady(j) /\ \A k \in Jobs \ {j} : control'[k] = control[k]
      BY <2>1, <2>5 DEF Steady, IInv, TypeOK
    <3>2. Dispatching(c)
      BY <1>13, <2>3, <2>5
    <3>3. ASSUME "resume" \in Commands, Awaits(j)'
          PROVE  row'[j].status # "failed" /\ dir'[j].manifest.status # "failed"
      <4>1. Awaits(j)
        BY <1>4, <2>1, <3>1, <3>3 DEF Awaits
      <4> QED BY <1>4, <1>8, <2>1, <3>3, <4>1 DEF Resumable, Alike
    <3> QED BY <1>2, <1>8, <1>9, <1>14, <2>1, <2>2, <2>5, <3>1, <3>2, <3>3, CommandServes DEF ResumePoints
  <2> QED BY <2>4, <2>5
<1>19. CASE Send(c)
  BY <1>19, SendServes
<1>20. CASE ReturnResumed(c) \/ RelinkRow(c)
  <2>1. /\ call[c].pc \in {"sent", "relink_row"} /\ StatusesStay /\ UNCHANGED control /\ CallOver(c)
    BY <1>1, <1>20, SilentStays, ReturnResumedStep, RelinkRowStep
  <2>2. ~ Submitting(c) /\ ~ Dispatching(c) /\ ~ Send(c)
    BY <2>1 DEF Submitting, Dispatching, Send
  <2> QED BY <1>1, <2>1, <2>2, ReturnServes
<1>21. CASE PauseSync(c)
  <2>1. /\ call[c].pc = "pause_sync" /\ CallOver(c) /\ Shows(j, dir[j].manifest.status) /\ UNCHANGED control
    BY <1>1, <1>2, <1>21, PauseSyncStep
  <2>2. ~ Submitting(c) /\ ~ Dispatching(c) /\ ~ Send(c)
    BY <2>1 DEF Submitting, Dispatching, Send
  <2>3. "resume" \in Commands => ~ Awaits(j)'
    BY <1>2, <1>4, <2>1 DEF Finds, Awaits
  <2> QED BY <1>2, <1>3, <1>7, <1>10, <1>11, <1>15, <2>1, <2>2, <2>3, CommandServes DEF ResumePoints
<1>22. CASE ResumeCheck(c)
  <2>1. /\ call[c].pc = "resume_check" /\ Silent /\ UNCHANGED <<control, run>>
        /\ \/ CallOver(c)
           \/ CallTo(c, "resume_lock") /\ row[j] # None /\ row[j].status = "failed"
    BY <1>2, <1>22, ResumeCheckStep
  <2>2. ~ Submitting(c) /\ ~ Dispatching(c) /\ ~ Send(c) /\ "resume" \in Commands
    BY <1>5, <2>1 DEF Submitting, Dispatching, Send, ResumePoints
  <2>3. CASE CallOver(c)
    BY <1>1, <2>1, <2>2, <2>3, SilentStays, ReturnServes
  <2>4. CASE CallTo(c, "resume_lock") /\ row[j] # None /\ row[j].status = "failed"
    <3>1. ~ Marker(j)
      BY <1>4, <2>2, <2>4 DEF Resumable
    <3>2. ~ Awaits(j)
      BY <1>4, <2>2, <2>4 DEF Resumable
    <3>3. \A d \in Callers : call[d].job = j => call[d].pc \notin {"requeue", "requeue_sync"}
      BY <1>4, <2>1, <2>2
    <3>4. control[j] # None /\ ~ control[j].started => control[j].paused
      BY <3>2, <3>3 DEF Awaits
    <3>5. ~ Awaits(j)'
      BY <2>1, <3>4 DEF Awaits
    <3>6. \A s \in Runs : run'[s].job = j => run'[s].pc \notin Going
      BY <1>4, <2>1, <2>2, <2>4 DEF Resumable, Clean
    <3>7. Finds(c)'
      BY <1>9, <2>1, <2>4, <3>4, <3>6 DEF Finds
    <3>8. ~ Submitting(c)' /\ ~ Dispatching(c)'
      BY <1>9, <2>4 DEF Submitting, Dispatching
    <3> QED BY <1>2, <1>8, <1>9, <1>11, <2>1, <2>2, <2>4, <3>1, <3>5, <3>7, <3>8, SilentStays, CommandServes
  <2> QED BY <2>1, <2>3, <2>4
<1>23. CASE ResumeLock(c)
  <2>1. /\ call[c].pc = "resume_lock" /\ UNCHANGED <<control, run, row>>
        /\ \/ /\ control[j] # None /\ control[j].paused /\ ~ control[j].started
              /\ Marks(j, "queued") /\ CallTo(c, "unhold")
           \/ Silent /\ CallOver(c)
           \/ /\ Silent /\ control[j] = None
              /\ \A d \in Callers \ {c} : call'[d] = call[d]
              /\ call'[c].pc = "reserve" /\ call'[c].job = j
    BY <1>1, <1>2, <1>23, ResumeLockStep
  <2>2. ~ Submitting(c) /\ ~ Dispatching(c) /\ ~ Send(c) /\ "resume" \in Commands /\ ~ Marker(j)
    BY <1>2, <1>3, <1>5, <2>1 DEF Submitting, Dispatching, Send, ResumePoints, Works, Pending
  <2>3. CASE /\ control[j] # None /\ control[j].paused /\ ~ control[j].started
             /\ Marks(j, "queued") /\ CallTo(c, "unhold")
    <3>1. Idle(j)
      BY <1>1, <2>3, UnstartedIsIdle
    <3>2. Finds(c)' /\ ~ Awaits(j)'
      BY <1>6, <1>9, <2>1, <2>3 DEF Finds, Awaits
    <3>3. ~ Submitting(c)' /\ ~ Dispatching(c)'
      BY <1>9, <2>3 DEF Submitting, Dispatching
    <3> QED BY <1>2, <1>6, <1>9, <1>11, <2>1, <2>2, <2>3, <3>1, <3>2, <3>3, CommandServes
  <2>4. CASE Silent /\ CallOver(c)
    BY <1>1, <2>1, <2>2, <2>4, SilentStays, ReturnServes
  <2>5. CASE /\ Silent /\ control[j] = None
             /\ \A d \in Callers \ {c} : call'[d] = call[d]
             /\ call'[c].pc = "reserve" /\ call'[c].job = j
    <3>1. Finds(c)' /\ ~ Awaits(j)'
      BY <2>1, <2>5 DEF Finds, Awaits
    <3>2. ~ Submitting(c)' /\ ~ Dispatching(c)'
      BY <2>5 DEF Submitting, Dispatching
    <3> QED BY <1>2, <1>8, <1>11, <2>1, <2>2, <2>5, <3>1, <3>2, SilentStays, CommandServes
  <2> QED BY <2>1, <2>3, <2>4, <2>5
<1>24. CASE Unhold(c)
  <2>1. /\ call[c].pc = "unhold" /\ CallOver(c) /\ Shows(j, dir[j].manifest.status)
        /\ control' = [control EXCEPT ![j].paused = FALSE]
    BY <1>1, <1>2, <1>24, UnholdStep
  <2>2. ~ Submitting(c) /\ ~ Dispatching(c) /\ ~ Send(c) /\ "resume" \in Commands
    BY <1>5, <2>1 DEF Submitting, Dispatching, Send, ResumePoints
  <2>3. dir[j].manifest.status # "failed"
    BY <1>2, <1>4, <2>1, <2>2 DEF Finds
  <2>4. Steady(j) /\ \A k \in Jobs \ {j} : control'[k] = control[k]
    <3> DEFINE new == [control[j] EXCEPT !.paused = FALSE]
    <3>1. control[j] # None /\ control[j] \in Controls
      BY <1>15, <2>1 DEF IInv, TypeOK
    <3>2. new \in Controls /\ new.started = control[j].started
      BY <3>1 DEF Controls
    <3>3. new # None
      BY <3>2, NoneAssumption
    <3>4. control' = [control EXCEPT ![j] = new]
      BY <2>1 DEF IInv, TypeOK
    <3> HIDE DEF new
    <3> QED BY <3>1, <3>2, <3>3, <3>4 DEF IInv, TypeOK, Steady
  <2> QED BY <1>2, <1>3, <1>7, <1>10, <1>15, <2>1, <2>2, <2>3, <2>4, CommandServes
<1>25. CASE Reserve(c)
  <2>1. /\ call[c].pc = "reserve" /\ Silent
        /\ \/ CallOver(c) /\ UNCHANGED control
           \/ CallTo(c, "requeue") /\ control[j] = None /\ control' = [control EXCEPT ![j] = NewControl]
    BY <1>2, <1>25, ReserveStep
  <2>2. ~ Submitting(c) /\ ~ Dispatching(c) /\ ~ Send(c) /\ "resume" \in Commands /\ ~ Marker(j)
    BY <1>2, <1>3, <1>5, <2>1 DEF Submitting, Dispatching, Send, ResumePoints, Works, Pending
  <2>3. CASE CallOver(c) /\ UNCHANGED control
    BY <1>1, <2>1, <2>2, <2>3, SilentStays, ReturnServes
  <2>4. CASE CallTo(c, "requeue") /\ control[j] = None /\ control' = [control EXCEPT ![j] = NewControl]
    <3>1. Dispatching(c)' /\ Finds(c)' /\ ~ Awaits(j)'
      BY <1>9, <2>4 DEF Dispatching, Finds, Awaits
    <3> QED BY <1>2, <1>8, <1>9, <1>12, <2>1, <2>2, <2>4, <3>1, SilentStays, CommandServes
  <2> QED BY <2>1, <2>3, <2>4
<1>26. CASE Requeue(c)
  <2>1. /\ call[c].pc = "requeue" /\ CallTo(c, "requeue_sync") /\ Marks(j, "queued") /\ UNCHANGED control
    BY <1>2, <1>26, RequeueStep
  <2>2. Dispatching(c) /\ ~ Send(c) /\ "resume" \in Commands
    BY <1>5, <2>1 DEF Dispatching, Send, ResumePoints
  <2>3. Dispatching(c)' /\ Finds(c)' /\ ~ Awaits(j)'
    BY <1>6, <1>9, <2>1 DEF Dispatching, Finds, Awaits
  <2> QED BY <1>2, <1>6, <1>9, <1>11, <1>14, <2>1, <2>2, <2>3, CommandServes
<1>27. CASE RequeueSync(c)
  <2>1. /\ call[c].pc = "requeue_sync" /\ CallTo(c, "enqueue") /\ Shows(j, dir[j].manifest.status)
        /\ UNCHANGED control
    BY <1>1, <1>2, <1>27, RequeueSyncStep
  <2>2. Dispatching(c) /\ ~ Send(c) /\ "resume" \in Commands
    BY <1>5, <2>1 DEF Dispatching, Send, ResumePoints
  <2>3. dir[j].manifest.status # "failed"
    BY <1>2, <1>4, <2>1, <2>2 DEF Finds
  <2>4. Dispatching(c)' /\ Finds(c)'
    BY <1>3, <1>9, <2>1 DEF Dispatching, Finds
  <2> QED BY <1>2, <1>3, <1>7, <1>9, <1>11, <1>14, <2>1, <2>2, <2>3, <2>4, CommandServes
<1>28. CASE RefreshSync(c) \/ DeleteMove(c) \/ DeleteRow(c)
  BY <1>28 DEF Serving, Undeleted, RefreshSync, DeleteMove, DeleteRow
<1> QED BY <1>16, <1>17, <1>18, <1>19, <1>20, <1>21, <1>22, <1>23, <1>24, <1>25, <1>26, <1>27, <1>28 DEF Serve

\* The steps that issue a command.
LEMMA IssueServes ==
  ASSUME IInv, Serving, Undeleted', Commands \cap {"delete", "refresh"} = {},
         "resume" \in Commands => Automatic = {},
         NEW c \in Callers, NEW j \in Jobs, Issue(c, j)
  PROVE  Serving'
<1>1. /\ call[c].pc = "none" /\ call[c].job = None /\ deleted = {} /\ None \notin Jobs
      /\ "delete" \notin Commands /\ "refresh" \notin Commands
  <2>1. call[c] = NoCall
    BY DEF Issue, SubmitCreate, RetryCreate, Pause, ResumeConfigure, RefreshLoad, RelinkManifest,
       DeleteCheck, Issues
  <2> QED BY <2>1, NoneAssumption DEF NoCall, Serving, Undeleted
<1>2. Works(j) /\ ~ Submitting(c) /\ ~ Dispatching(c) /\ ~ Send(c)
  BY <1>1 DEF Serving, Submitting, Dispatching, Send
<1>3. ASSUME NEW p \in {"submit_sync", "await_stop", "pause_sync", "resume_check", "relink_row"}, CallBegins(c, p, j)
      PROVE  /\ \A d \in Callers \ {c} : call'[d] = call[d]
             /\ call'[c].pc = p /\ call'[c].job = j /\ ~ Dispatching(c)'
             /\ Submitting(c)' <=> p = "submit_sync"
  BY <1>3 DEF CallBegins, Submitting, Dispatching
<1>4. ASSUME NEW s, Marks(j, s)
      PROVE  /\ \A k \in Jobs \ {j} : Alike(k)
             /\ (Marker(j)' => Marker(j)) /\ row' = row /\ dir'[j].manifest.status = s
  BY <1>4 DEF Marks, Alike, Marker
<1>5. ASSUME StatusesStay
      PROVE  (\A k \in Jobs : Alike(k)) /\ (Marker(j)' => Marker(j))
  BY <1>5 DEF StatusesStay, Alike, Marker
<1>6. ASSUME UNCHANGED control
      PROVE  Steady(j) /\ \A k \in Jobs : control'[k] = control[k]
  BY <1>6 DEF Steady
<1>7. CASE SubmitCreate(c, j) \/ RetryCreate(c, j)
  <2>1. /\ j \notin submitted /\ CallBegins(c, "submit_sync", j) /\ Marks(j, "queued") /\ UNCHANGED control
    BY <1>7, CreateStep
  <2>2. control[j] = None /\ ~ Marker(j)
    BY <2>1 DEF IInv, Untouched, Absent, Marker
  <2>3. Idle(j)
    BY <1>1, <2>2, UnstartedIsIdle
  <2>4. ~ Awaits(j)' /\ Finds(c)'
    BY <1>3, <2>1, <2>2 DEF Awaits, Finds
  <2> QED BY <1>1, <1>2, <1>3, <1>4, <1>6, <2>1, <2>2, <2>3, <2>4, CommandServes DEF ResumePoints
<1>8. CASE Pause(c, j)
  <2>1. control[j] # None /\ row' = row /\ control' = [control EXCEPT ![j].paused = TRUE]
    BY <1>8, PauseStep
  <2>2. /\ control'[j] # None /\ control'[j].paused /\ control'[j].started = control[j].started
        /\ \A k \in Jobs \ {j} : control'[k] = control[k]
    <3> DEFINE new == [control[j] EXCEPT !.paused = TRUE]
    <3>1. control[j] \in Controls
      BY <2>1 DEF IInv, TypeOK
    <3>2. new \in Controls /\ new.paused /\ new.started = control[j].started
      BY <3>1 DEF Controls
    <3>3. new # None
      BY <3>2, NoneAssumption
    <3>4. control' = [control EXCEPT ![j] = new]
      BY <2>1 DEF IInv, TypeOK
    <3> HIDE DEF new
    <3> QED BY <3>2, <3>3, <3>4 DEF IInv, TypeOK
  <2>3. Steady(j) /\ ~ Awaits(j)'
    BY <2>1, <2>2 DEF Steady, Awaits
  <2>4. CASE control[j].started /\ Silent /\ CallBegins(c, "await_stop", j)
    <3>1. Finds(c)'
      BY <1>3, <2>4 DEF Finds
    <3> QED BY <1>1, <1>2, <1>3, <1>5, <2>1, <2>2, <2>3, <2>4, <3>1, SilentStays, CommandServes DEF ResumePoints
  <2>5. CASE Silent /\ UNCHANGED call
    BY <1>1, <1>2, <1>5, <2>1, <2>2, <2>3, <2>5, SilentStays, CommandServes DEF ResumePoints
  <2>6. CASE ~ control[j].started /\ Marks(j, "failed") /\ CallBegins(c, "pause_sync", j)
    <3>1. Idle(j) /\ ~ Marker(j)
      BY <1>1, <1>2, <2>1, <2>6, UnstartedIsIdle DEF Works, Pending
    <3>2. Finds(c)'
      BY <1>3, <2>2, <2>6 DEF Finds
    <3> QED BY <1>1, <1>2, <1>3, <1>4, <2>1, <2>2, <2>3, <2>6, <3>1, <3>2, CommandServes DEF ResumePoints
  <2> QED BY <1>8, <2>4, <2>5, <2>6, PauseStep
<1>9. CASE ResumeConfigure(c, j) \/ RelinkManifest(c, j)
  <2>1. /\ StatusesStay /\ UNCHANGED control
        /\ \/ CallBegins(c, "resume_check", j) /\ "resume" \in Commands
           \/ CallBegins(c, "relink_row", j)
    <3>1. CASE ResumeConfigure(c, j)
      <4>1. call'[c].pc = "resume_check" /\ "resume" \in Commands
        BY <3>1 DEF ResumeConfigure, Issues, IInv, TypeOK
      <4> QED BY <3>1, <4>1, BeginsStep DEF CallBegins
    <3>2. CASE RelinkManifest(c, j)
      <4>1. call'[c].pc = "relink_row"
        BY <3>2 DEF RelinkManifest, IInv, TypeOK
      <4> QED BY <3>2, <4>1, BeginsStep DEF CallBegins
    <3> QED BY <1>9, <3>1, <3>2
  <2>2. /\ \A d \in Callers \ {c} : call'[d] = call[d]
        /\ call'[c].pc \in {"resume_check", "relink_row"} /\ call'[c].job = j
        /\ ~ Submitting(c)' /\ ~ Dispatching(c)'
        /\ call'[c].pc = "relink_row" \/ "resume" \in Commands
    BY <1>3, <2>1
  <2>3. ASSUME "resume" \in Commands, Awaits(j)'
        PROVE  row'[j].status # "failed" /\ dir'[j].manifest.status # "failed"
    <3>1. \A d \in Callers : call[d].job = j => d # c
      BY <1>1
    <3>2. Awaits(j)
      BY <2>1, <2>2, <2>3, <3>1 DEF Awaits
    <3> QED BY <1>5, <2>1, <2>3, <3>2 DEF Serving, Resumable, Alike
  <2>4. Finds(c)'
    BY <2>2 DEF Finds
  <2> QED BY <1>1, <1>2, <1>5, <1>6, <2>1, <2>2, <2>3, <2>4, CommandServes DEF ResumePoints
<1>10. CASE RefreshLoad(c, j) \/ DeleteCheck(c, j)
  BY <1>1, <1>10 DEF RefreshLoad, DeleteCheck, Issues
<1> QED BY <1>7, <1>8, <1>9, <1>10 DEF Issue

\* The recovery of a task touches no other, and no files.
LEMMA RecoverFrame ==
  ASSUME IInv, NEW k \in Jobs, Recover(k)
  PROVE  /\ dir'[k].files = dir[k].files
         /\ \A j \in Jobs \ {k} : dir'[j] = dir[j] /\ row'[j] = row[j]
<1>1. dir'[k].files = dir[k].files /\ \A j \in Jobs \ {k} : dir'[j] = dir[j]
  <2>1. CASE UNCHANGED dir
    BY <2>1
  <2>2. CASE dir' = [dir EXCEPT ![k].manifest.status = "failed"]
    BY <2>2 DEF IInv, TypeOK, Directories
  <2> QED BY <2>1, <2>2 DEF Recover
<1>2. \E new : row' = [row EXCEPT ![k] = new]
  BY DEF Recover, SyncRow, IInv, TypeOK
<1>3. PICK new : row' = [row EXCEPT ![k] = new]
  BY <1>2
<1> QED BY <1>1, <1>3 DEF IInv, TypeOK

\* Nobody works for a task while the application is down, and nobody is needed:
\* the recovery settles what is listed, and leaves a published task as it is.
LEMMA DownServes ==
  ASSUME IInv, Serving, Undeleted', "delete" \notin Commands, Crash \/ Ready \/ \E j \in Jobs : Recover(j)
  PROVE  Serving'
<1>1. (\A c \in Callers : call'[c] = NoCall) \/ UNCHANGED call
  BY DEF Crash, Ready, Recover
<1>2. /\ \A r \in Runs : run'[r].pc = "none"
      /\ \A c \in Callers : call'[c].pc = "none"
      /\ \A j \in Jobs : \A r \in Runs : run'[r].job # j
      /\ \A j \in Jobs : \A c \in Callers : call'[c].job # j
  <2>1. CASE Crash
    BY <2>1, NoneAssumption DEF Crash, NoRun, NoCall
  <2>2. CASE Ready \/ \E j \in Jobs : Recover(j)
    <3>1. UNCHANGED <<run, call>> /\ ~ up
      BY <2>2 DEF Ready, Recover
    <3>2. \A r \in Runs : run[r].pc = "none" /\ run[r].job = None
      BY <3>1 DEF IInv, DownIsIdle, RunShape, Shaped
    <3>3. \A c \in Callers : call[c].pc = "none" /\ call[c].job = None
      BY <3>1 DEF IInv, DownIsIdle, CallShape
    <3> QED BY <3>1, <3>2, <3>3, NoneAssumption
  <2> QED BY <2>1, <2>2
<1>3. \A j \in Jobs : control'[j] = None
  <2>1. CASE Crash
    BY <2>1 DEF Crash
  <2>2. CASE Ready \/ \E j \in Jobs : Recover(j)
    <3>1. UNCHANGED <<run, call, control>> /\ ~ up
      BY <2>2 DEF Ready, Recover
    <3>2. ASSUME NEW j \in Jobs
          PROVE  control[j] = None
      BY <1>2, <3>1 DEF Serving, Works, HasRun
    <3> QED BY <3>1, <3>2
  <2> QED BY <2>1, <2>2
<1>4. ASSUME NEW j \in Jobs
      PROVE  Works(j)'
  <2>1. up' => row'[j] = None \/ row'[j].status \in Terminal
    BY DEF Crash, Ready, Recover, Unsettled, IInv, TypeOK
  <2>2. ~ Dispatched(j)' /\ ~ Pending(j)'
    BY <1>2, <1>3 DEF Dispatched, Pending
  <2> QED BY <1>2, <1>3, <2>1, <2>2 DEF Works
<1>5. ASSUME "resume" \in Commands
      PROVE  OneCaller /\ Holding' /\ Manual' /\ \A j \in Jobs : Resumable(j)'
  <2>1. OneCaller /\ Holding /\ Manual
    BY <1>5 DEF Serving
  <2>2. Holding'
    BY <2>1, DownHolds
  <2>3. /\ \A j \in Jobs : dir'[j].files = dir[j].files
        /\ automatic' \subseteq automatic /\ \A r \in Runs : run'[r] = run[r] \/ ~ run'[r].auto
    <3>1. CASE Crash \/ Ready
      BY <3>1 DEF Crash, Ready, NoRun
    <3>2. ASSUME NEW k \in Jobs, Recover(k)
          PROVE  UNCHANGED <<automatic, run>> /\ \A j \in Jobs : dir'[j].files = dir[j].files
      BY <3>2, RecoverFrame DEF Recover
    <3> QED BY <3>1, <3>2
  <2>4. Manual'
    BY <1>2, <2>1, <2>3 DEF Manual
  <2>5. ASSUME NEW j \in Jobs
        PROVE  Resumable(j)'
    <3>1. Resumable(j)
      BY <1>5 DEF Serving
    <3>2. ~ Awaits(j)'
      BY <1>3 DEF Awaits
    <3>3. ASSUME Marker(j)
          PROVE  dir'[j].manifest.status = "done" /\ (row'[j] # None => row'[j].status # "failed")
      <4>1. dir[j].manifest.status = "done" /\ (row[j] # None => row[j].status # "failed")
        BY <3>1, <3>3 DEF Resumable
      <4>2. CASE Crash \/ Ready
        BY <4>1, <4>2 DEF Crash, Ready
      <4>3. ASSUME NEW k \in Jobs, Recover(k)
            PROVE  dir'[j].manifest.status = "done" /\ (row'[j] # None => row'[j].status # "failed")
        <5>1. CASE j # k
          BY <4>1, <4>3, <5>1, RecoverFrame
        <5>2. CASE j = k
          <6>1. row[j] # None /\ row[j].status \notin Terminal
            BY <4>3, <5>2 DEF Recover, Unsettled
          <6>2. Loadable(j)
            BY <6>1 DEF IInv, Untouched, Kept, Serving, Undeleted, Loadable
          <6>3. SyncRow(j, Snapshot(j)) /\ UNCHANGED dir
            BY <4>1, <4>3, <5>2, <6>2 DEF Recover, Terminal
          <6>4. Shows(j, dir[j].manifest.status)
            BY <6>2, <6>3, SnapshotType, SnapshotShows DEF Snapshot, IInv
          <6> QED BY <4>1, <6>4 DEF Shows
        <5> QED BY <5>1, <5>2
      <4> QED BY <4>2, <4>3
    <3> QED BY <1>2, <2>3, <3>2, <3>3 DEF Resumable, Marker
  <2> QED BY <2>1, <2>2, <2>4, <2>5
<1> QED BY <1>2, <1>4, <1>5 DEF Serving, ResumePoints

\* Nobody has been asked to do anything at first.
LEMMA InitServes ==
  ASSUME Init, "resume" \in Commands => OneCaller /\ Automatic = {}
  PROVE  Serving
<1>1. /\ \A r \in Runs : run[r].pc = "none" /\ run[r].job = None /\ ~ run[r].auto
      /\ \A c \in Callers : call[c].pc = "none" /\ call[c].job = None
      /\ \A j \in Jobs : control[j] = None /\ row[j] = None /\ dir[j].files = {}
      /\ deleted = {} /\ automatic = {} /\ None \notin Jobs
  BY NoneAssumption DEF Init, NoRun, NoCall, Absent
<1>2. Undeleted /\ Holding /\ Manual
  BY <1>1 DEF Undeleted, Holding, RowsThere, DownForgets, Rests, Held, Manual
<1>3. ASSUME NEW j \in Jobs
      PROVE  Works(j) /\ Resumable(j)
  BY <1>1 DEF Works, Resumable, Pending, Dispatched, Marker, Awaits
<1> QED BY <1>1, <1>2, <1>3 DEF Serving, ResumePoints

\* Somebody works for a listed task, step by step.
LEMMA NextServes ==
  ASSUME IInv, Serving, [Next]_vars, Commands \cap {"delete", "refresh"} = {},
         "resume" \in Commands => Automatic = {}
  PROVE  Serving'
<1>1. Undeleted' /\ "delete" \notin Commands
  BY NextUndeleted DEF Serving
<1>2. CASE UNCHANGED vars
  <2>1. \A j \in Jobs : Apart(j)
    BY <1>2 DEF vars, Apart, Alike
  <2>2. \A j \in Jobs : Works(j)' /\ ("resume" \in Commands => Resumable(j)')
    BY <2>1, ApartWorks, ApartResumable DEF Serving
  <2>3. "resume" \in Commands => OneCaller /\ Holding' /\ Manual'
    BY <1>1, <1>2, NextHolds DEF vars, Serving, Manual
  <2> QED BY <1>1, <1>2, <2>2, <2>3 DEF vars, Serving
<1>3. ASSUME NEW r \in Runs,
             \/ Execute(r) \/ Acquire(r) \/ Withdraw(r) \/ StopOnPause(r) \/ NextStage(r)
             \/ RecognitionFails(r) \/ WorkFails(r) \/ Poll(r)
      PROVE  Serving'
  BY <1>1, <1>3, ExecuteServes, CloseServes, PollServes
<1> QED BY <1>1, <1>2, <1>3, ServeServes, IssueServes, DownServes DEF Next

\* A task listed as queued or in progress has a run or a command that works for
\* it, so that its row will change: pauses, retries, failures and crashes between
\* any two writes included, and early stops.  Without resumes it holds for any
\* callers; with them the commands come one after the other and no task is
\* translated automatically.  A resume of an automatic task, a refresh and a
\* deletion can each leave a row in progress that nobody works for.
THEOREM Served ==
  ASSUME "delete" \notin Commands, "refresh" \notin Commands,
         "resume" \in Commands => (\A c, d \in Callers : c = d) /\ Automatic = {}
  PROVE  Spec => []ListedIsServed
<1>1. Init => Serving
  BY InitServes DEF OneCaller
<1>2. IInv /\ Serving /\ [Next]_vars => Serving'
  BY NextServes
<1>3. Serving => ListedIsServed
  BY DEF Serving, Works, ListedIsServed, Dispatched, Busy
<1> QED BY <1>1, <1>2, <1>3, Invariance, PTL DEF Spec
=============================================================================
