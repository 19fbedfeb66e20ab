---------------------------- MODULE CandidateRuns ----------------------------
(***************************************************************************)
(* Re-recognition candidates of one task: local_retranscription_service.rs *)
(* over the run records of asr_run_store.rs and the rows of asr_runs.rs.   *)
(* Candidates wait for one recognition lock; reopening, comparing,         *)
(* adopting and releasing share one artifact lock.  The files of a run are *)
(* a set of names.                                                         *)
(***************************************************************************)
EXTENDS Naturals, FiniteSets

CONSTANTS
    None,
    Runs,          \* candidates the user may ask for
    RangeOf,       \* of each candidate: the checkpoint root its range and options hash to
    Remote,        \* the candidates of a cloud provider, which keep no checkpoints
    MaxRevisions,  \* bound: revisions of the workspace
    MaxTroubles    \* bound: crashes and errors

VARIABLES
    row,           \* status of the run in local_asr_runs, "none" when there is no row
    record,        \* status in run.json
    kept,          \* the other files of a run
    compared,      \* the revisions its preview and its comparisons were made at
    checkpoints,   \* the roots under candidate-checkpoints
    adoptions,     \* local_asr_candidate_adoptions
    worker,        \* where preview_with_provider is
    asked,         \* of each run: the workspace revision read when it was asked for
    recogniser,    \* who holds recognition_lock: a run, "release" or None
    gate,          \* who holds artifact_lock: [by, run]
    channel,       \* the entry of the cancellations map: [run, cancelled] or None
    revision,      \* the workspace revision
    troubles

candidateVars == <<row, record, kept, compared, checkpoints, adoptions, worker, asked,
                   recogniser, gate, channel, revision, troubles>>
stored == <<row, record, kept, compared, checkpoints, adoptions>>

Open == [by |-> "nobody", run |-> None]

CandidateInit ==
    /\ row = [c \in Runs |-> "none"] /\ record = [c \in Runs |-> "none"]
    /\ kept = [c \in Runs |-> {}] /\ compared = [c \in Runs |-> {}]
    /\ checkpoints = {} /\ adoptions = {}
    /\ worker = [c \in Runs |-> "idle"] /\ asked = [c \in Runs |-> 0]
    /\ recogniser = None /\ gate = Open /\ channel = None
    /\ revision = 0 /\ troubles = MaxTroubles

Step(c, pc) == worker' = [worker EXCEPT ![c] = pc]
Keep(c, names) == kept' = [kept EXCEPT ![c] = @ \cup names]
Status(c, s) == row' = [row EXCEPT ![c] = s] /\ record' = [record EXCEPT ![c] = s]

\* The cues and the revision are read, the run gets its directory and its row,
\* and the call waits for the lock.
Preview(c) ==
    /\ row[c] = "none"
    /\ Status(c, "queued") /\ Keep(c, {"candidate.json"})
    /\ asked' = [asked EXCEPT ![c] = revision]
    /\ Step(c, "waiting")
    /\ UNCHANGED <<compared, checkpoints, adoptions, recogniser, gate, channel, revision,
                   troubles>>

TakeRecogniser(c) ==
    /\ worker[c] = "waiting" /\ recogniser = None
    /\ recogniser' = c
    /\ Status(c, "running") /\ Keep(c, {"progress.json"})
    /\ channel' = [run |-> c, cancelled |-> FALSE]
    /\ Step(c, "recognising")
    /\ UNCHANGED <<compared, checkpoints, adoptions, asked, gate, revision, troubles>>

\* A local candidate opens, or finds again, the checkpoints of its range.  The root and
\* the file that names it are one step here: a crash between them leaves an empty root.
OpenCheckpoints(c) ==
    /\ worker[c] = "recognising" /\ c \notin Remote /\ "checkpoint-root.json" \notin kept[c]
    /\ Keep(c, {"checkpoint-root.json"})
    /\ checkpoints' = checkpoints \cup {RangeOf[c]}
    /\ UNCHANGED <<row, record, compared, adoptions, worker, asked, recogniser, gate,
                   channel, revision, troubles>>

Heard(c) ==
    /\ worker[c] = "recognising"
    /\ c \in Remote \/ "checkpoint-root.json" \in kept[c]
    \* a cloud answer is dropped after a cancellation; a local one may have won the select
    /\ c \in Remote => ~channel.cancelled
    /\ channel' = None
    /\ Step(c, "heard")
    /\ UNCHANGED <<stored, asked, recogniser, gate, revision, troubles>>

WriteCues(c) ==
    /\ worker[c] = "heard"
    /\ Keep(c, {"candidate-cues.json"})
    /\ Step(c, "written")
    /\ UNCHANGED <<row, record, compared, checkpoints, adoptions, asked, recogniser, gate,
                   channel, revision, troubles>>

SucceedRecord(c) ==
    /\ worker[c] = "written"
    /\ record' = [record EXCEPT ![c] = "succeeded"]
    /\ Step(c, "recorded")
    /\ UNCHANGED <<row, kept, compared, checkpoints, adoptions, asked, recogniser, gate,
                   channel, revision, troubles>>

SucceedRow(c) ==
    /\ worker[c] = "recorded"
    /\ row' = [row EXCEPT ![c] = "succeeded"]
    /\ Step(c, "previewing")
    /\ UNCHANGED <<record, kept, compared, checkpoints, adoptions, asked, recogniser, gate,
                   channel, revision, troubles>>

WritePreview(c) ==
    /\ worker[c] = "previewing"
    /\ Keep(c, {"preview.json"})
    /\ compared' = [compared EXCEPT ![c] = @ \cup {asked[c]}]
    /\ Step(c, "idle") /\ recogniser' = None
    /\ UNCHANGED <<row, record, checkpoints, adoptions, asked, gate, channel, revision,
                   troubles>>

\* The recognition or the completion fails, or the cancellation is seen.  A record or
\* a row that cannot be written is ignored: the row of a run may stay running.
CandidateFails(c) ==
    /\ worker[c] \in {"recognising", "heard", "written", "recorded"}
    /\ \E written \in SUBSET {"record", "row"} :
         /\ IF channel # None /\ channel.run = c /\ channel.cancelled /\ Cardinality(written) = 2
            THEN UNCHANGED troubles
            ELSE troubles > 0 /\ troubles' = troubles - 1
         /\ record' = [record EXCEPT ![c] = IF "record" \in written THEN "failed" ELSE @]
         /\ row' = [row EXCEPT ![c] = IF "row" \in written THEN "failed" ELSE @]
    /\ Step(c, "idle") /\ recogniser' = None /\ channel' = None
    /\ UNCHANGED <<kept, compared, checkpoints, adoptions, asked, gate, revision>>

\* An error returned by ? before or after the recognition: nothing records it, and
\* the sender stays in the map when it was there.
Abandons(c) ==
    /\ worker[c] \in {"waiting", "recognising", "previewing"} /\ troubles > 0
    /\ troubles' = troubles - 1
    /\ Step(c, "idle")
    /\ recogniser' = IF recogniser = c THEN None ELSE recogniser
    /\ UNCHANGED <<stored, asked, gate, channel, revision>>

Cancel ==
    /\ channel # None
    /\ channel' = [channel EXCEPT !.cancelled = TRUE]
    /\ UNCHANGED <<stored, worker, asked, recogniser, gate, revision, troubles>>

(***************************************************************************)
(* Reopening, comparing and adopting, under the artifact lock.             *)
(***************************************************************************)
\* Mutant of Readable: cues are enough, whatever became of their run.
ReadableByCues(c) ==
    /\ "released.json" \notin kept[c]
    /\ {"preview.json", "candidate-cues.json"} \cap kept[c] # {}

\* read_preview: a released candidate is refused, and one without a preview must
\* have succeeded by its record.
Readable(c) ==
    /\ "released.json" \notin kept[c]
    /\ \/ "preview.json" \in kept[c]
       \/ record[c] = "succeeded" /\ "candidate-cues.json" \in kept[c]

\* reopen writes the missing preview at the current revision; refresh_comparison
\* also writes a comparison.
Compare(c) ==
    /\ gate = Open /\ Readable(c)
    /\ \E refresh \in BOOLEAN :
         /\ Keep(c, {"preview.json"} \cup IF refresh THEN {"comparisons"} ELSE {})
         /\ compared' = [compared EXCEPT ![c] =
               @ \cup IF refresh \/ "preview.json" \notin kept[c] THEN {revision} ELSE {}]
    /\ UNCHANGED <<row, record, checkpoints, adoptions, worker, asked, recogniser, gate,
                   channel, revision, troubles>>

\* prepare_adoption, and the transaction that replaces the cues when the workspace
\* still has the revision of the comparison.
Adopt(c) ==
    /\ gate = Open /\ Readable(c) /\ "candidate-cues.json" \in kept[c]
    /\ revision \in compared[c] /\ revision < MaxRevisions
    /\ revision' = revision + 1
    /\ adoptions' = adoptions \cup {c}
    /\ gate' = [by |-> "adoption", run |-> c]
    /\ UNCHANGED <<row, record, kept, compared, checkpoints, worker, asked, recogniser,
                   channel, troubles>>

\* finish_adoption_marks, whose failure is only a warning.
FinishMarks ==
    /\ gate.by = "adoption"
    /\ \/ Keep(gate.run, {"adopted.json"}) /\ UNCHANGED troubles
       \/ troubles > 0 /\ troubles' = troubles - 1 /\ UNCHANGED kept
    /\ gate' = Open
    /\ UNCHANGED <<row, record, compared, checkpoints, adoptions, worker, asked, recogniser,
                   channel, revision>>

EditWorkspace ==
    /\ revision < MaxRevisions
    /\ revision' = revision + 1
    /\ UNCHANGED <<stored, worker, asked, recogniser, gate, channel, troubles>>

(***************************************************************************)
(* Release.                                                                *)
(***************************************************************************)
Releasable(c) ==
    /\ recogniser = None /\ gate = Open
    /\ \A d \in Runs : row[d] \notin {"queued", "running"}
    /\ row[c] # "none"
    /\ c \notin adoptions /\ "adopted.json" \notin kept[c]

\* Mutant of Release: the tombstone is left out.
ReleaseUnmarked(c) ==
    /\ Releasable(c)
    /\ recogniser' = "release" /\ gate' = [by |-> "release", run |-> c]
    /\ UNCHANGED <<stored, worker, asked, channel, revision, troubles>>

\* The checks of release_candidate and the tombstone, before anything is removed.
Release(c) ==
    /\ Releasable(c)
    /\ recogniser' = "release" /\ gate' = [by |-> "release", run |-> c]
    /\ Keep(c, {"released.json"})
    /\ UNCHANGED <<row, record, compared, checkpoints, adoptions, worker, asked, channel,
                   revision, troubles>>

\* Another candidate that is not released names the same root.
SharedRoot(c) ==
    \E d \in Runs \ {c} :
        /\ row[d] # "none" /\ RangeOf[d] = RangeOf[c]
        /\ "checkpoint-root.json" \in kept[d] /\ "released.json" \notin kept[d]

DropRoot ==
    /\ gate.by = "release"
    /\ "checkpoint-root.json" \in kept[gate.run] /\ RangeOf[gate.run] \in checkpoints
    /\ ~SharedRoot(gate.run)
    /\ checkpoints' = checkpoints \ {RangeOf[gate.run]}
    /\ UNCHANGED <<row, record, kept, compared, adoptions, worker, asked, recogniser, gate,
                   channel, revision, troubles>>

RootSettled == \/ "checkpoint-root.json" \notin kept[gate.run]
               \/ RangeOf[gate.run] \notin checkpoints
               \/ SharedRoot(gate.run)
Payload(c) == kept[c] \ {"released.json", "checkpoint-root.json"}

\* The payload goes in the order of the directory.
DropPayload(name) ==
    /\ gate.by = "release" /\ RootSettled /\ name \in Payload(gate.run)
    /\ kept' = [kept EXCEPT ![gate.run] = @ \ {name}]
    /\ UNCHANGED <<row, record, compared, checkpoints, adoptions, worker, asked, recogniser,
                   gate, channel, revision, troubles>>

\* Everything is gone, or an error stopped the release; it may be called again.
ReleaseReturns ==
    /\ gate.by = "release"
    /\ \/ RootSettled /\ Payload(gate.run) = {} /\ UNCHANGED troubles
       \/ troubles > 0 /\ troubles' = troubles - 1
    /\ recogniser' = None /\ gate' = Open
    /\ UNCHANGED <<stored, worker, asked, channel, revision>>

\* A crash, and recover_interrupted_asr_runs of the next start.
CrashCandidates ==
    /\ troubles > 0 /\ troubles' = troubles - 1
    /\ row' = [c \in Runs |-> IF row[c] \in {"queued", "running"} THEN "failed" ELSE row[c]]
    /\ worker' = [c \in Runs |-> "idle"]
    /\ recogniser' = None /\ gate' = Open /\ channel' = None
    /\ UNCHANGED <<record, kept, compared, checkpoints, adoptions, asked, revision>>

Works(c) == TakeRecogniser(c) \/ OpenCheckpoints(c) \/ Heard(c) \/ WriteCues(c)
            \/ SucceedRecord(c) \/ SucceedRow(c) \/ WritePreview(c) \/ CandidateFails(c)
DropsPayload == \E c \in Runs : \E name \in kept[c] : DropPayload(name)
GateWorks == FinishMarks \/ DropRoot \/ DropsPayload \/ ReleaseReturns

CandidateNext ==
    \/ \E c \in Runs : Preview(c) \/ Abandons(c) \/ Compare(c) \/ Adopt(c) \/ Release(c)
    \/ \E c \in Runs : Works(c)
    \/ GateWorks \/ Cancel \/ EditWorkspace \/ CrashCandidates

\* Of the calls that were started one runs on while any can.
CandidateFairness == WF_candidateVars(GateWorks \/ \E c \in Runs : Works(c))
CandidateSpec == CandidateInit /\ [][CandidateNext]_candidateVars /\ CandidateFairness

(***************************************************************************)
(* Properties.                                                             *)
(***************************************************************************)
Statuses == {"none", "queued", "running", "succeeded", "failed"}
CandidateTypeOK ==
    /\ \A c \in Runs : {row[c], record[c]} \subseteq Statuses
    /\ \A c \in Runs : compared[c] \subseteq 0..MaxRevisions
    /\ recogniser \in Runs \cup {None, "release"}
    /\ gate.by = "release" => recogniser = "release"
    /\ channel # None => channel.run \in Runs

\* An adopted candidate had ended its recognition, and keeps its cues, a
\* directory without tombstone and the checkpoints it was made from, also when
\* another candidate of the same range is released and wherever a crash falls.
AdoptedKeepsEvidence ==
    \A c \in adoptions :
        /\ record[c] \in {"succeeded", "failed"}
        /\ "candidate-cues.json" \in kept[c] /\ "released.json" \notin kept[c]
        /\ "checkpoint-root.json" \in kept[c] => RangeOf[c] \in checkpoints

(***************************************************************************)
(* The list that the user sees: list_asr_runs.                             *)
(***************************************************************************)
Released(c) == "released.json" \in kept[c]
CleanupPending(c) == Released(c) /\ Payload(c) \ {"run.json"} # {}
Cleanable(c) ==
    /\ {"candidate.json", "progress.json", "released.json"} \cap kept[c] # {}
    /\ c \notin adoptions /\ "adopted.json" \notin kept[c]
    /\ Released(c) => CleanupPending(c)
    /\ row[c] \notin {"none", "queued", "running"}
Reopenable(c) ==
    ~Released(c) /\ {"preview.json", "candidate-cues.json"} \cap kept[c] # {}

\* No checkpoints are left that the list has no way to clean up: their candidate runs, is
\* adopted, can be cleaned or is being released, also after a crash in a release and when
\* candidates share them; and what is listed as done and reopenable can be read.
ListReachesAll ==
    /\ \A root \in checkpoints : \E c \in Runs :
          /\ RangeOf[c] = root /\ "checkpoint-root.json" \in kept[c]
          /\ \/ row[c] \in {"queued", "running"} \/ c \in adoptions \/ Cleanable(c)
             \/ gate.by = "release" /\ gate.run = c
    /\ \A c \in Runs : Reopenable(c) /\ row[c] = "succeeded" => Readable(c)

\* Every candidate that waits for the recogniser gets it and ends, whatever is
\* cancelled, released or abandoned before it.
CandidatesRest == \A c \in Runs : worker[c] = "idle"
CandidateEnds == []<>CandidatesRest
=============================================================================
