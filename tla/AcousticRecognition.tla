------------------------- MODULE AcousticRecognition -------------------------
(***************************************************************************)
(* The recognition of one task: acoustic_plan.rs cuts the audio into       *)
(* chunks and keeps the evidence of each one, job_runner.rs stitches the   *)
(* evidence into cues, and early_translation.rs translates the verified    *)
(* prefix meanwhile.  A crash leaves the files; the next attempt reuses    *)
(* every piece of evidence it can verify.                                  *)
(*                                                                         *)
(* An atomic_write is one step.  Files are damaged and resources replaced  *)
(* only between two attempts.                                              *)
(***************************************************************************)
EXTENDS Naturals, FiniteSets

CONSTANTS
    None,
    Chunks,       \* number of chunks of the audio
    Readings,     \* what the recogniser may hear in a chunk
    Resources,    \* what configuration_digest covers: options and model files
    Policies,     \* segmentation policies, one per version of the program
    Groups,       \* group_concurrency of the translation provider
    MaxFaults     \* bound: crashes, failures, damaged files, replaced resources

VARIABLES
    resources,    \* the digest the options and the model files have now
    policy,       \* the segmentation policy of the running version
    audio,        \* audio.wav and its identity: "none", "kept", "damaged"
    plan,         \* plan.json: the digest it was made for
    evidence,     \* of each chunk: [text, made, intact], made is the digest it came from
    finalCues,    \* final-cues.json: [policy, texts]
    finalSum,     \* final-cues.sha256: the content it is the digest of
    asr,          \* the recogniser: [pc, chunk, cues, ok]
    notice,       \* the progress channel: the last verified chunk
    early,        \* the prefix session: [pc, seen, waiting, asked, failed]
    groupCache,   \* early-translation/groups: [chunk, text] translated
    published,    \* asr-published.json
    faults        \* how many faults may still come

recognition == <<resources, policy, audio, plan, evidence, finalCues, finalSum, asr,
                 notice, early, groupCache, published, faults>>
files == <<audio, plan, evidence, finalCues, finalSum, published>>

Off == [pc |-> "off", chunk |-> 1, cues |-> None, ok |-> TRUE]
Silent == [pc |-> "off", seen |-> 0, waiting |-> {}, asked |-> {}, failed |-> FALSE]

RecognitionInit ==
    /\ resources = (CHOOSE r \in Resources : TRUE) /\ policy = (CHOOSE p \in Policies : TRUE)
    /\ audio = "none" /\ plan = None /\ published = FALSE
    /\ evidence = [c \in 1..Chunks |-> None]
    /\ finalCues = None /\ finalSum = None
    /\ asr = Off /\ notice = 0 /\ early = Silent
    /\ groupCache = {} /\ faults = MaxFaults

\* read_evidence succeeds: the digests and the identity of the chunk agree.
Verified(c) == evidence[c] # None /\ evidence[c].intact

\* stitched_units over every chunk, cut into cues by the policy.
Stitched == [policy |-> policy, texts |-> [c \in 1..Chunks |-> evidence[c].text]]

StartTask ==
    /\ asr.pc = "off" /\ ~published
    /\ asr' = [Off EXCEPT !.pc = "audio"]
    /\ notice' = 0
    /\ early' = [Silent EXCEPT !.pc = "waiting"]
    /\ UNCHANGED <<resources, policy, files, groupCache, faults>>

\* An error at any step: the run record fails, the files stay.
Ends(ok) == asr' = [asr EXCEPT !.pc = "ended", !.ok = ok]

PrepareAudio ==
    /\ asr.pc = "audio"
    /\ IF audio = "damaged" THEN Ends(FALSE) /\ UNCHANGED audio
                            ELSE asr' = [asr EXCEPT !.pc = "plan"] /\ audio' = "kept"
    /\ UNCHANGED <<resources, policy, plan, evidence, finalCues, finalSum, notice, early,
                   groupCache, published, faults>>

\* Mutant of CheckPlan: evidence made with other resources is reused.
PlanUnchecked ==
    /\ asr.pc = "plan"
    /\ asr' = [asr EXCEPT !.pc = "chunk"]
    /\ plan' = IF plan = None THEN resources ELSE plan
    /\ UNCHANGED <<resources, policy, audio, evidence, finalCues, finalSum, notice, early,
                   groupCache, published, faults>>

CheckPlan ==
    /\ asr.pc = "plan"
    /\ IF plan \in {None, resources}
       THEN asr' = [asr EXCEPT !.pc = "chunk"] /\ plan' = resources
       ELSE Ends(FALSE) /\ UNCHANGED plan
    /\ UNCHANGED <<resources, policy, audio, evidence, finalCues, finalSum, notice, early,
                   groupCache, published, faults>>

\* The chunk is verified: the session is told, and the next one is looked at.
Advance(c) ==
    /\ notice' = c
    /\ asr' = IF c = Chunks THEN [asr EXCEPT !.pc = "stitch"]
                            ELSE [asr EXCEPT !.pc = "chunk", !.chunk = c + 1]

KeepChunk ==
    /\ asr.pc = "chunk" /\ Verified(asr.chunk)
    /\ Advance(asr.chunk)
    /\ UNCHANGED <<resources, policy, files, early, groupCache, faults>>

\* Mutant of RepairChunk: the cues stitched from the old evidence are kept.
RepairKeepsCues ==
    /\ asr.pc = "chunk" /\ ~Verified(asr.chunk)
    /\ asr' = [asr EXCEPT !.pc = "call"]
    /\ UNCHANGED <<resources, policy, files, notice, early, groupCache, faults>>

\* A chunk with no usable evidence is recognised again; cues stitched from the
\* old evidence are removed first.
RepairChunk ==
    /\ asr.pc = "chunk" /\ ~Verified(asr.chunk)
    /\ finalCues' = None /\ finalSum' = None
    /\ asr' = [asr EXCEPT !.pc = "call"]
    /\ UNCHANGED <<resources, policy, audio, plan, evidence, notice, early, groupCache,
                   published, faults>>

\* The provider has answered into an attempt directory; what stood at the
\* destination is renamed to corrupt-...
SetAside ==
    /\ asr.pc = "call"
    /\ evidence' = [evidence EXCEPT ![asr.chunk] = None]
    /\ asr' = [asr EXCEPT !.pc = "install"]
    /\ UNCHANGED <<resources, policy, audio, plan, finalCues, finalSum, notice, early,
                   groupCache, published, faults>>

InstallChunk(text) ==
    /\ asr.pc = "install"
    /\ evidence' = [evidence EXCEPT ![asr.chunk] =
                        [text |-> text, made |-> resources, intact |-> TRUE]]
    /\ Advance(asr.chunk)
    /\ UNCHANGED <<resources, policy, audio, plan, finalCues, finalSum, early, groupCache,
                   published, faults>>

\* The cues of the last run are reused when their digest and their policy agree.
MakeCues ==
    /\ asr.pc = "stitch"
    /\ LET reusable == finalCues # None /\ finalSum = finalCues /\ finalCues.policy = policy
           made == IF reusable THEN finalCues ELSE Stitched IN
       /\ finalCues' = made
       /\ asr' = [asr EXCEPT !.pc = "sum", !.cues = made]
    /\ UNCHANGED <<resources, policy, audio, plan, evidence, finalSum, notice, early,
                   groupCache, published, faults>>

WriteSum ==
    /\ asr.pc = "sum"
    /\ finalSum' = finalCues
    /\ asr' = [asr EXCEPT !.pc = "write"]
    /\ UNCHANGED <<resources, policy, audio, plan, evidence, finalCues, notice, early,
                   groupCache, published, faults>>

\* The run record succeeds, the transcript is written, and done_tx is sent.
WriteTranscript ==
    /\ asr.pc = "write"
    /\ Ends(TRUE)
    /\ UNCHANGED <<resources, policy, files, notice, early, groupCache, faults>>

RecogniserFails ==
    /\ asr.pc \in {"audio", "plan", "call", "install", "stitch", "sum", "write"} /\ faults > 0
    /\ Ends(FALSE)
    /\ faults' = faults - 1
    /\ UNCHANGED <<resources, policy, files, notice, early, groupCache>>

(***************************************************************************)
(* The prefix session.                                                     *)
(***************************************************************************)
\* stable_prefix: the contiguous verified chunks, the last one held back.
StableChunks ==
    {c \in 1..Chunks : c + 1 \in 1..Chunks /\ \A d \in 1..(c + 1) : Verified(d)}

Done == asr.pc = "ended"

\* Mutant of SessionReturns: the session only returns once it has seen the last
\* chunk, which a recognition that fails never reports.
ReturnsAfterLast ==
    /\ early.pc = "waiting" /\ Done /\ early.seen = Chunks
    /\ early' = [early EXCEPT !.pc = "ended"]
    /\ UNCHANGED <<resources, policy, files, asr, notice, groupCache, faults>>

SessionReturns ==
    /\ early.pc = "waiting" /\ Done
    /\ early' = [early EXCEPT !.pc = "ended"]
    /\ UNCHANGED <<resources, policy, files, asr, notice, groupCache, faults>>

SessionWakes ==
    /\ early.pc = "waiting" /\ notice > early.seen /\ ~Done
    /\ early' = [early EXCEPT !.seen = notice, !.pc = "working", !.waiting = StableChunks]
    /\ UNCHANGED <<resources, policy, files, asr, notice, groupCache, faults>>

DispatchGroup(c) ==
    /\ early.pc = "working" /\ c \in early.waiting
    /\ ~early.failed /\ Cardinality(early.asked) < Groups
    /\ early' = [early EXCEPT !.waiting = @ \ {c}, !.asked = @ \cup {c}]
    /\ UNCHANGED <<resources, policy, files, asr, notice, groupCache, faults>>

\* A cached group is answered without a call; an answer is cached.
GroupAnswered(c) ==
    /\ early.pc = "working" /\ c \in early.asked
    /\ early' = [early EXCEPT !.asked = @ \ {c}]
    /\ groupCache' = groupCache \cup {[chunk |-> c, text |-> evidence[c].text]}
    /\ UNCHANGED <<resources, policy, files, asr, notice, faults>>

\* An error or an empty translation stops the dispatch; what is cached stays.
GroupFails(c) ==
    /\ early.pc = "working" /\ c \in early.asked /\ faults > 0
    /\ [chunk |-> c, text |-> evidence[c].text] \notin groupCache
    /\ early' = [early EXCEPT !.asked = @ \ {c}, !.failed = TRUE]
    /\ faults' = faults - 1
    /\ UNCHANGED <<resources, policy, files, asr, notice, groupCache>>

PrefixProcessed ==
    /\ early.pc = "working" /\ early.asked = {} /\ (early.waiting = {} \/ early.failed)
    /\ early' = [early EXCEPT !.pc = IF early.failed THEN "ended" ELSE "waiting",
                              !.waiting = {}]
    /\ UNCHANGED <<resources, policy, files, asr, notice, groupCache, faults>>

\* The join of the two: a good recognition is published even when the session
\* failed, which fails the task after it.
JoinTask ==
    /\ Done /\ early.pc = "ended"
    /\ published' = asr.ok
    /\ asr' = Off /\ early' = Silent /\ notice' = 0
    /\ UNCHANGED <<resources, policy, audio, plan, evidence, finalCues, finalSum,
                   groupCache, faults>>

(***************************************************************************)
(* Faults: a crash, and what happens to the files between two attempts.    *)
(***************************************************************************)
CrashTask ==
    /\ asr.pc # "off" /\ faults > 0
    /\ faults' = faults - 1
    /\ asr' = Off /\ early' = Silent /\ notice' = 0
    /\ policy' \in Policies
    /\ UNCHANGED <<resources, files, groupCache>>

DamageChunk(c) ==
    /\ asr.pc = "off" /\ Verified(c) /\ faults > 0
    /\ evidence' = [evidence EXCEPT ![c] = [evidence[c] EXCEPT !.intact = FALSE]]
    /\ faults' = faults - 1
    /\ UNCHANGED <<resources, policy, audio, plan, finalCues, finalSum, asr, notice, early,
                   groupCache, published>>

DamageAudio ==
    /\ asr.pc = "off" /\ audio = "kept" /\ faults > 0
    /\ audio' = "damaged" /\ faults' = faults - 1
    /\ UNCHANGED <<resources, policy, plan, evidence, finalCues, finalSum, asr, notice,
                   early, groupCache, published>>

ReplaceResources(r) ==
    /\ asr.pc = "off" /\ r # resources /\ faults > 0
    /\ resources' = r /\ faults' = faults - 1
    /\ UNCHANGED <<policy, files, asr, notice, early, groupCache>>

InstallsChunk == \E text \in Readings : InstallChunk(text)
Recogniser == PrepareAudio \/ CheckPlan \/ KeepChunk \/ RepairChunk \/ SetAside
              \/ InstallsChunk \/ MakeCues \/ WriteSum \/ WriteTranscript \/ JoinTask
DispatchesGroup == \E c \in 1..Chunks : DispatchGroup(c)
AnswersGroup == \E c \in 1..Chunks : GroupAnswered(c) \/ GroupFails(c)
Session == SessionReturns \/ SessionWakes \/ DispatchesGroup \/ AnswersGroup
           \/ PrefixProcessed
Faults == \/ RecogniserFails \/ CrashTask \/ DamageAudio
          \/ \E c \in 1..Chunks : DamageChunk(c)
          \/ \E r \in Resources : ReplaceResources(r)

RecognitionNext == StartTask \/ Recogniser \/ Session \/ Faults

\* The two futures are joined in one task: one of them runs while either can.
RecognitionFairness == WF_recognition(Recogniser \/ Session)
RecognitionSpec ==
    RecognitionInit /\ [][RecognitionNext]_recognition /\ RecognitionFairness

(***************************************************************************)
(* Properties.                                                             *)
(***************************************************************************)
RecognitionTypeOK ==
    /\ resources \in Resources /\ plan \in Resources \cup {None}
    /\ audio \in {"none", "kept", "damaged"}
    /\ \A c \in 1..Chunks : evidence[c] # None =>
         evidence[c] \in [text : Readings, made : Resources, intact : BOOLEAN]
    /\ asr.chunk \in 1..Chunks /\ notice \in 0..Chunks
    /\ early.seen <= notice /\ Cardinality(early.asked) <= Groups

\* The transcript a run writes is stitched from the evidence that lies in the
\* files then, under the policy of the running version, whatever was reused,
\* repaired or left by a crash on the way there; and it does not mix the options or the
\* model files of two attempts: all the evidence it is stitched from was made with those
\* the run started with (execute_chunks_with_progress, write_initial_cues).
CuesFollowEvidence ==
    /\ asr.pc = "write" => asr.cues = Stitched
    /\ asr.pc \in {"stitch", "sum", "write"} =>
         \A c \in 1..Chunks : evidence[c].made = resources

\* Recognition and prefix translation end together: neither a failed session
\* nor a failed recognition leaves the task waiting for the other.
RecognitionRests == asr.pc = "off"
RecognitionEnds == []<>RecognitionRests
=============================================================================
