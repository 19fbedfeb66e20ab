----------------------------- MODULE DesktopParts -----------------------------
(***************************************************************************)
(* The parts of the program that share nothing: those that recognise, the  *)
(* services of the desktop, and the requests for translation. What a part  *)
(* does not need stays None.                                               *)
(***************************************************************************)
EXTENDS DesktopRecognition, DesktopServices, Naturals, Sequences

CONSTANTS
    Askers, Requests, UnknownId, MaxTargets, MaxFailures     \* TranslationRequests

Batching == INSTANCE TranslationRequests WITH
    Callers <- Askers,
    call <- x1, waiting <- x2, collecting <- x3, batches <- x4, failures <- x5

\* The variables from the n-th on: without a value, and at rest.
Unset17 == x17 = None
Unset16 == x16 = None /\ Unset17
Unset15 == x15 = None /\ Unset16
Unset14 == x14 = None /\ Unset15
Unset13 == x13 = None /\ Unset14
Unset12 == x12 = None /\ Unset13
Unset11 == x11 = None /\ Unset12
Unset10 == x10 = None /\ Unset11
Unset9 == x9 = None /\ Unset10
Unset8 == x8 = None /\ Unset9
Unset7 == x7 = None /\ Unset8
Unset6 == x6 = None /\ Unset7

Rest18 == UNCHANGED subject
Rest17 == UNCHANGED x17 /\ Rest18
Rest16 == UNCHANGED x16 /\ Rest17
Rest15 == UNCHANGED x15 /\ Rest16
Rest14 == UNCHANGED x14 /\ Rest15
Rest13 == UNCHANGED x13 /\ Rest14
Rest12 == UNCHANGED x12 /\ Rest13
Rest11 == UNCHANGED x11 /\ Rest12
Rest10 == UNCHANGED x10 /\ Rest11
Rest9 == UNCHANGED x9 /\ Rest10
Rest8 == UNCHANGED x8 /\ Rest9
Rest7 == UNCHANGED x7 /\ Rest8
Rest6 == UNCHANGED x6 /\ Rest7

Init ==
    \/ subject = "recognition" /\ Acoustic!RecognitionInit /\ Unset14
    \/ subject = "candidates" /\ Candidates!CandidateInit /\ Unset14
    \/ subject = "review" /\ Review!ReviewInit /\ Unset13
    \/ subject = "models" /\ Downloads!ModelInit /\ Unset11
    \/ subject = "dictionary" /\ Dictionaries!LookupInit
    \/ subject = "settings" /\ Settings!SettingsInit /\ Unset14
    \/ subject = "renders" /\ RenderQueue!RenderInit /\ Unset13
    \/ subject = "batching" /\ Batching!RequestInit /\ Unset6
    \/ subject = "glossaries" /\ Glossaries!GlossaryInit /\ Unset10
    \/ subject = "drafts" /\ Drafts!DraftInit /\ Unset11
    \/ subject = "notebook" /\ Notebook!NotebookInit /\ Unset12
    \/ subject = "media" /\ Media!MediaInit /\ Unset9
    \/ subject = "waveform" /\ Waveform!WaveInit /\ Unset11
    \/ subject = "jobs" /\ Jobs!JobInit /\ Unset11
    \/ subject = "exports" /\ Exports!ExportInit /\ Unset10
    \/ subject = "server" /\ Server!ServerInit /\ Unset9
    \/ subject = "cloud" /\ Cloud!CloudInit /\ Unset10
    \/ subject = "fallback" /\ Fallback!WhisperInit /\ Unset8

Recognises == subject = "recognition" /\ Acoustic!RecognitionNext /\ Rest14
RecognisesAgain == subject = "candidates" /\ Candidates!CandidateNext /\ Rest14
Reviews == subject = "review" /\ Review!ReviewNext /\ Rest13
DownloadsModel == subject = "models" /\ Downloads!ModelNext /\ Rest11
LooksUp == subject = "dictionary" /\ Dictionaries!LookupNext /\ Rest18
Configures == subject = "settings" /\ Settings!SettingsNext /\ Rest14
RendersVideo == subject = "renders" /\ RenderQueue!RenderNext /\ Rest13
SendsBatches == subject = "batching" /\ Batching!RequestNext /\ Rest6
KeepsGlossaries == subject = "glossaries" /\ Glossaries!GlossaryNext /\ Rest10
Edits == subject = "drafts" /\ Drafts!DraftNext /\ Rest11
Notes == subject = "notebook" /\ Notebook!NotebookNext /\ Rest12
ServesMedia == subject = "media" /\ Media!MediaNext /\ Rest9
LoadsWaveform == subject = "waveform" /\ Waveform!WaveNext /\ Rest11
RunsCommands == subject = "jobs" /\ Jobs!JobNext /\ Rest11
ExportsSubtitles == subject = "exports" /\ Exports!ExportNext /\ Rest10
ServesTranslations == subject = "server" /\ Server!ServerNext /\ Rest9
RecognisesInCloud == subject = "cloud" /\ Cloud!CloudNext /\ Rest10
FallsBack == subject = "fallback" /\ Fallback!WhisperNext /\ Rest8

Next ==
    \/ Recognises \/ RecognisesAgain \/ Reviews \/ DownloadsModel
    \/ LooksUp \/ Configures \/ RendersVideo \/ SendsBatches
    \/ KeepsGlossaries \/ Edits \/ Notes \/ ServesMedia
    \/ LoadsWaveform \/ RunsCommands \/ ExportsSubtitles \/ ServesTranslations
    \/ RecognisesInCloud \/ FallsBack

\* Each part has the fairness of its own specification.
Progress ==
    \/ subject = "recognition" /\ (Acoustic!Recogniser \/ Acoustic!Session) /\ Rest14
    \/ subject = "candidates" /\ Rest14
         /\ (Candidates!GateWorks \/ \E c \in Runs : Candidates!Works(c))
    \/ subject = "renders" /\ Rest13
         /\ (RenderQueue!Engine \/ \E r \in Renders : RenderQueue!Submitter(r))
    \/ subject = "batching" /\ Batching!Batches /\ Rest6
    \/ subject = "drafts" /\ Drafts!Writer /\ Rest11
    \/ subject = "server" /\ Server!Served /\ Rest9

Spec == Init /\ [][Next]_parts /\ WF_parts(Progress)

(***************************************************************************)
(* Properties: those of the parts, each looked at where its part moves.    *)
(***************************************************************************)
Moves(name) == subject = name

\* The state of every part has its type.
PartsTypeOK ==
    /\ Moves("recognition") => Acoustic!RecognitionTypeOK
    /\ Moves("candidates") => Candidates!CandidateTypeOK
    /\ Moves("review") => Review!ReviewTypeOK
    /\ Moves("models") => Downloads!ModelTypeOK
    /\ Moves("dictionary") => Dictionaries!LookupTypeOK
    /\ Moves("settings") => Settings!SettingsTypeOK
    /\ Moves("renders") => RenderQueue!RenderTypeOK
    /\ Moves("drafts") => Drafts!DraftTypeOK
    /\ Moves("notebook") => Notebook!NotebookTypeOK
    /\ Moves("media") => Media!MediaTypeOK
    /\ Moves("waveform") => Waveform!WaveTypeOK
    /\ Moves("jobs") => Jobs!JobTypeOK
    /\ Moves("exports") => Exports!ExportTypeOK
    /\ Moves("server") => Server!ServerTypeOK

\* A transcript is stitched from the evidence in the files, all of it made with the
\* options and model files of its run; an adopted candidate keeps its cues and its
\* checkpoints, and every checkpoint can be cleaned up; what the user last said of a
\* repetition is shown; the words of a cloud service are those of the whole audio, and no
\* audio stays there unless its deletion failed or was given up; evidence names the device
\* that made it (acoustic_plan.rs, job_runner.rs, local_retranscription_service.rs,
\* asr_review.rs, gemini_asr.rs, whisper.rs).
EvidenceKept ==
    /\ Moves("recognition") => Acoustic!CuesFollowEvidence
    /\ Moves("candidates") => Candidates!AdoptedKeepsEvidence /\ Candidates!ListReachesAll
    /\ Moves("review") => Review!ReviewKept
    /\ Moves("cloud") => Cloud!CloudHonest
    /\ Moves("fallback") => Fallback!DeviceHonest

\* The model in use is the file the catalog names (model_download.rs).
ChosenIsVerified == Moves("models") => Downloads!ChosenIsVerified

\* Once a dictionary is installed, a verified package stays on the disk, and an index or
\* database of the installed version holds that package (dictionary_download.rs,
\* dictionary_lookup.rs).
DictionaryHonest == Moves("dictionary") => Dictionaries!DictionaryHonest

\* A provider is shown as verified only with the key a test has translated with, and the
\* program's own translation server is one process that serves whoever asks
\* (desktop_settings.rs, local_llama.rs).
ProvidersHonest ==
    /\ Moves("settings") => Settings!VerifiedWasTested
    /\ Moves("server") => Server!ServerKept

\* A user's file is only replaced with consent, by a whole video or by whole subtitles of the
\* cues that were read; a file that appears at the output of a render while the worker
\* renames without looking counts once it has done so (VideoRender.Unseen;
\* local_render_service.rs, local_workspace_service.rs).
OutputSafe ==
    /\ Moves("renders") => RenderQueue!OutputSafe
    /\ Moves("exports") => Exports!ExportSafe

\* Glossaries keep what the user saved, and corrections what the user typed
\* (local_glossary_service.rs, local_db.rs).
GlossariesKept == Moves("glossaries") => Glossaries!GlossariesKept

\* What the user typed is in the draft and its copy or in the database, and a restored
\* draft of a changed cue waits for the user (subtitle-drafts.ts).
DraftsKeepTyping == Moves("drafts") => Drafts!DraftsKeepTyping

\* An item of the notebook keeps the meaning the user decided on, its occurrences and the
\* results that were looked up for it (local_learning_service.rs, local_db.rs).
NotebookKept == Moves("notebook") => Notebook!NotebookKept

\* A media answer sends what it declares, and a waveform is that of its window
\* (media_server.rs, waveform.rs).
ServedAsDeclared ==
    /\ Moves("media") => Media!ServedAsDeclared
    /\ Moves("waveform") => Waveform!WaveformHonest

\* A manifest says what the commands of its directory have done and how long they worked
\* (job_runner.rs, job_manifest.rs).
ManifestHonest == Moves("jobs") => Jobs!ManifestHonest

\* A recognition, a candidate, a render and a request for translation that were started
\* end, whatever fails or is cancelled around them, and a draft is saved (job_runner.rs,
\* translation_batching.rs, local_retranscription_service.rs, local_render_service.rs,
\* local_llama.rs, subtitle-drafts.ts).
PartsSettle ==
    []<>(/\ Moves("recognition") => Acoustic!RecognitionRests
         /\ Moves("candidates") => Candidates!CandidatesRest
         /\ Moves("renders") => RenderQueue!RendersRest
         /\ Moves("batching") => Batching!RequestsRest
         /\ Moves("server") => Server!CallsRest
         /\ Moves("drafts") => Drafts!DraftsRest)
===============================================================================
