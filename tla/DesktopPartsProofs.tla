-------------------------- MODULE DesktopPartsProofs --------------------------
(***************************************************************************)
(* Theorems about the parts as the runs look at them, one at a time, for   *)
(* every value of the constants. The part that moves stays the same, and   *)
(* as long as it does, it takes the steps of its own specification: what   *)
(* was proved of the part holds of the whole. Where the specification of a *)
(* part has fairness, its invariant is used instead of its theorem, which  *)
(* needs none.                                                             *)
(***************************************************************************)
EXTENDS DesktopParts, DesktopServicesProofs, DesktopRecognitionProofs, TLAPS

\* The part that moves stays the same (Next).
LEMMA SubjectStays == [Next]_parts => subject' = subject
    BY DEF Next, Recognises, RecognisesAgain, Reviews, DownloadsModel, LooksUp,
                 Configures, RendersVideo, SendsBatches, KeepsGlossaries, Edits, Notes,
                 ServesMedia, LoadsWaveform, RunsCommands, ExportsSubtitles,
                 ServesTranslations, RecognisesInCloud, FallsBack, Rest6, Rest7, Rest8,
                 Rest9, Rest10, Rest11, Rest12, Rest13, Rest14, Rest15, Rest16, Rest17,
                 Rest18, parts

\* While models is the part that moves, it takes the steps of its own
\* specification (model_download.rs).
LEMMA ModelsFollow ==
    /\ Init /\ subject = "models" => Downloads!ModelInit
    /\ [Next]_parts /\ subject = "models" => [Downloads!ModelNext]_Downloads!modelVars
    /\ [Next]_parts => ((subject = "models")' <=> subject = "models")
<1>1. Init /\ subject = "models" => Downloads!ModelInit
    BY DEF Init
<1>2. Next /\ subject = "models" => Downloads!ModelNext
    BY DEF Next, Recognises, RecognisesAgain, Reviews, DownloadsModel, LooksUp,
                 Configures, RendersVideo, SendsBatches, KeepsGlossaries, Edits, Notes,
                 ServesMedia, LoadsWaveform, RunsCommands, ExportsSubtitles,
                 ServesTranslations, RecognisesInCloud, FallsBack
<1>3. UNCHANGED parts => UNCHANGED Downloads!modelVars
    BY DEF parts, slots, Downloads!modelVars
<1> QED
    BY <1>1, <1>2, <1>3, SubjectStays

\* The model in use is the file the catalog names (model_download.rs).
THEOREM ChosenStaysVerified ==
    ASSUME DownloadAssumption
    PROVE  Spec => []ChosenIsVerified
<1>1. Downloads!ModelSpec => []Downloads!ChosenIsVerified
    BY ChosenWasVerified
<1> QED
    BY <1>1, ModelsFollow, PTL
       DEF Spec, ChosenIsVerified, Moves, Downloads!ModelSpec

\* While settings is the part that moves, it takes the steps of its own
\* specification (desktop_settings.rs).
LEMMA SettingsFollow ==
    /\ Init /\ subject = "settings" => Settings!SettingsInit
    /\ [Next]_parts /\ subject = "settings" => [Settings!SettingsNext]_Settings!settingsVars
    /\ [Next]_parts => ((subject = "settings")' <=> subject = "settings")
<1>1. Init /\ subject = "settings" => Settings!SettingsInit
    BY DEF Init
<1>2. Next /\ subject = "settings" => Settings!SettingsNext
    BY DEF Next, Recognises, RecognisesAgain, Reviews, DownloadsModel, LooksUp,
                 Configures, RendersVideo, SendsBatches, KeepsGlossaries, Edits, Notes,
                 ServesMedia, LoadsWaveform, RunsCommands, ExportsSubtitles,
                 ServesTranslations, RecognisesInCloud, FallsBack
<1>3. UNCHANGED parts => UNCHANGED Settings!settingsVars
    BY DEF parts, slots, Settings!settingsVars
<1> QED
    BY <1>1, <1>2, <1>3, SubjectStays

\* While server is the part that moves, it takes the steps of its own
\* specification (local_llama.rs).
LEMMA ServerFollow ==
    /\ Init /\ subject = "server" => Server!ServerInit
    /\ [Next]_parts /\ subject = "server" => [Server!ServerNext]_Server!serverVars
    /\ [Next]_parts => ((subject = "server")' <=> subject = "server")
<1>1. Init /\ subject = "server" => Server!ServerInit
    BY DEF Init
<1>2. Next /\ subject = "server" => Server!ServerNext
    BY DEF Next, Recognises, RecognisesAgain, Reviews, DownloadsModel, LooksUp,
                 Configures, RendersVideo, SendsBatches, KeepsGlossaries, Edits, Notes,
                 ServesMedia, LoadsWaveform, RunsCommands, ExportsSubtitles,
                 ServesTranslations, RecognisesInCloud, FallsBack
<1>3. UNCHANGED parts => UNCHANGED Server!serverVars
    BY DEF parts, slots, Server!serverVars
<1> QED
    BY <1>1, <1>2, <1>3, SubjectStays

\* A provider is shown as verified only with a key that a test has translated with, and the
\* managed server is one process that serves whoever asks (desktop_settings.rs,
\* local_llama.rs).
THEOREM ProvidersStayHonest ==
    ASSUME ProfilesAssumption, ServerAssumption
    PROVE  Spec => []ProvidersHonest
<1>1. Settings!SettingsSpec => []Settings!VerifiedWasTested
    BY VerifiedKeyWasTested
<1>2. Server!ServerInit => ServerInv
    BY ServerInitially
<1>3. ServerInv /\ [Server!ServerNext]_Server!serverVars => ServerInv'
    BY ServerStep
<1>4. ServerInv => Server!ServerKept
    BY ServerHolds
<1> QED
    BY <1>1, <1>2, <1>3, <1>4, SettingsFollow, ServerFollow, PTL
       DEF Spec, ProvidersHonest, Moves, Settings!SettingsSpec

\* While dictionary is the part that moves, it takes the steps of its own
\* specification (dictionary_lookup.rs).
LEMMA DictionaryFollow ==
    /\ Init /\ subject = "dictionary" => Dictionaries!LookupInit
    /\ [Next]_parts /\ subject = "dictionary" => [Dictionaries!LookupNext]_Dictionaries!lookupAndDictionary
    /\ [Next]_parts => ((subject = "dictionary")' <=> subject = "dictionary")
<1>1. Init /\ subject = "dictionary" => Dictionaries!LookupInit
    BY DEF Init
<1>2. Next /\ subject = "dictionary" => Dictionaries!LookupNext
    BY DEF Next, Recognises, RecognisesAgain, Reviews, DownloadsModel, LooksUp,
                 Configures, RendersVideo, SendsBatches, KeepsGlossaries, Edits, Notes,
                 ServesMedia, LoadsWaveform, RunsCommands, ExportsSubtitles,
                 ServesTranslations, RecognisesInCloud, FallsBack
<1>3. UNCHANGED parts => UNCHANGED Dictionaries!lookupAndDictionary
    BY DEF parts, slots, Dictionaries!lookupAndDictionary, Dictionaries!dictionaryVars,
                         Dictionaries!lookupVars
<1> QED
    BY <1>1, <1>2, <1>3, SubjectStays

\* A verified dictionary stays on the disk, and an index or database of the installed
\* version holds it (dictionary_download.rs, dictionary_lookup.rs).
THEOREM DictionariesStayHonest ==
    ASSUME LookupAssumption
    PROVE  Spec => []DictionaryHonest
<1>1. Dictionaries!LookupSpec => []Dictionaries!DictionaryHonest
    BY DictionaryStaysHonest
<1> QED
    BY <1>1, DictionaryFollow, PTL
       DEF Spec, DictionaryHonest, Moves, Dictionaries!LookupSpec

\* While renders is the part that moves, it takes the steps of its own
\* specification (local_render_service.rs).
LEMMA RendersFollow ==
    /\ Init /\ subject = "renders" => RenderQueue!RenderInit
    /\ [Next]_parts /\ subject = "renders" => [RenderQueue!RenderNext]_RenderQueue!renderVars
    /\ [Next]_parts => ((subject = "renders")' <=> subject = "renders")
<1>1. Init /\ subject = "renders" => RenderQueue!RenderInit
    BY DEF Init
<1>2. Next /\ subject = "renders" => RenderQueue!RenderNext
    BY DEF Next, Recognises, RecognisesAgain, Reviews, DownloadsModel, LooksUp,
                 Configures, RendersVideo, SendsBatches, KeepsGlossaries, Edits, Notes,
                 ServesMedia, LoadsWaveform, RunsCommands, ExportsSubtitles,
                 ServesTranslations, RecognisesInCloud, FallsBack
<1>3. UNCHANGED parts => UNCHANGED RenderQueue!renderVars
    BY DEF parts, slots, RenderQueue!renderVars
<1> QED
    BY <1>1, <1>2, <1>3, SubjectStays

\* While exports is the part that moves, it takes the steps of its own
\* specification (local_workspace_service.rs).
LEMMA ExportsFollow ==
    /\ Init /\ subject = "exports" => Exports!ExportInit
    /\ [Next]_parts /\ subject = "exports" => [Exports!ExportNext]_Exports!exportVars
    /\ [Next]_parts => ((subject = "exports")' <=> subject = "exports")
<1>1. Init /\ subject = "exports" => Exports!ExportInit
    BY DEF Init
<1>2. Next /\ subject = "exports" => Exports!ExportNext
    BY DEF Next, Recognises, RecognisesAgain, Reviews, DownloadsModel, LooksUp,
                 Configures, RendersVideo, SendsBatches, KeepsGlossaries, Edits, Notes,
                 ServesMedia, LoadsWaveform, RunsCommands, ExportsSubtitles,
                 ServesTranslations, RecognisesInCloud, FallsBack
<1>3. UNCHANGED parts => UNCHANGED Exports!exportVars
    BY DEF parts, slots, Exports!exportVars
<1> QED
    BY <1>1, <1>2, <1>3, SubjectStays

\* A user's file is only replaced with consent, by a whole video or by whole subtitles; a
\* file that appears at the output of a render after the worker has looked, or between its
\* renames, counts once the renames are over, because the code overwrites it before
\* (RenderQueue!Unseen; local_render_service.rs, local_workspace_service.rs).
THEOREM FilesStaySafe ==
    ASSUME RendersAssumption, ForeignAssumption
    PROVE  Spec => []OutputSafe
<1>1. RenderQueue!RenderInit => RenderInv
    BY RendersInitially
<1>2. RenderInv /\ [RenderQueue!RenderNext]_RenderQueue!renderVars => RenderInv'
    BY RenderStep
<1>3. RenderInv => RenderQueue!OutputSafe
    BY OutputsKept
<1>4. Exports!ExportSpec => []Exports!ExportSafe
    BY ExportsSafe
<1> QED
    BY <1>1, <1>2, <1>3, <1>4, RendersFollow, ExportsFollow, PTL
       DEF Spec, OutputSafe, Moves, Exports!ExportSpec

\* While glossaries is the part that moves, it takes the steps of its own
\* specification (local_glossary_service.rs).
LEMMA GlossariesFollow ==
    /\ Init /\ subject = "glossaries" => Glossaries!GlossaryInit
    /\ [Next]_parts /\ subject = "glossaries" => [Glossaries!GlossaryNext]_Glossaries!glossaryVars
    /\ [Next]_parts => ((subject = "glossaries")' <=> subject = "glossaries")
<1>1. Init /\ subject = "glossaries" => Glossaries!GlossaryInit
    BY DEF Init
<1>2. Next /\ subject = "glossaries" => Glossaries!GlossaryNext
    BY DEF Next, Recognises, RecognisesAgain, Reviews, DownloadsModel, LooksUp,
                 Configures, RendersVideo, SendsBatches, KeepsGlossaries, Edits, Notes,
                 ServesMedia, LoadsWaveform, RunsCommands, ExportsSubtitles,
                 ServesTranslations, RecognisesInCloud, FallsBack
<1>3. UNCHANGED parts => UNCHANGED Glossaries!glossaryVars
    BY DEF parts, slots, Glossaries!glossaryVars
<1> QED
    BY <1>1, <1>2, <1>3, SubjectStays

\* Glossaries keep what the user saved, and corrections what the user typed
\* (local_glossary_service.rs, local_db.rs).
THEOREM GlossariesStayKept ==
    ASSUME GlossaryAssumption
    PROVE  Spec => []GlossariesKept
<1>1. Glossaries!GlossarySpec => []Glossaries!GlossariesKept
    BY GlossariesAreKept
<1> QED
    BY <1>1, GlossariesFollow, PTL
       DEF Spec, GlossariesKept, Moves, Glossaries!GlossarySpec

\* While drafts is the part that moves, it takes the steps of its own
\* specification (subtitle-drafts.ts).
LEMMA DraftsFollow ==
    /\ Init /\ subject = "drafts" => Drafts!DraftInit
    /\ [Next]_parts /\ subject = "drafts" => [Drafts!DraftNext]_Drafts!draftVars
    /\ [Next]_parts => ((subject = "drafts")' <=> subject = "drafts")
<1>1. Init /\ subject = "drafts" => Drafts!DraftInit
    BY DEF Init
<1>2. Next /\ subject = "drafts" => Drafts!DraftNext
    BY DEF Next, Recognises, RecognisesAgain, Reviews, DownloadsModel, LooksUp,
                 Configures, RendersVideo, SendsBatches, KeepsGlossaries, Edits, Notes,
                 ServesMedia, LoadsWaveform, RunsCommands, ExportsSubtitles,
                 ServesTranslations, RecognisesInCloud, FallsBack
<1>3. UNCHANGED parts => UNCHANGED Drafts!draftVars
    BY DEF parts, slots, Drafts!draftVars
<1> QED
    BY <1>1, <1>2, <1>3, SubjectStays

\* What the user typed is in the draft and its copy or in the database
\* (subtitle-drafts.ts).
THEOREM TypingStaysKept ==
    ASSUME DraftAssumption
    PROVE  Spec => []DraftsKeepTyping
<1>1. Drafts!DraftInit => DraftInv
    BY DraftsInitially
<1>2. DraftInv /\ [Drafts!DraftNext]_Drafts!draftVars => DraftInv'
    BY DraftStep
<1>3. DraftInv => Drafts!DraftsKeepTyping
    BY DraftsHold
<1> QED
    BY <1>1, <1>2, <1>3, DraftsFollow, PTL
       DEF Spec, DraftsKeepTyping, Moves

\* While notebook is the part that moves, it takes the steps of its own
\* specification (local_learning_service.rs).
LEMMA NotebookFollow ==
    /\ Init /\ subject = "notebook" => Notebook!NotebookInit
    /\ [Next]_parts /\ subject = "notebook" => [Notebook!NotebookNext]_Notebook!notebookVars
    /\ [Next]_parts => ((subject = "notebook")' <=> subject = "notebook")
<1>1. Init /\ subject = "notebook" => Notebook!NotebookInit
    BY DEF Init
<1>2. Next /\ subject = "notebook" => Notebook!NotebookNext
    BY DEF Next, Recognises, RecognisesAgain, Reviews, DownloadsModel, LooksUp,
                 Configures, RendersVideo, SendsBatches, KeepsGlossaries, Edits, Notes,
                 ServesMedia, LoadsWaveform, RunsCommands, ExportsSubtitles,
                 ServesTranslations, RecognisesInCloud, FallsBack
<1>3. UNCHANGED parts => UNCHANGED Notebook!notebookVars
    BY DEF parts, slots, Notebook!notebookVars
<1> QED
    BY <1>1, <1>2, <1>3, SubjectStays

\* An item of the notebook keeps its meaning, its occurrences and its results
\* (local_learning_service.rs, local_db.rs).
THEOREM NotebookStaysKept ==
    ASSUME NotebookAssumption
    PROVE  Spec => []NotebookKept
<1>1. Notebook!NotebookSpec => []Notebook!NotebookKept
    BY NotebookCoherent
<1> QED
    BY <1>1, NotebookFollow, PTL
       DEF Spec, NotebookKept, Moves, Notebook!NotebookSpec

\* While jobs is the part that moves, it takes the steps of its own
\* specification (job_runner.rs).
LEMMA JobsFollow ==
    /\ Init /\ subject = "jobs" => Jobs!JobInit
    /\ [Next]_parts /\ subject = "jobs" => [Jobs!JobNext]_Jobs!jobVars
    /\ [Next]_parts => ((subject = "jobs")' <=> subject = "jobs")
<1>1. Init /\ subject = "jobs" => Jobs!JobInit
    BY DEF Init
<1>2. Next /\ subject = "jobs" => Jobs!JobNext
    BY DEF Next, Recognises, RecognisesAgain, Reviews, DownloadsModel, LooksUp,
                 Configures, RendersVideo, SendsBatches, KeepsGlossaries, Edits, Notes,
                 ServesMedia, LoadsWaveform, RunsCommands, ExportsSubtitles,
                 ServesTranslations, RecognisesInCloud, FallsBack
<1>3. UNCHANGED parts => UNCHANGED Jobs!jobVars
    BY DEF parts, slots, Jobs!jobVars
<1> QED
    BY <1>1, <1>2, <1>3, SubjectStays

\* A manifest says what the commands of its directory have done and how long they worked
\* (job_runner.rs, job_manifest.rs).
THEOREM ManifestsStayHonest ==
    ASSUME JobAssumption
    PROVE  Spec => []ManifestHonest
<1>1. Jobs!JobSpec => []Jobs!ManifestHonest
    BY ManifestIsHonest
<1> QED
    BY <1>1, JobsFollow, PTL
       DEF Spec, ManifestHonest, Moves, Jobs!JobSpec

\* While recognition is the part that moves, it takes the steps of its own
\* specification (job_runner.rs).
LEMMA RecognitionFollow ==
    /\ Init /\ subject = "recognition" => Acoustic!RecognitionInit
    /\ [Next]_parts /\ subject = "recognition" => [Acoustic!RecognitionNext]_Acoustic!recognition
    /\ [Next]_parts => ((subject = "recognition")' <=> subject = "recognition")
<1>1. Init /\ subject = "recognition" => Acoustic!RecognitionInit
    BY DEF Init
<1>2. Next /\ subject = "recognition" => Acoustic!RecognitionNext
    BY DEF Next, Recognises, RecognisesAgain, Reviews, DownloadsModel, LooksUp,
                 Configures, RendersVideo, SendsBatches, KeepsGlossaries, Edits, Notes,
                 ServesMedia, LoadsWaveform, RunsCommands, ExportsSubtitles,
                 ServesTranslations, RecognisesInCloud, FallsBack
<1>3. UNCHANGED parts => UNCHANGED Acoustic!recognition
    BY DEF parts, slots, Acoustic!recognition
<1> QED
    BY <1>1, <1>2, <1>3, SubjectStays

\* While candidates is the part that moves, it takes the steps of its own
\* specification (local_retranscription_service.rs).
LEMMA CandidatesFollow ==
    /\ Init /\ subject = "candidates" => Candidates!CandidateInit
    /\ [Next]_parts /\ subject = "candidates" => [Candidates!CandidateNext]_Candidates!candidateVars
    /\ [Next]_parts => ((subject = "candidates")' <=> subject = "candidates")
<1>1. Init /\ subject = "candidates" => Candidates!CandidateInit
    BY DEF Init
<1>2. Next /\ subject = "candidates" => Candidates!CandidateNext
    BY DEF Next, Recognises, RecognisesAgain, Reviews, DownloadsModel, LooksUp,
                 Configures, RendersVideo, SendsBatches, KeepsGlossaries, Edits, Notes,
                 ServesMedia, LoadsWaveform, RunsCommands, ExportsSubtitles,
                 ServesTranslations, RecognisesInCloud, FallsBack
<1>3. UNCHANGED parts => UNCHANGED Candidates!candidateVars
    BY DEF parts, slots, Candidates!candidateVars
<1> QED
    BY <1>1, <1>2, <1>3, SubjectStays

\* While review is the part that moves, it takes the steps of its own
\* specification (asr_review.rs).
LEMMA ReviewFollow ==
    /\ Init /\ subject = "review" => Review!ReviewInit
    /\ [Next]_parts /\ subject = "review" => [Review!ReviewNext]_Review!reviewVars
    /\ [Next]_parts => ((subject = "review")' <=> subject = "review")
<1>1. Init /\ subject = "review" => Review!ReviewInit
    BY DEF Init
<1>2. Next /\ subject = "review" => Review!ReviewNext
    BY DEF Next, Recognises, RecognisesAgain, Reviews, DownloadsModel, LooksUp,
                 Configures, RendersVideo, SendsBatches, KeepsGlossaries, Edits, Notes,
                 ServesMedia, LoadsWaveform, RunsCommands, ExportsSubtitles,
                 ServesTranslations, RecognisesInCloud, FallsBack
<1>3. UNCHANGED parts => UNCHANGED Review!reviewVars
    BY DEF parts, slots, Review!reviewVars
<1> QED
    BY <1>1, <1>2, <1>3, SubjectStays

\* While cloud is the part that moves, it takes the steps of its own
\* specification (gemini_asr.rs).
LEMMA CloudFollow ==
    /\ Init /\ subject = "cloud" => Cloud!CloudInit
    /\ [Next]_parts /\ subject = "cloud" => [Cloud!CloudNext]_Cloud!cloudVars
    /\ [Next]_parts => ((subject = "cloud")' <=> subject = "cloud")
<1>1. Init /\ subject = "cloud" => Cloud!CloudInit
    BY DEF Init
<1>2. Next /\ subject = "cloud" => Cloud!CloudNext
    BY DEF Next, Recognises, RecognisesAgain, Reviews, DownloadsModel, LooksUp,
                 Configures, RendersVideo, SendsBatches, KeepsGlossaries, Edits, Notes,
                 ServesMedia, LoadsWaveform, RunsCommands, ExportsSubtitles,
                 ServesTranslations, RecognisesInCloud, FallsBack
<1>3. UNCHANGED parts => UNCHANGED Cloud!cloudVars
    BY DEF parts, slots, Cloud!cloudVars
<1> QED
    BY <1>1, <1>2, <1>3, SubjectStays

\* While fallback is the part that moves, it takes the steps of its own
\* specification (whisper.rs).
LEMMA FallbackFollow ==
    /\ Init /\ subject = "fallback" => Fallback!WhisperInit
    /\ [Next]_parts /\ subject = "fallback" => [Fallback!WhisperNext]_Fallback!whisperVars
    /\ [Next]_parts => ((subject = "fallback")' <=> subject = "fallback")
<1>1. Init /\ subject = "fallback" => Fallback!WhisperInit
    BY DEF Init
<1>2. Next /\ subject = "fallback" => Fallback!WhisperNext
    BY DEF Next, Recognises, RecognisesAgain, Reviews, DownloadsModel, LooksUp,
                 Configures, RendersVideo, SendsBatches, KeepsGlossaries, Edits, Notes,
                 ServesMedia, LoadsWaveform, RunsCommands, ExportsSubtitles,
                 ServesTranslations, RecognisesInCloud, FallsBack
<1>3. UNCHANGED parts => UNCHANGED Fallback!whisperVars
    BY DEF parts, slots, Fallback!whisperVars
<1> QED
    BY <1>1, <1>2, <1>3, SubjectStays

\* A transcript is stitched from the evidence of its run, an adopted candidate keeps its
\* own, the user's last word on a signal is shown, the words of a cloud service are of the
\* whole audio, and evidence names the device that made it (acoustic_plan.rs,
\* local_retranscription_service.rs, asr_review.rs, gemini_asr.rs, whisper.rs).
THEOREM EvidenceStaysKept ==
    ASSUME AcousticAssumption, CloudAssumption, WhisperAssumption
    PROVE  Spec => []EvidenceKept
<1>1. Acoustic!RecognitionInit => AcousticInv
    BY AcousticInitially
<1>2. AcousticInv /\ [Acoustic!RecognitionNext]_Acoustic!recognition => AcousticInv'
    BY AcousticStep
<1>3. AcousticInv => Acoustic!CuesFollowEvidence
    BY AcousticStitched
<1>4. Candidates!CandidateInit => CandidateInv
    BY CandidatesInitially
<1>5. CandidateInv /\ [Candidates!CandidateNext]_Candidates!candidateVars => CandidateInv'
    BY CandidateStep
<1>6. CandidateInv => Candidates!AdoptedKeepsEvidence /\ Candidates!ListReachesAll
    BY CandidatesReached
<1>7. Review!ReviewSpec => []Review!ReviewKept
    BY LastWordIsShown
<1>8. Cloud!CloudSpec => []Cloud!CloudHonest
    BY CloudIsHonest
<1>9. Fallback!WhisperSpec => []Fallback!DeviceHonest
    BY DeviceIsHonest
<1> QED
    BY <1>1, <1>2, <1>3, <1>4, <1>5, <1>6, <1>7, <1>8, <1>9, RecognitionFollow,
       CandidatesFollow, ReviewFollow, CloudFollow, FallbackFollow, PTL
       DEF Spec, EvidenceKept, Moves, Review!ReviewSpec, Cloud!CloudSpec,
           Fallback!WhisperSpec

\* While media is the part that moves, it takes the steps of its own
\* specification (media_server.rs).
LEMMA MediaFollow ==
    /\ Init /\ subject = "media" => Media!MediaInit
    /\ [Next]_parts /\ subject = "media" => [Media!MediaNext]_Media!mediaVars
    /\ [Next]_parts => ((subject = "media")' <=> subject = "media")
<1>1. Init /\ subject = "media" => Media!MediaInit
    BY DEF Init
<1>2. Next /\ subject = "media" => Media!MediaNext
    BY DEF Next, Recognises, RecognisesAgain, Reviews, DownloadsModel, LooksUp,
                 Configures, RendersVideo, SendsBatches, KeepsGlossaries, Edits, Notes,
                 ServesMedia, LoadsWaveform, RunsCommands, ExportsSubtitles,
                 ServesTranslations, RecognisesInCloud, FallsBack
<1>3. UNCHANGED parts => UNCHANGED Media!mediaVars
    BY DEF parts, slots, Media!mediaVars
<1> QED
    BY <1>1, <1>2, <1>3, SubjectStays

\* While waveform is the part that moves, it takes the steps of its own
\* specification (waveform.rs).
LEMMA WaveformFollow ==
    /\ Init /\ subject = "waveform" => Waveform!WaveInit
    /\ [Next]_parts /\ subject = "waveform" => [Waveform!WaveNext]_Waveform!waveVars
    /\ [Next]_parts => ((subject = "waveform")' <=> subject = "waveform")
<1>1. Init /\ subject = "waveform" => Waveform!WaveInit
    BY DEF Init
<1>2. Next /\ subject = "waveform" => Waveform!WaveNext
    BY DEF Next, Recognises, RecognisesAgain, Reviews, DownloadsModel, LooksUp,
                 Configures, RendersVideo, SendsBatches, KeepsGlossaries, Edits, Notes,
                 ServesMedia, LoadsWaveform, RunsCommands, ExportsSubtitles,
                 ServesTranslations, RecognisesInCloud, FallsBack
<1>3. UNCHANGED parts => UNCHANGED Waveform!waveVars
    BY DEF parts, slots, Waveform!waveVars
<1> QED
    BY <1>1, <1>2, <1>3, SubjectStays

\* A media answer sends what it declares, and a waveform is that of its window
\* (media_server.rs, waveform.rs).
THEOREM AnswersStayAsDeclared ==
    ASSUME MediaAssumption, WaveAssumption
    PROVE  Spec => []ServedAsDeclared
<1>1. Media!MediaSpec => []Media!ServedAsDeclared
    BY AnswersAreHonest
<1>2. Waveform!WaveSpec => []Waveform!WaveformHonest
    BY WaveformStaysHonest
<1> QED
    BY <1>1, <1>2, MediaFollow, WaveformFollow, PTL
       DEF Spec, ServedAsDeclared, Moves, Media!MediaSpec, Waveform!WaveSpec
===============================================================================
