-------------------------- MODULE DesktopRecognition --------------------------
(***************************************************************************)
(* The parts that recognise: recognition and its checkpoints, candidates,  *)
(* the review of what was heard, the cloud service, the calls of whisper,  *)
(* the waveform of the audio, and the commands of the command line.        *)
(***************************************************************************)
EXTENDS DesktopSlots

CONSTANTS
    AudioChunks, Readings, Resources, Policies, Groups, MaxFaults,  \* AcousticRecognition
    Runs, RangeOf, Remote, MaxRevisions,                            \* CandidateRuns
    PlainLetters, Blanks, Bytes, LoopBytes, MinOverlap, MaxOverlap, \* AsrReview
    DenseSize, DenseRate, Transcripts, Verdicts, Deciders, MaxRuns, MaxDecisions,
    MaxDecisionTime,
    Lengths, ChunkSize, WordCounts, MaxCloudCalls, MaxCloudTroubles,\* CloudRecognition
    MaxDeviceTroubles,                                              \* WhisperFallback
    WaveLoads, Stamps, Views, Second, Rate, BucketRate,             \* WaveformCache
    MinPoints, MaxPoints, MaxLoads,
    CommandNames, MaxWork, MaxCommands                              \* JobCommands

Acoustic == INSTANCE AcousticRecognition WITH
    Chunks <- AudioChunks,
    audio <- x3, evidence <- x2, resources <- x1, policy <- x4, plan <- x5,
    finalCues <- x6, finalSum <- x7, asr <- x8, notice <- x9, early <- x10,
    groupCache <- x11, published <- x12, faults <- x13

Candidates == INSTANCE CandidateRuns WITH
    revision <- x2, troubles <- x1, row <- x3, record <- x4, kept <- x5, compared <- x6,
    checkpoints <- x7, adoptions <- x8, worker <- x9, asked <- x10, recogniser <- x11,
    gate <- x12, channel <- x13

Review == INSTANCE AsrReview WITH
    Plain <- PlainLetters, Commands <- Deciders, Blank <- Blanks,
    MaxTime <- MaxDecisionTime,
    now <- x3, troubles <- x1, task <- x2, runs <- x4, signals <- x5, decisions <- x6,
    inserted <- x7, deciding <- x8, attempts <- x9, preview <- x10, unordered <- x11,
    unmarked <- x12

Cloud == INSTANCE CloudRecognition WITH
    MaxCalls <- MaxCloudCalls, MaxTroubles <- MaxCloudTroubles,
    audio <- x3, stored <- x4, answer <- x5, calls <- x2, troubles <- x1, call <- x6,
    session <- x7, abandoned <- x8, replaced <- x9

Fallback == INSTANCE WhisperFallback WITH
    Chunks <- AudioChunks, MaxTroubles <- MaxDeviceTroubles,
    evidence <- x2, at <- x3, troubles <- x1, configured <- x4, chunk <- x5,
    noGpu <- x6, attempt <- x7

Waveform == INSTANCE WaveformCache WITH
    Loads <- WaveLoads, Windows <- Views,
    answer <- x5, troubles <- x1, sound <- x2, names <- x3, data <- x4, load <- x6,
    sounds <- x7, alike <- x8, crossed <- x9, begun <- x10

Jobs == INSTANCE JobCommands WITH
    MaxTime <- MaxWork,
    now <- x3, made <- x2, lapses <- x1, segments <- x4, files <- x5, manifest <- x6,
    command <- x7, commands <- x8, worked <- x9, lastSeen <- x10
===============================================================================
