--------------------------- MODULE DesktopServices ----------------------------
(***************************************************************************)
(* The parts that download and look up, keep settings, texts and words,    *)
(* and write files: models, dictionaries, settings, renders, glossaries,   *)
(* drafts, the notebook, exports, the translation server and the media     *)
(* server.                                                                 *)
(***************************************************************************)
EXTENDS DesktopSlots

CONSTANTS
    Models, ModelSize, Mirror, MaxSetbacks,                         \* ModelDownload
    Packages, MaxMishaps, Lookups, DictionaryKinds,                 \* DictionaryLookup
    Profiles, Keys, Environment,                                    \* DesktopSettings
    Renders, VideoOutputs, TargetOf, Consenting, Present, Capacity, \* VideoRender
    Hardware,
    GlossaryIds, BuiltinKey, BuiltinName, CustomName, Shipped, UserTerms, \* GlossaryBook
    CorrectionOf, HeardTexts, Cues, Windows,
    Original, DraftTexts, DraftTrimmed, Blank, Others, MaxTyped,    \* SubtitleDrafts
    MaxItems, Segments, Lines, Spans, WholeSpan, TextOf, KeyOf,     \* LearningNotebook
    TranslationOf, Providers, Definitions, Typed, MaxNotes,
    Artifacts, MaxEdits,                                            \* SubtitleExport
    Callers, MaxCalls,                                              \* TranslationServer
    FileLengths, Ranges, MaxRanges, ReadSize, MaxWrites,            \* MediaServing
    MaxChanges, MaxUpsets                                           \* of several

Downloads == INSTANCE ModelDownload WITH
    Size <- ModelSize,
    installed <- x1, part <- x2, chosen <- x3, listed <- x4, cancellation <- x5,
    fetch <- x6, removing <- x7, selecting <- x8, doubled <- x9, setbacks <- x10

Dictionaries == INSTANCE DictionaryLookup WITH
    Releases <- Packages, Kinds <- DictionaryKinds,
    release <- x5, lookup <- x8, lapses <- x1, package <- x2, spare <- x3,
    partial <- x4, version <- x6, entry <- x7, fetcher <- x9, latest <- x10,
    ever <- x11, mishaps <- x12, kind <- x13, indexLock <- x14, index <- x15,
    unpacked <- x16, dbVersion <- x17

Settings == INSTANCE DesktopSettings WITH
    revision <- x2, saving <- x4, lapses <- x1, changes <- x3, saved <- x5,
    keychain <- x6, cached <- x7, marker <- x8, active <- x9, checking <- x10,
    testing <- x11, refreshing <- x12, validation <- x13

RenderQueue == INSTANCE VideoRender WITH
    Outputs <- VideoOutputs,
    owned <- x9, upsets <- x8, renderRow <- x1, queue <- x2, submitting <- x3,
    flag <- x4, stopping <- x5, engine <- x6, hidden <- x7, previous <- x10,
    output <- x11, unwritten <- x12

Glossaries == INSTANCE GlossaryBook WITH
    Ids <- GlossaryIds, Texts <- HeardTexts,
    release <- x5, saving <- x4, cues <- x2, changes <- x3, up <- x1, book <- x6,
    correction <- x7, owed <- x8, typed <- x9

Drafts == INSTANCE SubtitleDrafts WITH
    Texts <- DraftTexts, Trimmed <- DraftTrimmed,
    stored <- x4, writes <- x6, shown <- x1, draft <- x2, timer <- x3, copy <- x5,
    foreign <- x7, allowed <- x8, intent <- x9, conflict <- x10

Notebook == INSTANCE LearningNotebook WITH
    Whole <- WholeSpan, MaxChanges <- MaxNotes,
    made <- x2, lookup <- x8, changes <- x3, job <- x1, cue <- x4, items <- x5,
    uses <- x6, results <- x7, pick <- x9, decided <- x10, fetched <- x11

Exports == INSTANCE SubtitleExport WITH
    cues <- x2, outcome <- x4, owned <- x9, troubles <- x1, generated <- x3,
    directory <- x5, export <- x6, automatic <- x7, shared <- x8

Server == INSTANCE TranslationServer WITH
    handle <- x5, at <- x3, outcome <- x4, calls <- x2, upsets <- x8, process <- x1,
    lock <- x6, sent <- x7

Media == INSTANCE MediaServing WITH
    Lengths <- FileLengths,
    handle <- x5, writes <- x6, file <- x1, registered <- x2, reply <- x3, pieces <- x4,
    body <- x7, ending <- x8
===============================================================================
