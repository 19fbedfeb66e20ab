---------------------------- MODULE DesktopPartsMC ----------------------------
(***************************************************************************)
(* Small instances of the parts, and beside them the computations over     *)
(* texts (stitching, cutting into cues, terms, scores), which have hardly  *)
(* a state and are looked at on a few inputs each.                         *)
(***************************************************************************)
EXTENDS DesktopParts

TwoRuns == {"c1", "c2"}
OneRange == [c \in TwoRuns |-> "range"]

LowerCase == [c \in {"a", "A", "b", " "} |-> CASE c = "A" -> "a" [] c = " " -> None
                                                [] OTHER -> c]
OneByte == [c \in {"a", "b"} |-> 1]
\* A text twice, with a blank in it, the end of which starts the next cue.
Line(text, duration) == [text |-> text, duration |-> duration]
OneTranscript == {<<Line(<<"a", "b">>, 1), Line(<<"A", " ", "b", "b">>, 2),
                    Line(<<"a", "b", "b">>, 0)>>}
TwoRenders == {"r1", "r2"}
OneOutput == [r \in TwoRenders |-> "video.mp4"]

Asked(options, targets, context) ==
    [options |-> options, targets |-> targets, context |-> context]
\* The first goes with the second, not with the third, which has another text for its
\* cue, nor with the fourth; the second and the third are too large together.
FourRequests == {Asked("a", <<<<1, "old">>>>, {<<2, "old">>}),
                 Asked("a", <<<<2, "old">>, <<4, "old">>>>, {}),
                 Asked("a", <<<<3, "old">>, <<5, "old">>>>, {<<1, "new">>}),
                 Asked("b", <<<<6, "old">>>>, {})}
TwoVersions == <<"v1", "v2">>
\* One glossary corrects "heard" and "ehard", the others nothing.
Corrections ==
    LET texts == {"heard", "ehard", "right", "tight"}
        corrected == [t \in texts |-> CASE t = "heard" -> "right" [] t = "ehard" -> "tight"
                                        [] OTHER -> t] IN
    [terms \in {"v1", "v2", "u1"} |->
        IF terms \in {"u1", "v2"} THEN corrected ELSE [t \in texts |-> t]]

\* "a " is trimmed when it is written.
\* The trimmed text and the text of the cue may be typed too.
Written == [t \in {"a ", "a", "o", "blank"} |-> IF t = "a " THEN "a" ELSE t]

\* The first word of one line is the other, when case is folded.
Selected == [line \in {"Haru haru", "haru"} |->
    [span \in {"first", "whole"} |->
        CASE line = "haru" -> "haru"
          [] line # "haru" /\ span = "first" -> "Haru"
          [] OTHER -> "Haru haru"]]
Folded == [text \in {"haru", "Haru", "Haru haru"} |-> IF text = "Haru" THEN "haru" ELSE text]
Translated == [line \in {"Haru haru", "haru"} |-> IF line = "haru" THEN "spring" ELSE None]

Span(first, last) == [first |-> first, last |-> last]
\* None at all; from, to, and a suffix; an empty and a reversed one; two; too many.
TenRanges ==
    {<<>>, <<Span(0, 0)>>, <<Span(1, None)>>, <<Span(None, 2)>>, <<Span(None, 0)>>,
     <<Span(2, 1)>>, <<Span(None, None)>>, <<Span(1, 9)>>,
     <<Span(0, 1), Span(2, None)>>, <<Span(None, 1), Span(0, 9), Span(1, 1)>>}
OneView == {[from |-> 0, to |-> 9, points |-> 2]}
FiveCommands == {"transcribe", "process and render", "translate", "apply glossary", "render"}

(***************************************************************************)
(* The computations.                                                       *)
(***************************************************************************)
\* Nine letters; nine times the same; with a pause and a full stop.
ThreeSpeeches == {<<"a", "b", "c", "d", "e", "f", "g", "h", "i">>,
                  <<"a", "a", "a", "a", "a", "a", "a", "a", "a">>,
                  <<"a", "b", None, "c", "d", ".", "e", "f", "g">>}
SixCuts == {<<1, 4>>, <<1, 5>>, <<2, 2>>, <<2, 3>>, <<2, 6>>, <<3, 2>>}
Speech == INSTANCE SpeechStitching WITH
    Duration <- 9, ChunkSize <- 4, Margin <- 2, AnchorSize <- 2, AnchorPause <- 1,
    CuePause <- 2, CueShortest <- 2, CueLength <- 4, CueSize <- 4,
    Speeches <- ThreeSpeeches, Cuts <- SixCuts, Slips <- {<<1, 4>>, <<2, 4>>},
    Stop <- ".", Misheard <- "?", Lost <- {{}, {2}},
    hearing <- x1, stitched <- x2, cues <- x3

Shape(gap, size, stop) == [gap |-> gap, size |-> size, stop |-> stop]
FourShapes == {Shape(0, 1, FALSE), Shape(0, 3, FALSE), Shape(2, 2, FALSE), Shape(0, 2, TRUE)}
Planner == INSTANCE TranslationPlanning WITH
    Shapes <- FourShapes, MaxCues <- 4, MaxTargets <- 2, MaxTargetChars <- 4,
    PauseBoundary <- 2, ContextWindow <- 3, MaxContextChars <- 7,
    timeline <- x1, asked <- x2, plan <- x3

RankOf == [c \in {" ", "a", "b", "K", "L", "t", "#", "=>", "@"} |->
              CASE c = " " -> 0 [] c = "a" -> 1 [] c = "b" -> 2 [] c = "K" -> 3 [] c = "L" -> 4
                [] c = "t" -> 5 [] c = "#" -> 6 [] c = "=>" -> 7 [] OTHER -> 8]
Term(source, target, scope, group) ==
    [source |-> source, target |-> target, scope |-> scope, group |-> group]
\* A core spelling that a group corrects to; words; sources that are targets; one source
\* with one target in two scopes; terms that a line is mistaken by; what is refused.
NineTables ==
    {<<Term(<<"a">>, None, "core", None), Term(<<"b">>, <<"a">>, "content", "g")>>,
     <<Term(<<" ", "K">>, <<"a">>, "core", None),
       Term(<<"K", "L">>, <<"K">>, "correction_only", None)>>,
     <<Term(<<"a", "b">>, <<"b">>, "core", None), Term(<<"b", "a">>, <<"a">>, "core", None)>>,
     <<Term(<<"a">>, <<"b">>, "core", None), Term(<<"a">>, <<"b">>, "content", "g")>>,
     <<Term(<<"#", "a">>, None, "core", None)>>,
     <<Term(<<"a", "=>", "b">>, <<"b">>, "core", None)>>,
     <<Term(<<"a">>, <<"b", "=>", "a">>, "core", None)>>,
     <<Term(<<"@", "a">>, None, "core", None), Term(<<"a">>, None, "content", "g")>>,
     <<Term(<<"a">>, <<" ">>, "correction_only", None)>>}
SixTranscripts ==
    [source : {<<"K", "L", " ", "K">>, <<"K", "K", "a", "b", "a">>,
               <<"a", "b", "a", "b", "K">>},
     translation : {None, <<"a", "K">>}]
GlossaryFiles == INSTANCE GlossaryText WITH
    Blank <- " ", Tab <- "t", Hash <- "#", Arrow <- "=>", Prefix <- "@",
    Katakana <- {"K", "L"}, Rank <- RankOf, Tables <- NineTables, Selections <- {{}, {"g"}},
    Transcripts <- SixTranscripts,
    draft <- x1, terms <- x2, entries <- x3, selection <- x4, lines <- x5, cue <- x6

EntityNames == [c \in {"&", "<"} |-> IF c = "&" THEN "amp;" ELSE "lt;"]
Capitals == [c \in {"a", "b"} |-> IF c = "a" THEN "A" ELSE "B"]
\* One with two terms, one within the other; one that spells an entity.
FourTexts == {<<"a", "b", "a", "b", "b">>, <<"&", "lt;", "a">>, <<"a", "&", "b">>,
              <<"b", "<", "b", "a">>}
FourProtections == {{}, {<<"a">>, <<"a", "b">>}, {<<"b", "b">>, <<"&", "b">>},
                    {<<"b", "a">>, <<"<">>}}
Names == INSTANCE TermProtection WITH
    Texts <- FourTexts, Protections <- FourProtections, Tags <- <<"t1", "t2", "t3">>,
    Spaced <- <<"t1 ", "t2 ", "t3 ">>, Names <- EntityNames, Foreign <- Capitals,
    LineLimit <- 1, MaxLines <- 2, MaxLapses <- 1,
    asked <- x1, answers <- x2, tries <- x3, outcome <- x4, lapses <- x5

Separated == [l \in {"en", "ja"} |-> l = "en"]
SizeOf == [l \in {"en", "ja"} |-> IF l = "en" THEN 4 ELSE 3]
Said(start, end, text) == [start |-> start, end |-> end, text |-> text]
\* Short, too long, too many letters, with a pause, covered by another, of no time.
TenSegments ==
    {Said(0, 2, <<" ", "a">>), Said(0, 2, <<"b", ".">>), Said(2, 3, <<"b">>),
     Said(2, 3, <<"a", " ", " ", "b", "c">>), Said(2, 7, <<"c", "a", " ", "b", ".", "c">>),
     Said(5, 6, <<"a", ".">>), Said(7, 8, <<"a", "b", "c", "d", "e">>),
     Said(6, 9, <<"b", " ", "c">>), Said(6, 6, <<" ">>), Said(9, 9, <<"a">>)}
Refiner == INSTANCE CueRefinement WITH
    Blank <- " ", Stops <- {"."}, Languages <- Separated, Duration <- 5, Shortest <- 2,
    Pause <- 2, Size <- SizeOf, ArtifactDuration <- 1, ArtifactSize <- 3,
    Segments <- TenSegments, MaxSegments <- 3,
    language <- x1, raw <- x2, cues <- x3, refused <- x4

SmallLetters == [c \in {"A"} |-> "a"]
Heard(from, to, text) == [from |-> from, to |-> to, text |-> text]
Cue(from, to, text, status) == [from |-> from, to |-> to, text |-> text, status |-> status]
\* With a cue that does not count; with one that overlaps; and what cannot be scored.
FiveReferences ==
    {<<Cue(0, 2, <<"a", "b", " ", "A">>, "verified"), Cue(2, 3, <<"b">>, "uncertain"),
       Cue(3, 5, <<"b", "'", ".", "a">>, "verified")>>,
     <<Cue(0, 3, <<"b", "a", " ", "a">>, "verified"), Cue(2, 4, <<"a">>, "overlap")>>,
     <<Cue(2, 2, <<"a">>, "verified")>>, <<Cue(0, 3, <<".", "!">>, "verified")>>,
     <<Cue(0, 3, <<"a">>, "uncertain")>>}
SevenSegments ==
    {Heard(0, 2, <<"A", "b", " ", "a">>), Heard(0, 1, <<"a", "b">>), Heard(1, 2, <<" ", "A">>),
     Heard(2, 3, <<"b">>), Heard(3, 5, <<"b", "'", ".", "a">>),
     Heard(2, 4, <<"a", " ", "b", "b">>), Heard(0, 3, <<"b", "a", " ", "a">>)}
Evaluation == INSTANCE AsrEvaluation WITH
    English <- "en", Languages <- {"en", "ja"}, Blank <- " ", Apostrophe <- "'",
    Punctuation <- {".", "!"}, Lower <- SmallLetters, References <- FiveReferences,
    Segments <- SevenSegments, MaxSegments <- 3,
    language <- x1, reference <- x2, heard <- x3, report <- x4

Unset5 == x5 = None /\ Unset6
Unset4 == x4 = None /\ Unset5
Rest5 == UNCHANGED x5 /\ Rest6
Rest4 == UNCHANGED x4 /\ Rest5

TextInit ==
    \/ subject = "speech" /\ Speech!SpeechInit /\ Unset4
    \/ subject = "planner" /\ Planner!PlanInit /\ Unset4
    \/ subject = "terms" /\ GlossaryFiles!TextInit /\ Unset7
    \/ subject = "names" /\ Names!TermInit /\ Unset6
    \/ subject = "segments" /\ Refiner!RefinementInit /\ Unset5
    \/ subject = "evaluation" /\ Evaluation!EvaluationInit /\ Unset5

Stitches == subject = "speech" /\ Speech!SpeechNext /\ Rest4
Plans == subject = "planner" /\ Planner!PlanNext /\ Rest4
AppliesTerms == subject = "terms" /\ GlossaryFiles!TextNext /\ Rest7
ProtectsTerms == subject = "names" /\ Names!TermNext /\ Rest6
Refines == subject = "segments" /\ Refiner!RefinementNext /\ Rest5
Evaluates == subject = "evaluation" /\ Evaluation!EvaluationNext /\ Rest5

TextNext ==
    \/ Stitches \/ Plans \/ AppliesTerms \/ ProtectsTerms \/ Refines \/ Evaluates

AllSpec == (Init \/ TextInit) /\ [][Next \/ TextNext]_parts /\ WF_parts(Progress)

\* Joining chunks loses no speech, and doubles none where every seam is aligned; cutting
\* what was heard into cues loses none either; a task reads from its snapshot the terms it
\* was started with; the repetitions of a transcript are reported; a score is the distance
\* of what was heard from the reference (acoustic_stitch.rs, subtitle_segmentation.rs,
\* segment.rs, glossary.rs, asr_quality.rs, evaluation.rs).
WordsKept ==
    /\ Moves("speech") => Speech!StitchKeepsSpeech
    /\ Moves("segments") => Refiner!RefinedKeepsText
    /\ Moves("terms") => GlossaryFiles!GlossaryMeansTheSame
    /\ Moves("review") => Review!RepetitionReported
    /\ Moves("evaluation") => Evaluation!ScoreFair

\* A plan translates every cue once, in groups and contexts within their limits; sent
\* together, a caller is answered as if it had asked alone; every line is answered with its
\* protected terms in it (translation_planner.rs, translation_batching.rs, deepl.rs,
\* openai_compatible.rs).
TranslationsOwn ==
    /\ Moves("planner") => Planner!PlanCoversTargets
    /\ Moves("batching") => Batching!RequestsOwn
    /\ Moves("names") => Names!TermsSurvive
=============================================================================
