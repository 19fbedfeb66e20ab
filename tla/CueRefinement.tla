----------------------------- MODULE CueRefinement -----------------------------
(***************************************************************************)
(* The cues that are made of the segments of a provider which times no     *)
(* words (segment.rs): equal ranges are joined, segments that stand in     *)
(* another's time are dropped, neighbours are merged up to the limits of a *)
(* cue, and a text that is too long is split, its time in proportion.      *)
(*                                                                         *)
(* A segment is [start, end, text]; a text is a sequence of characters.    *)
(***************************************************************************)
EXTENDS Naturals, Sequences, SequencesExt

CONSTANTS
    None, Blank,
    Stops,             \* characters that end a sentence
    Languages,         \* of each source language: whether it separates its words
    Duration, Shortest, Pause, Size,     \* limits of a cue; Size of each language
    ArtifactDuration, ArtifactSize,      \* what a covered segment is dropped by
    Segments,          \* what a provider may answer
    MaxSegments        \* bound

VARIABLES
    language, raw, cues,
    refused        \* the segments have no time

refinementVars == <<language, raw, cues, refused>>

RefinementInit ==
    /\ language \in DOMAIN Languages /\ raw = <<>>
    /\ cues = None /\ refused = FALSE

Words == Languages[language]
Limit == Size[language]
Monus(a, b) == IF a > b THEN a - b ELSE 0
Length(s) == Monus(s.end, s.start)

(***************************************************************************)
(* Texts.                                                                  *)
(***************************************************************************)
\* normalize_text: of the blanks between two words one is kept, or none.
Normalized(text) ==
    LET ink == {k \in DOMAIN text : text[k] # Blank}
        kept == SelectSeq([k \in DOMAIN text |-> k], LAMBDA k :
                    \/ k \in ink
                    \/ Words /\ k - 1 \in ink /\ \E o \in ink : o > k) IN
    [i \in DOMAIN kept |-> text[kept[i]]]
Trim(text) ==
    LET ink == {k \in DOMAIN text : text[k] # Blank} IN
    IF ink = {} THEN <<>>
    ELSE SubSeq(text, CHOOSE k \in ink : \A o \in ink : k <= o,
                      CHOOSE k \in ink : \A o \in ink : k >= o)
Merged(left, right) ==
    IF Words THEN Trim(left) \o <<Blank>> \o Trim(right) ELSE left \o right
EndsSentence(text) == text # <<>> /\ Last(text) \in Stops

\* split_long_text: the buffer is emptied at a stop, and when it is full.
Split(text) ==
    LET Take(state, ch) ==
            LET buffer == Append(state.buffer, ch) IN
            IF ch \in Stops \/ Len(buffer) >= Limit
            THEN [parts |-> Append(state.parts, Trim(buffer)), buffer |-> <<>>]
            ELSE [state EXCEPT !.buffer = buffer]
        done == FoldLeft(Take, [parts |-> <<>>, buffer |-> <<>>], text) IN
    IF Trim(done.buffer) = <<>> THEN done.parts ELSE Append(done.parts, Trim(done.buffer))

(***************************************************************************)
(* Segments.                                                               *)
(***************************************************************************)
\* coalesce_equal_ranges.
Coalesced(segments) ==
    FoldLeft(LAMBDA out, s :
        IF out # <<>> /\ Last(out).start = s.start /\ Last(out).end = s.end
        THEN [out EXCEPT ![Len(out)].text = Merged(@, s.text)]
        ELSE Append(out, s), <<>>, segments)

\* drop_covered_timing_artifacts.
Artifact(segments, k) ==
    /\ Length(segments[k]) <= ArtifactDuration /\ Len(segments[k].text) >= ArtifactSize
    /\ k < Len(segments)
    /\ segments[k + 1].start <= segments[k].start /\ segments[k + 1].end > segments[k].end
WithoutArtifacts(segments) ==
    LET kept == SelectSeq([k \in DOMAIN segments |-> k],
                          LAMBDA k : ~Artifact(segments, k)) IN
    [i \in DOMAIN kept |-> segments[kept[i]]]

\* push_split: the parts follow each other, and the last one ends with the segment.
Pieces(s) ==
    LET parts == Split(s.text)
        total == FoldLeft(LAMBDA n, part : n + Len(part), 0, parts)
        duration == IF Length(s) = 0 THEN 1 ELSE Length(s)
        start[k \in 1..Len(parts) + 1] ==
            IF k = 1 THEN s.start ELSE start[k - 1] + (duration * Len(parts[k - 1])) \div total IN
    IF Len(s.text) <= Limit \/ Len(parts) <= 1 THEN <<s>>
    ELSE [k \in DOMAIN parts |->
            [start |-> start[k], end |-> IF k = Len(parts) THEN s.end ELSE start[k + 1],
             text |-> parts[k]]]

\* Mutant of Flush: what follows a pause is merged.
FlushAtLimits(cue, s) ==
    \/ EndsSentence(cue.text) /\ Length(cue) >= Shortest
    \/ Monus(s.end, cue.start) > Duration
    \/ Len(cue.text) + Len(s.text) > Limit
Flush(cue, s) ==
    \/ EndsSentence(cue.text) /\ Length(cue) >= Shortest
    \/ Monus(s.start, cue.end) >= Pause
    \/ Monus(s.end, cue.start) > Duration
    \/ Len(cue.text) + Len(s.text) > Limit

\* refine.
Normal(segments) ==
    SelectSeq([k \in DOMAIN segments |->
                  [segments[k] EXCEPT !.text = Normalized(@)]], LAMBDA s : s.text # <<>>)
Refined(segments) ==
    LET Take(state, s) ==
            IF state.cue = <<>> THEN [state EXCEPT !.cue = <<s>>]
            ELSE IF Flush(state.cue[1], s)
            THEN [out |-> state.out \o Pieces(state.cue[1]), cue |-> <<s>>]
            ELSE [state EXCEPT !.cue = <<[start |-> @[1].start, end |-> s.end,
                                          text |-> Merged(@[1].text, s.text)]>>]
        done == FoldLeft(Take, [out |-> <<>>, cue |-> <<>>],
                         WithoutArtifacts(Coalesced(Normal(segments)))) IN
    IF done.cue = <<>> THEN done.out ELSE done.out \o Pieces(done.cue[1])

(***************************************************************************)
(* The actions.                                                            *)
(***************************************************************************)
Hear(s) ==
    /\ cues = None /\ ~refused /\ Len(raw) < MaxSegments
    /\ raw' = Append(raw, s)
    /\ UNCHANGED <<language, cues, refused>>

\* segment_timed_units: only what has a text needs a time.
Refine ==
    LET heard == SelectSeq(raw, LAMBDA s : Trim(s.text) # <<>>) IN
    /\ cues = None /\ ~refused
    /\ IF \E k \in DOMAIN heard : heard[k].end <= heard[k].start
       THEN refused' = TRUE /\ UNCHANGED cues
       ELSE cues' = Refined(heard) /\ UNCHANGED refused
    /\ UNCHANGED <<language, raw>>

RefinementNext == (\E s \in Segments : Hear(s)) \/ Refine

RefinementSpec == RefinementInit /\ [][RefinementNext]_refinementVars

(***************************************************************************)
(* Properties.                                                             *)
(***************************************************************************)
Letters(segments) ==
    SelectSeq(FlattenSeq([k \in DOMAIN segments |-> segments[k].text]),
              LAMBDA ch : ch # Blank)
\* The segments with text come one after another.
InOrder(segments) ==
    LET spoken == Normal(segments) IN
    \A j, k \in DOMAIN spoken : j < k => spoken[j].end <= spoken[k].start

\* No letter is lost or doubled but with a segment inside the time of another; no cue is
\* longer than its limit of letters, nor, if segments are in order, than the limit of
\* time unless a segment is; then also the cues are in order, a split one fills its
\* time, and no cue covers a pause between two segments (segment.rs:104).
RefinedKeepsText ==
    cues # None =>
        /\ \E kept \in SUBSET DOMAIN raw :
              /\ Letters(cues) = Letters([k \in DOMAIN raw |->
                    IF k \in kept THEN raw[k] ELSE [raw[k] EXCEPT !.text = <<>>]])
              /\ \A k \in DOMAIN raw \ kept :
                    \E o \in DOMAIN raw : o > k /\ raw[o].start <= raw[k].start
                                                /\ raw[o].end > raw[k].end
        /\ \A k \in DOMAIN cues : Len(cues[k].text) \in 1..Limit
        /\ InOrder(raw) =>
              LET spoken == Normal(raw)
                  longest == {Length(spoken[k]) : k \in DOMAIN spoken} IN
              /\ \A k \in DOMAIN cues : Length(cues[k]) <= Duration
                                          \/ \E n \in longest : Length(cues[k]) <= n
              /\ \A j, k \in DOMAIN cues : j < k => cues[j].end <= cues[k].start
              /\ \A j, k \in DOMAIN spoken :
                    k = j + 1 /\ Monus(spoken[k].start, spoken[j].end) >= Pause =>
                        \A i \in DOMAIN cues : \/ cues[i].end <= spoken[j].end
                                               \/ cues[i].start >= spoken[k].start
=============================================================================
