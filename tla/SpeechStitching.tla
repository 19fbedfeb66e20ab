---------------------------- MODULE SpeechStitching ----------------------------
(***************************************************************************)
(* From what is heard in overlapping chunks to cues: AcousticPlan::new     *)
(* cuts the audio, map_chunk_timestamps brings the units of a chunk to     *)
(* media time, stitch joins the chunks at anchors (acoustic_stitch.rs),    *)
(* segment_precise_units makes cues (subtitle_segmentation.rs).            *)
(*                                                                         *)
(* Time is counted in letters: at most one is spoken at an instant.  A     *)
(* unit is [start, end, text], its text the sequence of its letters.  The  *)
(* numbers of the code are constants.                                      *)
(***************************************************************************)
EXTENDS Integers, Sequences, SequencesExt, FiniteSets

CONSTANTS
    None,
    Duration,      \* of the audio
    ChunkSize,     \* 120000 ms
    Margin,        \* 5000 ms read before and after a chunk
    AnchorSize,    \* 12 characters, in 12 units at most
    AnchorPause,   \* 1500 ms
    CueShortest,   \* MIN_DURATION_MS
    CuePause,      \* PAUSE_SPLIT_MS
    CueLength,     \* MAX_DURATION_MS
    CueSize,       \* max_chars
    Speeches,      \* sequences of Duration letters, None where nobody speaks
    Cuts,          \* bound: chunks and instants of their windows where a recogniser may cut
    Slips,         \* bound: where it may mishear
    Stop,          \* the letter that ends a sentence
    Misheard,      \* what a recogniser may take a letter for
    Lost           \* bound: sets of chunks without evidence

VARIABLES
    hearing,       \* what the recogniser answered for each chunk, None before
    stitched,      \* [units, seams]
    cues           \* the cue texts with their times

speechVars == <<hearing, stitched, cues>>

Least(a, b) == IF a <= b THEN a ELSE b
Most(a, b) == IF a >= b THEN a ELSE b

\* AcousticPlan::new.
ChunkCount == (Duration + ChunkSize - 1) \div ChunkSize
Chunk(i) ==
    LET start == (i - 1) * ChunkSize
        end == Least(start + ChunkSize, Duration) IN
    [start |-> start, end |-> end,
     readStart |-> Most(start - Margin, 0), readEnd |-> Least(end + Margin, Duration)]
Chunks == 1..ChunkCount

SpeechInit == hearing = None /\ stitched = None /\ cues = None

(***************************************************************************)
(* What is heard.                                                          *)
(***************************************************************************)
\* The letters heard in a window, cut into units at silence and before the instants of
\* cuts; times count from the start of the window.
Heard(letters, cuts) ==
    LET hear(units, t) ==
        LET n == Len(units) IN
        CASE letters[t] = None -> units
          [] letters[t] # None /\ (n = 0 \/ t \in cuts \/ units[n].end # t - 1) ->
                Append(units, [start |-> t - 1, end |-> t, text |-> <<letters[t]>>])
          [] OTHER -> [units EXCEPT ![n].end = t, ![n].text = Append(@, letters[t])] IN
    FoldLeft(hear, <<>>, [t \in DOMAIN letters |-> t])

\* map_chunk_timestamps: a unit that starts after the window, within its right
\* margin, is left out; one that ends after it is cut off.
InMediaTime(chunk, units) ==
    LET length == chunk.readEnd - chunk.readStart
        inside == SelectSeq(units, LAMBDA u : u.start < length) IN
    [k \in DOMAIN inside |->
        [inside[k] EXCEPT !.start = chunk.readStart + @,
                          !.end = chunk.readStart + Least(@, length)]]

(***************************************************************************)
(* stitch.                                                                 *)
(***************************************************************************)
Text(units) == FlattenSeq([k \in DOMAIN units |-> units[k].text])
\* normalized: letters only.
Plain(units) == SelectSeq(Text(units), LAMBDA c : c # Stop)
StartsWith(s, t) == Len(t) <= Len(s) /\ SubSeq(s, 1, Len(t)) = t
EndsWith(s, t) == Len(t) <= Len(s) /\ SubSeq(s, Len(s) - Len(t) + 1, Len(s)) = t
From(s, i) == SubSeq(s, i, Len(s))
\* sort_by_key is stable.
ByStart(units) ==
    LET before(i, j) == \/ units[i].start < units[j].start
                        \/ units[i].start = units[j].start /\ i <= j
        order == SortSeq([k \in DOMAIN units |-> k], before) IN
    [k \in DOMAIN units |-> units[order[k]]]

\* anchor_text: as many units as letters at most, up to a pause or until there are
\* enough letters.
AnchorText(units, i) ==
    LET goesOn(k) == /\ units[k].start - units[k - 1].end <= AnchorPause
                     /\ Len(Plain(SubSeq(units, i, k - 1))) < AnchorSize
        end == Least(Len(units), i + AnchorSize - 1)
        last == CHOOSE k \in i..end :
                    /\ \A n \in (i + 1)..k : goesOn(n)
                    /\ k = end \/ ~goesOn(k + 1) IN
    Plain(SubSeq(units, i, last))

Candidates(units, chunk) ==
    {i \in DOMAIN units : /\ units[i].end > chunk.readStart /\ units[i].start <= chunk.start
                          /\ Len(AnchorText(units, i)) >= AnchorSize}
Matches(left, right, chunk) ==
    {p \in Candidates(left, chunk) \X Candidates(right, chunk) :
        LET a == AnchorText(left, p[1])  b == AnchorText(right, p[2]) IN
        /\ left[p[1]].start < right[p[2]].end /\ right[p[2]].start < left[p[1]].end
        /\ StartsWith(a, b) \/ StartsWith(b, a)}
\* Only one match with this unit of either side.
Unique(p, matches) == \A q \in matches \ {p} : q[1] # p[1] /\ q[2] # p[2]

\* Mutant of KeepsOwned: only what the right side gives up is compared.
KeepsOwnedRight(p, left, right, chunk, leftReadEnd) ==
    LET given == SelectSeq(SubSeq(right, 1, p[2] - 1), LAMBDA u : u.end > chunk.start) IN
    EndsWith(Plain(SubSeq(left, 1, p[1] - 1)), Plain(given))

\* What the left side gives up and owns is the beginning of what replaces it, what the
\* right side gives up and owns the end of what is kept.
KeepsOwned(p, left, right, chunk, leftReadEnd) ==
    LET i == p[1]  j == p[2]
        after == SelectSeq(From(left, i + 1), LAMBDA u : u.start < chunk.start)
        instead == SelectSeq(From(right, j), LAMBDA u : u.start < leftReadEnd)
        given == SelectSeq(SubSeq(right, 1, j - 1), LAMBDA u : u.end > chunk.start) IN
    /\ StartsWith(Plain(instead), Plain(<<left[i]>> \o after))
    /\ EndsWith(Plain(SubSeq(left, 1, i - 1)), Plain(given))

Away(t, chunk) == Most(t, chunk.start) - Least(t, chunk.start)
Nearest(anchors, left, right, chunk) ==
    LET far(p) == Away(left[p[1]].start, chunk) + Away(right[p[2]].start, chunk) IN
    CHOOSE p \in anchors : \A q \in anchors :
        \/ far(p) < far(q)
        \/ far(p) = far(q) /\ p[1] < q[1]
        \/ far(p) = far(q) /\ p[1] = q[1] /\ p[2] <= q[2]

\* One more chunk: aligned at the nearest anchor, or both sides kept and the seam
\* noted for review when they overlap.
Join(done, before, k, units) ==
    LET chunk == Chunk(k)  left == done.units  right == ByStart(units)
        matches == Matches(left, right, chunk)
        anchors == {p \in matches : /\ before = k - 1
                        /\ Unique(p, matches)
                        /\ KeepsOwned(p, left, right, chunk, Chunk(before).readEnd)}
        overlaps == \/ \E i \in DOMAIN left : left[i].end > chunk.start
                    \/ \E j \in DOMAIN right : right[j].start < chunk.start IN
    IF anchors # {}
    THEN LET p == Nearest(anchors, left, right, chunk) IN
         [units |-> ByStart(SubSeq(left, 1, p[1] - 1) \o From(right, p[2])),
          seams |-> Append(done.seams, "aligned")]
    ELSE [units |-> ByStart(left \o right),
          seams |-> IF overlaps THEN Append(done.seams, "unresolved") ELSE done.seams]

\* The chunks there is evidence of; a chunk after a missing one is never aligned.
Stitch(answers) ==
    LET present == SelectSeq([k \in Chunks |-> k], LAMBDA k : answers[k] # None)
        media(k) == InMediaTime(Chunk(k), answers[k])
        join(done, n) == Join(done, present[n - 1], present[n], media(present[n])) IN
    IF present = <<>> THEN [units |-> <<>>, seams |-> <<>>]
    ELSE FoldLeft(join, [units |-> ByStart(media(present[1])), seams |-> <<>>],
                  Tail([n \in DOMAIN present |-> n]))

(***************************************************************************)
(* segment_precise_units.                                                  *)
(***************************************************************************)
FullStop(cue) == cue.text[Len(cue.text)] = Stop /\ cue.end - cue.start >= CueShortest
Grown(done, unit) ==
    LET cue == done[Len(done)] IN
    IF \/ FullStop(cue)
       \/ unit.start - cue.end >= CuePause
       \/ unit.end - cue.start > CueLength
       \/ Len(cue.text) + Len(unit.text) > CueSize
    THEN Append(done, unit)
    ELSE [done EXCEPT ![Len(done)] = [cue EXCEPT !.end = unit.end, !.text = @ \o unit.text]]
Segmented(units) ==
    IF units = <<>> THEN <<>>
    ELSE FoldLeft(Grown, <<units[1]>>, Tail(units))

(***************************************************************************)
(* Actions.                                                                *)
(***************************************************************************)
\* A speech is heard chunk by chunk, each cut into units its own way, with letters
\* misheard and, it may be, a unit after the end of the first window; the evidence of
\* some chunks may be lost.
Hear(speech, cuts, misheard, late, lost) ==
    /\ hearing = None
    /\ hearing' = [k \in Chunks |->
          LET c == Chunk(k)
              length == c.readEnd - c.readStart
              letters == [t \in 1..length |->
                  IF <<k, t>> \in misheard THEN Misheard ELSE speech[c.readStart + t]]
              beyond == [start |-> length, end |-> length + 1, text |-> <<Misheard>>] IN
          IF k \in lost THEN None
          ELSE Heard(letters, {t \in 1..length : <<k, t>> \in cuts})
                  \o IF late /\ k = 1 THEN <<beyond>> ELSE <<>>]
    /\ UNCHANGED <<stitched, cues>>

StitchChunks ==
    /\ hearing # None /\ stitched = None
    /\ stitched' = Stitch(hearing)
    /\ UNCHANGED <<hearing, cues>>

SegmentUnits ==
    /\ stitched # None /\ cues = None
    /\ cues' = Segmented(stitched.units)
    /\ UNCHANGED <<hearing, stitched>>

Hears ==
    \E speech \in Speeches, cuts \in SUBSET Cuts, misheard \in SUBSET Slips :
    \E late \in BOOLEAN, lost \in Lost : Hear(speech, cuts, misheard, late, lost)
SpeechNext == Hears \/ StitchChunks \/ SegmentUnits
SpeechSpec == SpeechInit /\ [][SpeechNext]_speechVars

(***************************************************************************)
(* Property.                                                               *)
(***************************************************************************)
\* The plain letters a chunk heard within its own range.
OwnLetters(k) ==
    LET units == IF hearing[k] = None THEN <<>> ELSE InMediaTime(Chunk(k), hearing[k])
        own(u) == [u EXCEPT !.text =
            SubSeq(@, Most(Chunk(k).start - u.start, 0) + 1,
                   Least(Chunk(k).end - u.start, Len(@)))] IN
    Plain([n \in DOMAIN units |-> own(units[n])])
IsSubSequence(s, t) ==
    LET next(n, c) == IF n < Len(s) /\ s[n + 1] = c THEN n + 1 ELSE n IN
    FoldLeft(next, 0, t) = Len(s)
AllAligned == Len(stitched.seams) = ChunkCount - 1 /\ ToSet(stitched.seams) = {"aligned"}

\* Joining the chunks loses nothing that a chunk heard in its own range, in the order it
\* was heard, whatever the anchor, the cuts and the letters misheard; where every seam
\* was aligned and no letter was heard twice, the result is exactly the owned speech,
\* with nothing doubled; and the cues say what the units say, each within the limits of
\* a cue unless it is a single unit (stitch, segment_precise_units).
StitchKeepsSpeech ==
    /\ stitched # None =>
         LET own == FlattenSeq([k \in Chunks |-> OwnLetters(k)])
             text == Plain(stitched.units) IN
         /\ \A k \in Chunks : IsSubSequence(OwnLetters(k), text)
         /\ AllAligned /\ IsInjective(own) => text = own
    /\ cues # None =>
         /\ Text(cues) = Text(stitched.units)
         /\ \A n \in DOMAIN cues :
              \/ Len(cues[n].text) <= CueSize /\ cues[n].end - cues[n].start <= CueLength
              \/ \E i \in DOMAIN stitched.units : stitched.units[i] = cues[n]
=============================================================================
