----------------------------- MODULE AsrEvaluation ------------------------------
(***************************************************************************)
(* How a recognition is scored against a reference transcript              *)
(* (evaluation.rs): only what was heard during verified cues counts, in    *)
(* words of English and in characters of other languages, by the edits     *)
(* that lead from the reference to it.  Version and language of the files  *)
(* agree.                                                                  *)
(***************************************************************************)
EXTENDS Naturals, Sequences, FiniteSets, SequencesExt

CONSTANTS
    None,
    English, Languages,
    Blank, Apostrophe,
    Punctuation,       \* other marks
    Lower,             \* of each capital: the small letter
    References,        \* sequences of cues [from, to, text, status]
    Segments,          \* what may be heard: [from, to, text], in some order
    MaxSegments        \* a bound

VARIABLES language, reference, heard, report

evaluationVars == <<language, reference, heard, report>>

EvaluationInit ==
    /\ language \in Languages /\ reference \in References
    /\ heard = <<>> /\ report = None

\* normalize_english_words: the longest runs of letters and apostrophes.
Letter(c) == c # Blank /\ c \notin Punctuation
Lowered(text) == [k \in DOMAIN text |->
                    IF text[k] \in DOMAIN Lower THEN Lower[text[k]] ELSE text[k]]
Words(text) ==
    LET Run(i, j) == i <= j /\ \A k \in i..j : Letter(text[k])
        runs == {r \in (1..Len(text)) \X (1..Len(text)) :
                    /\ Run(r[1], r[2])
                    /\ r[1] = 1 \/ ~Letter(text[r[1] - 1])
                    /\ r[2] = Len(text) \/ ~Letter(text[r[2] + 1])}
        order == SetToSortSeq(runs, LAMBDA r, s : r[1] < s[1]) IN
    [j \in DOMAIN order |-> SubSeq(Lowered(text), order[j][1], order[j][2])]

\* normalize_characters: an apostrophe is a mark here.
Characters(text) == SelectSeq(text, LAMBDA c : Letter(c) /\ c # Apostrophe)

Units(text) == IF language = English THEN Words(text) ELSE Characters(text)

\* join(" ")
Joined(texts) ==
    FlattenSeq([k \in DOMAIN texts |-> IF k = 1 THEN texts[k] ELSE <<Blank>> \o texts[k]])

\* levenshtein: one row after the other, left[k] against every prefix of right.
Row(left, right, k, previous) ==
    LET row[j \in 0..Len(right)] ==
            IF j = 0 THEN k
            ELSE Min({previous[j] + 1, row[j - 1] + 1,
                      previous[j - 1] + (IF left[k] = right[j] THEN 0 ELSE 1)})
    IN  row
\* Mutant of Levenshtein: a substitution is never cheaper than two edits.
LevenshteinWithoutSubstitution(left, right) ==
    FoldLeft(LAMBDA previous, k :
                LET row[j \in 0..Len(right)] ==
                        IF j = 0 THEN k
                        ELSE IF left[k] = right[j] THEN previous[j - 1]
                        ELSE Min({previous[j] + 1, row[j - 1] + 1})
                IN  row,
             [j \in 0..Len(right) |-> j], [k \in DOMAIN left |-> k])[Len(right)]
Levenshtein(left, right) ==
    FoldLeft(LAMBDA previous, k : Row(left, right, k, previous),
             [j \in 0..Len(right) |-> j], [k \in DOMAIN left |-> k])[Len(right)]
Verified == SelectSeq(reference, LAMBDA cue : cue.status = "verified")
Overlaps(said, cue) == said.from < cue.to /\ said.to > cue.from
\* evaluate_asr_files
Counted ==
    SelectSeq(heard, LAMBDA said : \E k \in DOMAIN Verified : Overlaps(said, Verified[k]))
TextsOf(cues) == [k \in DOMAIN cues |-> cues[k].text]

\* evaluate_asr
Evaluated ==
    LET expected == Units(Joined(TextsOf(Verified)))
        got == Units(Joined(TextsOf(Counted))) IN
    IF (\E k \in DOMAIN reference : reference[k].to <= reference[k].from)
          \/ Verified = <<>> \/ expected = <<>>
    THEN [refused |-> TRUE]
    ELSE [refused |-> FALSE, edits |-> Levenshtein(expected, got), units |-> Len(expected),
          scored |-> Len(Verified), excluded |-> Len(reference) - Len(Verified)]

Hear(said) ==
    /\ report = None /\ Len(heard) < MaxSegments
    /\ heard' = Append(heard, said)
    /\ UNCHANGED <<language, reference, report>>
Evaluate ==
    /\ report = None
    /\ report' = Evaluated
    /\ UNCHANGED <<language, reference, heard>>

EvaluationNext == (\E said \in Segments : Hear(said)) \/ Evaluate

EvaluationSpec == EvaluationInit /\ [][EvaluationNext]_evaluationVars

(***************************************************************************)
(* Properties.                                                             *)
(***************************************************************************)
\* The fewest edits: some units of each stay in their order, each against one of the
\* other; what is left over was lost or added.
Edits(left, right) ==
    LET Rank(S, k) == Cardinality({m \in S : m <= k})
        Lost(kept, against) ==
            {k \in kept : left[k] # right[CHOOSE m \in against : Rank(against, m) = Rank(kept, k)]}
        Cost(kept, against) ==
            Len(left) + Len(right) - 2 * Cardinality(kept) + Cardinality(Lost(kept, against)) IN
    Min(UNION {{Cost(kept, against) : kept \in kSubset(n, DOMAIN left),
                                      against \in kSubset(n, DOMAIN right)} :
                  n \in 0..Min({Len(left), Len(right)})})

\* A score is the fewest edits between the verified cues and what was heard during them.
\* Whoever hears those cues as they are, in their order, is not charged for what else was
\* heard outside of them, nor for where a text without words is cut.
ScoreFair ==
    report # None /\ ~report.refused =>
        /\ report.edits = Edits(Units(Joined(TextsOf(Verified))), Units(Joined(TextsOf(Counted))))
        /\ (language # English
              /\ FlattenSeq(TextsOf(Counted)) = FlattenSeq(TextsOf(Verified))) =>
              report.edits = 0
        /\ (/\ Len(Counted) = Len(Verified)
            /\ \A k \in DOMAIN Counted : Lowered(Counted[k].text) = Lowered(Verified[k].text))
           /\ language = English => report.edits = 0
=============================================================================
