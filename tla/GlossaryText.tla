----------------------------- MODULE GlossaryText ------------------------------
(***************************************************************************)
(* What the terms of a glossary do to a task: they are normalised when     *)
(* they are saved, resolved for the task with its content groups, written  *)
(* to the snapshot file of the task, and read from it again whenever the   *)
(* task is prompted, translated or its transcript corrected (glossary.rs,  *)
(* local_glossary_service.rs).  A term is a sequence of characters; the    *)
(* arrow "=>" and the prefix "@correction-only " are one character each.   *)
(***************************************************************************)
EXTENDS Naturals, Sequences, SequencesExt

CONSTANTS
    None,
    Blank, Tab, Hash, Arrow, Prefix,    \* characters that a line may be parsed by
    Katakana,      \* letters that make words of their own
    Rank,          \* of each character: its place in the order of characters
    Tables,        \* what the user may save: sequences of [source, target, scope, group]
    Selections,    \* content groups of a task
    Transcripts    \* texts with their translation, None without one

VARIABLES
    draft,         \* the table the user has typed, None before
    terms,         \* the saved terms, None before and when they were refused
    entries,       \* the glossary of the task: sequence of [source, target, prompt]
    selection,
    lines,         \* the snapshot file
    cue            \* [before, source, translation, stale] of a corrected transcript

textVars == <<draft, terms, entries, selection, lines, cue>>

TextInit ==
    /\ draft = None /\ terms = None /\ entries = None /\ selection = {}
    /\ lines = None /\ cue = None

(***************************************************************************)
(* Terms and entries.                                                      *)
(***************************************************************************)
Trim(text) ==
    LET ink == {k \in DOMAIN text : text[k] \notin {Blank, Tab}} IN
    IF ink = {} THEN <<>>
    ELSE SubSeq(text, CHOOSE k \in ink : \A o \in ink : k <= o,
                      CHOOSE k \in ink : \A o \in ink : k >= o)
TrimTarget(target) == IF target = None \/ Trim(target) = <<>> THEN None ELSE Trim(target)
Elements(seq) == {seq[k] : k \in DOMAIN seq}

Trimmed(table) ==
    [k \in DOMAIN table |->
        [source |-> Trim(table[k].source), target |-> TrimTarget(table[k].target),
         scope |-> table[k].scope,
         group |-> IF table[k].scope = "content" THEN table[k].group ELSE None]]
Invalid(term) ==
    \/ term.source = <<>> \/ term.source = term.target
    \/ term.scope = "content" /\ term.group = None
    \/ term.scope = "correction_only" /\ term.target = None

\* normalized_glossary_terms.
NormalizedTerms(table) ==
    LET typed == Trimmed(table)
        prompted == {t.target : t \in {u \in Elements(typed) : u.scope # "correction_only"}} IN
    IF \/ \E t \in Elements(typed) : Invalid(t)
       \/ ~IsInjective([k \in DOMAIN typed |-> <<typed[k], table[k].group>>]) THEN None
    ELSE SelectSeq(typed, LAMBDA t : t.target # None \/ t.source \notin prompted)

\* Glossary::from_entries; every entry is trimmed.  Equal ones are joined in the first.
BadEntry(e) ==
    \/ e.source = <<>> \/ e.source = e.target
    \/ e.target = None /\ ~e.prompt
Same(e, o) == e.source = o.source /\ e.target = o.target
FromEntries(list) ==
    IF \E e \in Elements(list) : BadEntry(e) THEN None
    ELSE LET firsts == SelectSeq([k \in DOMAIN list |-> k],
                         LAMBDA k : \A o \in 1..k - 1 : ~Same(list[o], list[k])) IN
         [k \in DOMAIN firsts |->
            [list[firsts[k]] EXCEPT !.prompt =
                \E e \in Elements(list) : Same(e, list[firsts[k]]) /\ e.prompt]]

\* glossary_for_task.
Resolved(saved, groups) ==
    LET taken == SelectSeq(saved, LAMBDA t : t.scope = "content" => t.group \in groups) IN
    FromEntries([k \in DOMAIN taken |->
        [source |-> taken[k].source, target |-> taken[k].target,
         prompt |-> taken[k].scope # "correction_only"]])

PromptTerms(list) ==
    {IF e.target = None THEN e.source ELSE e.target : e \in {o \in Elements(list) : o.prompt}}

(***************************************************************************)
(* The snapshot file.                                                      *)
(***************************************************************************)
LineOf(e) ==
    IF e.target = None THEN e.source
    ELSE (IF e.prompt THEN <<>> ELSE <<Prefix>>)
           \o e.source \o <<Blank, Arrow, Blank>> \o e.target

\* Mutant of SplitAt: a line is split at its last mark.
SplitAtLast(line, mark) == SelectLastInSeq(line, LAMBDA ch : ch = mark)
SplitAt(line, mark) == SelectInSeq(line, LAMBDA ch : ch = mark)

\* load: a line that gives no pair is a term.
EntryOf(line) ==
    LET marked == line[1] = Prefix
        text == IF marked THEN Trim(Tail(line)) ELSE line
        at == IF SplitAt(text, Arrow) # 0 THEN SplitAt(text, Arrow) ELSE SplitAt(text, Tab)
        left == Trim(SubSeq(text, 1, at - 1))
        right == Trim(SubSeq(text, at + 1, Len(text))) IN
    IF at # 0 /\ left # <<>> /\ right # <<>>
    THEN [source |-> left, target |-> right, prompt |-> ~marked]
    ELSE [source |-> text, target |-> None, prompt |-> TRUE]

Loaded ==
    LET trimmed == [k \in DOMAIN lines |-> Trim(lines[k])]
        kept == SelectSeq(trimmed, LAMBDA line : line # <<>> /\ line[1] # Hash) IN
    FromEntries([k \in DOMAIN kept |-> EntryOf(kept[k])])

(***************************************************************************)
(* Corrections.                                                            *)
(***************************************************************************)
\* The longest source first, then in the order of their characters.
Before(left, right) ==
    \/ Len(left) > Len(right)
    \/ /\ Len(left) = Len(right)
       /\ \E k \in DOMAIN left : /\ Rank[left[k]] < Rank[right[k]]
                                 /\ \A o \in 1..k - 1 : left[o] = right[o]
Replacements(list) ==
    LET pairs == SelectSeq(list, LAMBDA e : e.target # None) IN
    SortSeq([k \in DOMAIN pairs |-> [pairs[k] EXCEPT !.prompt = k]],
            LAMBDA e, o : \/ Before(e.source, o.source)
                          \/ e.source = o.source /\ e.prompt < o.prompt)

IsWord(term) == \A k \in DOMAIN term : term[k] \in Katakana

\* replace_glossary_term: from left to right; a word of katakana is left alone inside a
\* longer one.
Replace(text, from, to) ==
    LET n == Len(from)
        Found(k) == k + n - 1 <= Len(text) /\ SubSeq(text, k, k + n - 1) = from
        Inside(k) == /\ IsWord(from)
                     /\ \/ k > 1 /\ text[k - 1] \in Katakana
                        \/ k + n <= Len(text) /\ text[k + n] \in Katakana
        rest[k \in 1..Len(text) + 1] ==
            IF k > Len(text) THEN <<>>
            ELSE IF Found(k) THEN (IF Inside(k) THEN from ELSE to) \o rest[k + n]
            ELSE <<text[k]>> \o rest[k + 1]
    IN  rest[1]
Corrected(text, list) ==
    FoldLeft(LAMBDA done, e : Replace(done, e.source, e.target), text, Replacements(list))

\* apply_glossary_to_segments: a translation that is not cleared is corrected as well.
Applied(transcript, list, clear) ==
    LET text == Corrected(transcript.source, list)
        changed == text # transcript.source
        there == transcript.translation # None IN
    [before |-> transcript.source, source |-> text, stale |-> changed /\ there,
     translation |-> IF ~there \/ (changed /\ clear) THEN None
                     ELSE IF clear THEN transcript.translation
                     ELSE Corrected(transcript.translation, list)]

(***************************************************************************)
(* The actions.                                                            *)
(***************************************************************************)
SaveTerms(table) ==
    /\ draft = None
    /\ draft' = table /\ terms' = NormalizedTerms(table)
    /\ UNCHANGED <<entries, selection, lines, cue>>

\* An unknown group is refused.
StartTask(groups) ==
    /\ draft # None /\ terms # None /\ lines = None
    /\ groups \subseteq {t.group : t \in Elements(terms)}
    /\ Resolved(terms, groups) # None
    /\ selection' = groups /\ entries' = Resolved(terms, groups)
    /\ lines' = [k \in DOMAIN entries' |-> LineOf(entries'[k])]
    /\ UNCHANGED <<draft, terms, cue>>

CorrectCue(transcript, clear) ==
    /\ lines # None /\ cue = None /\ Loaded # None
    /\ cue' = Applied(transcript, Loaded, clear)
    /\ UNCHANGED <<draft, terms, entries, selection, lines>>

TextNext ==
    \/ \E table \in Tables : SaveTerms(table)
    \/ \E groups \in Selections : StartTask(groups)
    \/ \E t \in Transcripts, clear \in BOOLEAN : CorrectCue(t, clear)

TextSpec == TextInit /\ [][TextNext]_textVars

(***************************************************************************)
(* Properties.                                                             *)
(***************************************************************************)
\* A term that no line can be mistaken by.
PlainText(text) ==
    \A k \in DOMAIN text :
        /\ text[k] \notin {Arrow, Tab}
        /\ k = 1 => text[k] \notin {Hash, Prefix}

\* The longest runs of katakana in a text.
Words(text) ==
    {SubSeq(text, i, j) : <<i, j>> \in
        {p \in (DOMAIN text) \X (DOMAIN text) :
            /\ p[1] <= p[2] /\ \A k \in p[1]..p[2] : text[k] \in Katakana
            /\ p[1] > 1 => text[p[1] - 1] \notin Katakana
            /\ p[2] < Len(text) => text[p[2] + 1] \notin Katakana}}

\* The task reads from its snapshot the glossary it was started with, if its sources are
\* plain; a core spelling of the user is prompted, unless it is the target of a
\* correction in a group that was not selected; and where only words are corrected, a word
\* that is none of them stays (glossary.rs:106, local_db.rs:1863).
GlossaryMeansTheSame ==
    /\ lines # None /\ (\A e \in Elements(entries) : PlainText(e.source))
       => Loaded = entries
    /\ lines # None => \A t \in Elements(Trimmed(draft)) :
          t.scope = "core" /\ t.target = None =>
             \/ t.source \in PromptTerms(entries)
             \/ \E o \in Elements(terms) :
                   o.target = t.source /\ o.scope = "content" /\ o.group \notin selection
    /\ cue # None /\ (\A e \in Elements(Loaded) : IsWord(e.source)) =>
          Words(cue.before) \ {e.source : e \in Elements(Loaded)} \subseteq Words(cue.source)
=============================================================================
