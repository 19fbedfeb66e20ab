---------------------------- MODULE SubtitleDrafts ----------------------------
(***************************************************************************)
(* The draft of one cue in the editor (ui/src/subtitle-drafts.ts): what is *)
(* typed is written to the database by a single writer after a pause, and  *)
(* kept in localStorage until then, from where the next start restores it. *)
(* Every cue has a draft of its own; what they share is the copy in        *)
(* localStorage, which any of them writes for all.                         *)
(*                                                                         *)
(* A text stands for the source and the translation of the cue.  JavaScript*)
(* runs to the next await: a step is a callback with all that follows it.  *)
(***************************************************************************)
EXTENDS Naturals, FiniteSets

CONSTANTS
    None,
    Original,      \* the text of the cue at first
    Texts,         \* what the user may type
    Trimmed,       \* [Texts -> text]: what update_segment makes of it
    Blank,         \* those that are refused
    Others,        \* texts of other writers: translations, undos; each new
    MaxTyped,      \* bound: edits
    MaxUpsets      \* bound: failed writes and restarts

VARIABLES
    stored,        \* the text in the database
    shown,         \* the text in activeDetail, None before the task is opened
    draft,         \* None or [saved, value, review, recovered, composing, error]
    timer,         \* the pause after an edit runs
    writes,        \* calls of write: set of [text, result], more than one in a mutant only
    copy,          \* the draft in localStorage: None or [saved, value, review]
    foreign,       \* texts other writers may still write
    allowed,       \* the bounds: [typed, upsets]
    intent,        \* history: what the user typed last and has not discarded
    conflict       \* history: the text on which a restored draft was made, when the cue
                   \* said another and the user has not decided; or None

draftVars == <<stored, shown, draft, timer, writes, copy, foreign, allowed, intent, conflict>>

Refused == [refused |-> TRUE]
Answer(text) == [refused |-> FALSE, text |-> text]
NewDraft(text) == [saved |-> text, value |-> text, review |-> FALSE, recovered |-> FALSE,
                   composing |-> FALSE, error |-> FALSE]

DraftInit ==
    /\ stored = Original /\ shown = None
    /\ draft = None /\ timer = FALSE /\ writes = {} /\ copy = None
    /\ foreign = Others /\ allowed = [typed |-> MaxTyped, upsets |-> MaxUpsets]
    /\ intent = None /\ conflict = None

Differs(d) == d.value # d.saved
Pending == draft # None /\ (writes # {} \/ Differs(draft))

\* snapshot, at every changed.
Copied(d, calls) ==
    IF d # None /\ (calls # {} \/ Differs(d))
    THEN [saved |-> d.saved, value |-> d.value, review |-> d.review]
    ELSE None

\* What was typed back to the text the view knew is no edit once its call is gone.
Meant == IF draft # None /\ intent = draft.saved THEN None ELSE intent

(***************************************************************************)
(* The view.                                                               *)
(***************************************************************************)
\* ensure: a draft that is restored is compared with the cue, one that is not pending
\* follows it.
Ensured(text) ==
    IF draft = None THEN NewDraft(text)
    ELSE IF draft.recovered
    THEN LET review == draft.review \/ draft.saved # text IN
         [draft EXCEPT !.saved = text, !.recovered = FALSE, !.review = review, !.error = review]
    ELSE IF Pending THEN draft
    ELSE [draft EXCEPT !.saved = text, !.value = text]
Restores == draft # None /\ draft.recovered
\* What the restored draft was made on, also when it was found before.
Basis == IF conflict = None THEN draft.saved ELSE conflict

\* The task is opened or read again.
Load ==
    /\ shown' = stored
    /\ UNCHANGED <<stored, draft, timer, writes, copy, foreign, allowed, intent, conflict>>

\* The cue is selected.
Show ==
    /\ shown # None
    /\ draft' = Ensured(shown)
    /\ timer' = (timer \/ (Restores /\ ~draft'.review))
    /\ conflict' = IF ~Restores THEN conflict
                   ELSE IF shown = Basis THEN None ELSE Basis
    /\ UNCHANGED <<stored, shown, writes, copy, foreign, allowed, intent>>

\* What a call has committed that its answer has not told yet, and another writer has
\* changed since: to type it again is not to type anything new.
Overtaken(text) == \E w \in writes : /\ w.result # None /\ ~w.result.refused
                                     /\ text \in {w.text, w.result.text}
                                     /\ stored # w.result.text

\* edit: every key, in an input method or not.
Type(text, composing) ==
    /\ shown # None /\ draft # None /\ ~draft.recovered /\ allowed.typed > 0
    /\ allowed' = [allowed EXCEPT !.typed = @ - 1]
    /\ draft' = [Ensured(shown) EXCEPT !.value = text, !.composing = composing,
                                       !.error = FALSE, !.review = FALSE]
    /\ timer' = ~composing
    /\ copy' = Copied(draft', writes)
    /\ intent' = IF (writes # {} \/ Differs(draft')) /\ ~Overtaken(text) THEN text ELSE None
    /\ conflict' = None
    /\ UNCHANGED <<stored, shown, writes, foreign>>

\* compositionend comes with the text there is.
EndComposition ==
    /\ draft # None /\ draft.composing
    /\ draft' = [draft EXCEPT !.composing = FALSE, !.error = FALSE, !.review = FALSE]
    /\ timer' = TRUE
    /\ copy' = Copied(draft', writes)
    /\ conflict' = None
    /\ UNCHANGED <<stored, shown, writes, foreign, allowed, intent>>

\* The button is there for a draft that is pending and not being saved.
Discard ==
    /\ Pending /\ writes = {} /\ ~draft.recovered
    /\ draft' = [draft EXCEPT !.value = draft.saved, !.error = FALSE, !.review = FALSE]
    /\ timer' = FALSE
    /\ copy' = None
    /\ intent' = None /\ conflict' = None
    /\ UNCHANGED <<stored, shown, writes, foreign, allowed>>

(***************************************************************************)
(* The writer.                                                             *)
(***************************************************************************)
\* The loop of run: what the draft says is written unless it is being composed.
Goes(d) == IF Differs(d) /\ ~d.composing THEN {[text |-> d.value, result |-> None]} ELSE {}

\* flush: while a call is under way its loop will go on.
Flush(explicit) ==
    /\ draft # None /\ ~draft.recovered
    /\ explicit \/ ~draft.review
    /\ timer' = FALSE
    /\ LET asked == [draft EXCEPT !.review = FALSE]
           calls == IF writes # {} THEN writes ELSE Goes(asked) IN
       /\ writes' = calls
       /\ draft' = IF calls # writes THEN [asked EXCEPT !.error = FALSE] ELSE asked
       /\ copy' = IF calls # writes THEN Copied(draft', calls) ELSE copy
    /\ conflict' = IF explicit THEN None ELSE conflict
    /\ UNCHANGED <<stored, shown, foreign, allowed, intent>>

\* The pause is over; the input loses the focus, or another command flushes all drafts;
\* the button, for a draft that is pending and not being saved.
TimerFires == timer /\ Flush(FALSE)
FlushAll == Flush(FALSE)
SaveNow == Pending /\ writes = {} /\ Flush(TRUE)

\* update_segment commits.
WriteCommits(w) ==
    /\ w.result = None /\ w.text \notin Blank
    /\ stored' = Trimmed[w.text]
    /\ writes' = (writes \ {w}) \cup {[w EXCEPT !.result = Answer(Trimmed[w.text])]}
    /\ UNCHANGED <<shown, draft, timer, copy, foreign, allowed, intent, conflict>>

WriteFails(w) ==
    /\ w.result = None
    /\ IF w.text \in Blank THEN UNCHANGED allowed
       ELSE allowed.upsets > 0 /\ allowed' = [allowed EXCEPT !.upsets = @ - 1]
    /\ writes' = (writes \ {w}) \cup {[w EXCEPT !.result = Refused]}
    /\ UNCHANGED <<stored, shown, draft, timer, copy, foreign, intent, conflict>>

\* Mutant of Kept: the answer replaces what was typed after the call.
KeptOver(w) == w.result.text
\* Typing that came after the call stays.
Kept(w) == IF draft.value = w.text THEN w.result.text ELSE draft.value

\* The answer, and the next turn of the loop.
WriteReturns(w) ==
    /\ w.result # None /\ ~w.result.refused
    /\ LET answered == [draft EXCEPT !.saved = w.result.text, !.value = Kept(w)] IN
       /\ writes' = (writes \ {w}) \cup Goes(answered)
       /\ draft' = IF writes' = {} THEN answered ELSE [answered EXCEPT !.error = FALSE]
    /\ timer' = (timer /\ (writes' # {} \/ Differs(draft')))
    /\ copy' = Copied(draft', writes')
    /\ shown' = IF shown = None THEN None ELSE w.result.text
    /\ UNCHANGED <<stored, foreign, allowed, intent, conflict>>

WriteErrs(w) ==
    /\ w.result # None /\ w.result.refused
    /\ writes' = writes \ {w}
    /\ draft' = [draft EXCEPT !.error = TRUE]
    /\ timer' = (timer /\ (writes' # {} \/ Differs(draft)))
    /\ copy' = Copied(draft', writes')
    /\ intent' = Meant
    /\ UNCHANGED <<stored, shown, foreign, allowed, conflict>>

(***************************************************************************)
(* The others.                                                             *)
(***************************************************************************)
\* A translation, an undo or a correction of the glossary.
OtherWrites(text) ==
    /\ text \in foreign /\ foreign' = foreign \ {text}
    /\ stored' = text
    /\ intent' = IF intent # None /\ stored = Trimmed[intent] THEN None ELSE intent
    /\ UNCHANGED <<shown, draft, timer, writes, copy, allowed, conflict>>

\* Mutant of AnotherDraftChanges: whether a draft waits for review is not copied.
CopiesUnreviewed ==
    /\ copy' = IF Copied(draft, writes) = None THEN None
               ELSE [Copied(draft, writes) EXCEPT !.review = FALSE]
    /\ UNCHANGED <<stored, shown, draft, timer, writes, foreign, allowed, intent, conflict>>

\* Another draft changes, and the copy is written for all.
AnotherDraftChanges ==
    /\ copy' = Copied(draft, writes)
    /\ UNCHANGED <<stored, shown, draft, timer, writes, foreign, allowed, intent, conflict>>

\* The application ends or crashes and starts again: recover.
RestartEditor ==
    /\ allowed.upsets > 0 /\ allowed' = [allowed EXCEPT !.upsets = @ - 1]
    /\ draft' = IF copy = None THEN None
                ELSE [saved |-> copy.saved, value |-> copy.value, review |-> copy.review,
                      recovered |-> TRUE, composing |-> FALSE, error |-> FALSE]
    /\ timer' = FALSE /\ writes' = {} /\ shown' = None
    /\ intent' = Meant
    /\ UNCHANGED <<stored, copy, foreign, conflict>>

Writer == \/ TimerFires
          \/ \E w \in writes :
                WriteCommits(w) \/ WriteFails(w) \/ WriteReturns(w) \/ WriteErrs(w)
DraftNext ==
    \/ Load \/ Show \/ EndComposition \/ Discard \/ FlushAll \/ SaveNow \/ Writer
    \/ AnotherDraftChanges \/ RestartEditor
    \/ \E text \in Texts, composing \in BOOLEAN : Type(text, composing)
    \/ \E text \in Others : OtherWrites(text)
\* A timer runs out, and a call of the database returns.
DraftFairness == WF_draftVars(Writer)
DraftSpec == DraftInit /\ [][DraftNext]_draftVars /\ DraftFairness

(***************************************************************************)
(* Properties.                                                             *)
(***************************************************************************)
DraftTypeOK ==
    /\ Cardinality(writes) <= 1
    /\ timer \in BOOLEAN
    /\ draft # None =>
         draft.value \in Texts \cup {Trimmed[t] : t \in Texts} \cup Others \cup {Original}

\* What the user typed last is in the draft and in its copy, or it is what the database
\* holds and no call under way will replace it, through failed, late and repeated writes
\* and restarts; and a restored draft whose cue says something else is not written until
\* the user has decided, also after further restarts (SubtitleDrafts.flush, ensure,
\* snapshot and recover; docs/decisions/0049).
DraftsKeepTyping ==
    /\ intent # None =>
         \/ /\ draft # None /\ draft.value = intent
            /\ copy # None /\ copy.value = intent
         \/ /\ stored = Trimmed[intent]
            /\ \A w \in writes : w.result # None \/ w.text = intent
    /\ conflict # None => writes = {}

\* A draft is saved, unless its text is refused or it waits for the user.
DraftsRest ==
    ~Pending \/ draft.review \/ draft.error \/ draft.composing \/ draft.recovered
DraftsSettle == []<>DraftsRest
=============================================================================
