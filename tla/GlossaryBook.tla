------------------------------ MODULE GlossaryBook ------------------------------
(***************************************************************************)
(* Glossaries: the built-in one of the application, renewed when it starts *)
(* (ensure_builtin_glossary), those of the user (save_glossary,            *)
(* delete_glossary), and the corrections applied to the cues of a task     *)
(* (local_glossary_service.rs, local_db.rs).                               *)
(*                                                                         *)
(* A glossary is [name, key, version, terms], a row of local_glossaries    *)
(* with its terms; a name is <<word, number>>, number 1 for the word alone.*)
(***************************************************************************)
EXTENDS Integers, FiniteSets

CONSTANTS
    None,
    Ids,              \* of glossaries
    BuiltinKey,
    BuiltinName,      \* the word that names the built-in glossary
    CustomName,       \* the word for a copy of it
    Shipped,          \* Shipped[v]: the terms of the built-in glossary of release v
    UserTerms,        \* what a user may save
    CorrectionOf,     \* CorrectionOf[terms][text]: corrected_text
    Texts,            \* what a user may type in a cue
    Cues,
    Windows,          \* commands that may save at the same time
    MaxChanges        \* bound: saves, deletions and edits of the user

Releases == DOMAIN Shipped

VARIABLES
    release,          \* that runs, 0 one without a built-in glossary
    up,               \* setup is over
    book,
    saving,           \* save_glossary between its reads and its transaction
    cues,             \* source_text
    correction,       \* apply: None, [terms, changes]
    changes,
    owed,             \* history: the terms the user saved last under an ID
    typed             \* history: what the user typed last in a cue

glossaryVars == <<release, up, book, saving, cues, correction, changes, owed, typed>>

GlossaryInit ==
    /\ release = 0 /\ up = TRUE
    /\ book = [id \in Ids |-> None]
    /\ saving = [w \in Windows |-> None]
    /\ cues = [i \in Cues |-> CHOOSE t \in Texts : TRUE]
    /\ correction = None
    /\ changes = 0
    /\ owed = [id \in Ids |-> None]
    /\ typed = cues

Held == {id \in Ids : book[id] # None}
Builtin == {id \in Held : book[id].key = BuiltinKey}
Unused == Ids \ Held
NamedBy(id) == {h \in Held \ {id} : book[h].name = book[id].name}

(***************************************************************************)
(* Start of the application: ensure_builtin_glossary.                      *)
(***************************************************************************)
\* The application quits or crashes at any point and starts again, it may be a newer
\* release; what was not written is gone.
Restart(v) ==
    /\ v \in Releases /\ v >= release
    /\ release' = v /\ up' = FALSE
    /\ saving' = [w \in Windows |-> None] /\ correction' = None
    /\ UNCHANGED <<book, cues, changes, owed, typed>>

Legacy == {id \in Held : book[id].name = <<BuiltinName, 1>> /\ book[id].key = None}

\* Mutant of AdoptLegacy: the adopted glossary is noted as renewed already.
AdoptAsRenewed ==
    /\ ~up /\ Builtin = {} /\ Legacy # {}
    /\ book' = [id \in Ids |-> IF id \in Legacy
                               THEN [book[id] EXCEPT !.key = BuiltinKey, !.version = release]
                               ELSE book[id]]
    /\ owed' = [id \in Ids |-> IF id \in Legacy THEN None ELSE owed[id]]
    /\ UNCHANGED <<release, up, saving, cues, correction, changes, typed>>

\* A glossary of that name from before there were versions becomes the built-in one, in a
\* statement of its own.
AdoptLegacy ==
    /\ ~up /\ Builtin = {} /\ Legacy # {}
    /\ book' = [id \in Ids |-> IF id \in Legacy
                               THEN [book[id] EXCEPT !.key = BuiltinKey, !.version = None]
                               ELSE book[id]]
    /\ owed' = [id \in Ids |-> IF id \in Legacy THEN None ELSE owed[id]]
    /\ UNCHANGED <<release, up, saving, cues, correction, changes, typed>>

\* The terms of this release replace those of another, in a transaction.
RenewBuiltin ==
    /\ ~up /\ (Builtin # {} \/ Legacy = {})
    /\ up' = TRUE
    /\ IF \E id \in Builtin : book[id].version = release
       THEN UNCHANGED book
       ELSE \E id \in (IF Builtin # {} THEN Builtin ELSE Unused) :
              book' = [book EXCEPT ![id] = [name |-> <<BuiltinName, 1>>, key |-> BuiltinKey,
                                            version |-> release, terms |-> Shipped[release]]]
    /\ UNCHANGED <<release, saving, cues, correction, changes, owed, typed>>

(***************************************************************************)
(* save_glossary and delete_glossary.                                      *)
(***************************************************************************)
\* available_glossary_name: the first number that is free.
AvailableName(word) ==
    LET free == {n \in 1..(Cardinality(Ids) + 1) :
                    \A id \in Held : book[id].name # <<word, n>>} IN
    <<word, CHOOSE n \in free : \A m \in free : n <= m>>

\* Mutant of BeginSave: a built-in glossary is saved like any other.
BeginSaveAnywhere(w, id, word, terms) ==
    /\ up /\ saving[w] = None /\ changes < MaxChanges
    /\ changes' = changes + 1
    /\ saving' = [saving EXCEPT ![w] = [id |-> id, name |-> <<word, 1>>, terms |-> terms]]
    /\ UNCHANGED <<release, up, book, cues, correction, owed, typed>>

\* What is saved over the built-in glossary becomes a copy under a free name.
BeginSave(w, id, word, terms) ==
    /\ up /\ saving[w] = None /\ changes < MaxChanges
    /\ changes' = changes + 1
    /\ saving' = [saving EXCEPT ![w] =
          IF id \in Builtin
          THEN [id |-> None, terms |-> terms,
                name |-> AvailableName(IF <<word, 1>> = book[id].name THEN CustomName ELSE word)]
          ELSE [id |-> id, name |-> <<word, 1>>, terms |-> terms]]
    /\ UNCHANGED <<release, up, book, cues, correction, owed, typed>>

\* The transaction: a name that is taken is an error and nothing is saved; a glossary
\* deleted meanwhile is written again.
FinishSave(w) ==
    /\ up /\ saving[w] # None
    /\ saving' = [saving EXCEPT ![w] = None]
    /\ \E id \in (IF saving[w].id = None THEN Unused ELSE {saving[w].id}) :
         LET row == IF id \in Held THEN book[id] ELSE [key |-> None, version |-> None]
             taken == \E h \in Held \ {id} : book[h].name = saving[w].name IN
         IF taken THEN UNCHANGED <<book, owed>>
         ELSE /\ book' = [book EXCEPT ![id] = [name |-> saving[w].name, terms |-> saving[w].terms,
                                               key |-> row.key, version |-> row.version]]
              /\ owed' = [owed EXCEPT ![id] = saving[w].terms]
    /\ UNCHANGED <<release, up, cues, correction, changes, typed>>

DeleteGlossary(id) ==
    /\ up /\ changes < MaxChanges /\ changes' = changes + 1
    /\ id \in Held \ Builtin
    /\ book' = [book EXCEPT ![id] = None]
    /\ owed' = [owed EXCEPT ![id] = None]
    /\ UNCHANGED <<release, up, saving, cues, correction, typed>>

(***************************************************************************)
(* apply.                                                                  *)
(***************************************************************************)
\* get_glossary.
BeginCorrection(id) ==
    /\ up /\ correction = None /\ id \in Held
    /\ correction' = [terms |-> book[id].terms, changes |-> None]
    /\ UNCHANGED <<release, up, book, saving, cues, changes, owed, typed>>

\* list_segments and corrected_text: the cues that would change.
PlanCorrection ==
    /\ up /\ correction # None /\ correction.changes = None
    /\ LET corrected == CorrectionOf[correction.terms]
           changed == {i \in Cues : corrected[cues[i]] # cues[i]} IN
       correction' = [correction EXCEPT !.changes =
           [i \in changed |-> [before |-> cues[i], after |-> corrected[cues[i]]]]]
    /\ UNCHANGED <<release, up, book, saving, cues, changes, owed, typed>>

\* Mutant of StillThere: the text is not compared.
AnyText(i) == TRUE
\* UPDATE ... WHERE id = ? AND source_text = ?
StillThere(i) == cues[i] = correction.changes[i].before

\* apply_glossary_corrections: all of them or none.
ApplyCorrection ==
    /\ up /\ correction # None /\ correction.changes # None
    /\ correction' = None
    /\ cues' = IF \A i \in DOMAIN correction.changes : StillThere(i)
               THEN [i \in Cues |-> IF i \in DOMAIN correction.changes
                                    THEN correction.changes[i].after ELSE cues[i]]
               ELSE cues
    /\ UNCHANGED <<release, up, book, saving, changes, owed, typed>>

\* update_segment, for what it means here.
TypeInCue(i, text) ==
    /\ up /\ changes < MaxChanges /\ changes' = changes + 1
    /\ cues' = [cues EXCEPT ![i] = text]
    /\ typed' = [typed EXCEPT ![i] = text]
    /\ UNCHANGED <<release, up, book, saving, correction, owed>>

Starts == AdoptLegacy \/ RenewBuiltin \/ \E v \in Releases : Restart(v)
Saves ==
    \/ \E w \in Windows : FinishSave(w)
    \/ \E w \in Windows, id \in Held \cup {None}, word \in {BuiltinName, CustomName},
          terms \in UserTerms : BeginSave(w, id, word, terms)
    \/ \E id \in Ids : DeleteGlossary(id)
Corrections ==
    \/ PlanCorrection \/ ApplyCorrection
    \/ \E id \in Ids : BeginCorrection(id)
    \/ \E i \in Cues, text \in Texts : TypeInCue(i, text)
GlossaryNext == Starts \/ Saves \/ Corrections
GlossarySpec == GlossaryInit /\ [][GlossaryNext]_glossaryVars

(***************************************************************************)
(* Property.                                                               *)
(***************************************************************************)
AllTerms == UserTerms \cup {Shipped[v] : v \in Releases}
AllTexts == UNION {DOMAIN CorrectionOf[terms] : terms \in AllTerms}
\* Sets of texts that no correction leaves: what corrections make of a text is in every
\* one that it is in.
Closed == {texts \in SUBSET AllTexts :
              \A text \in texts, terms \in AllTerms : CorrectionOf[terms][text] \in texts}

\* Names are one to one; the built-in glossary is there once setup is over, with the
\* terms of the release it is noted for, whatever start was cut short; what the user
\* saved last is there under the user's own glossary until it is deleted or, named
\* like a built-in that was not known, taken for it; and a cue is what was typed last
\* or what corrections made of it, never of an older text that was read before
\* (ensure_builtin_glossary, save_glossary, apply_glossary_corrections).
GlossariesKept ==
    /\ \A id \in Held : NamedBy(id) = {}
    /\ \A g, h \in Builtin : g = h
    /\ up /\ release > 0 => \E id \in Builtin : book[id].version = release
    /\ \A id \in Builtin : book[id].version # None => book[id].terms = Shipped[book[id].version]
    /\ \A id \in Ids : owed[id] # None =>
          book[id] # None /\ book[id].key = None /\ book[id].terms = owed[id]
    /\ \A i \in Cues, texts \in Closed : typed[i] \in texts => cues[i] \in texts
=============================================================================
