--------------------------- MODULE LearningNotebook ---------------------------
(***************************************************************************)
(* The notebook of words and sentences that the user collects from cues:   *)
(* the rows of local_learning_items, local_learning_occurrences and        *)
(* local_learning_lookup_results, the commands on them and the changes of  *)
(* the cues they were taken from.  A line stands for the source text and   *)
(* the translation of a cue.                                               *)
(*                                                                         *)
(* A lookup in a dictionary and the use of a definition read the item      *)
(* first and write later; the other commands are one transaction.          *)
(***************************************************************************)
EXTENDS Naturals

CONSTANTS
    None,
    MaxItems,       \* bound of the items ever made
    Segments,       \* the cues of one task
    Lines,          \* what a cue may say
    Spans, Whole,   \* selections within a line, and the one of all of it
    TextOf,         \* TextOf[line][span]: the trimmed selected text, None when blank
    KeyOf,          \* the text in lower case
    TranslationOf,  \* of a line, None when it has none
    Providers, Definitions,
    Typed,          \* meanings the user writes, None to clear it
    MaxChanges      \* bound of the changes of cues, deletions and expiries

VARIABLES
    job,            \* the task is in the database
    cue,            \* the line of each cue
    items,          \* of each id [key, text, meaning, provider], or None
    made,           \* ids given so far
    uses,           \* the occurrences [item, segment, line, span]
    results,        \* the saved dictionary results [item, provider, senses, expired]
    lookup,         \* a lookup in progress [item, provider], or None
    pick,           \* a definition about to be used [item, provider, definition], or None
    decided,        \* ghost: of each id, the meaning last decided on
    fetched,        \* ghost: <<item, provider, definition>> that were ever saved
    changes

notebookVars == <<job, cue, items, made, uses, results, lookup, pick, decided, fetched,
                  changes>>
source == <<job, cue>>
pending == <<lookup, pick>>
ghosts == <<decided, fetched>>

Ids == 1..MaxItems
Kinds == {"selection", "sentence"}

NotebookInit ==
    /\ job = TRUE /\ cue \in [Segments -> Lines]
    /\ items = [i \in Ids |-> None] /\ made = 0
    /\ uses = {} /\ results = {}
    /\ lookup = None /\ pick = None
    /\ decided = [i \in Ids |-> None] /\ fetched = {} /\ changes = 0

Change == changes < MaxChanges /\ changes' = changes + 1

\* Reading an item drops the results whose time is over; so does the answer of every
\* command but a deletion.
Unexpired(rows) == {r \in rows : ~r.expired}
\* Mutant of Coalesced: the translation of the cue comes before the saved meaning.
OfferedFirst(meaning, offered) == IF offered = None THEN meaning ELSE offered
Coalesced(meaning, offered) == IF meaning = None THEN offered ELSE meaning

\* Saving a selection: an item of the same key keeps its text, and its meaning when it
\* has one; an occurrence of the same selection in the same cue is not added again.
SaveSelection(s, span, type) ==
    LET text == TextOf[cue[s]][span]
        key == <<type, KeyOf[text]>>
        same == {i \in Ids : items[i] # None /\ items[i].key = key}
        id == IF same = {} THEN made + 1 ELSE CHOOSE i \in same : TRUE
        offered == IF type = "sentence" THEN TranslationOf[cue[s]] ELSE None IN
    /\ job /\ text # None
    /\ type = "sentence" => span = Whole
    /\ id \in Ids
    /\ items' = [items EXCEPT ![id] =
                    IF same = {}
                    THEN [key |-> key, text |-> text, meaning |-> offered, provider |-> None]
                    ELSE [items[id] EXCEPT !.meaning = Coalesced(items[id].meaning, offered)]]
    /\ made' = IF same = {} THEN id ELSE made
    /\ uses' = IF \E u \in uses : <<u.item, u.segment, u.span>> = <<id, s, span>>
               THEN uses
               ELSE uses \cup {[item |-> id, segment |-> s, line |-> cue[s], span |-> span]}
    /\ decided' = [decided EXCEPT ![id] = IF @ = None THEN offered ELSE @]
    /\ results' = Unexpired(results)
    /\ UNCHANGED <<source, pending, fetched, changes>>

UpdateMeaning(i, meaning) ==
    /\ items[i] # None
    /\ items' = [items EXCEPT ![i].meaning = meaning, ![i].provider = None]
    /\ decided' = [decided EXCEPT ![i] = meaning]
    /\ results' = Unexpired(results)
    /\ UNCHANGED <<source, made, uses, pending, fetched, changes>>

\* Sentences are not looked up.
BeginLookup(i, provider) ==
    /\ lookup = None /\ items[i] # None /\ items[i].key[1] # "sentence"
    /\ lookup' = [item |-> i, provider |-> provider]
    /\ results' = Unexpired(results)
    /\ UNCHANGED <<source, items, made, uses, pick, ghosts, changes>>

\* The answer replaces the result of the same dictionary.  The item is a foreign key:
\* when it was deleted nothing is saved.
SaveLookup(senses) ==
    /\ lookup # None
    /\ lookup' = None
    /\ LET i == lookup.item
           p == lookup.provider IN
       IF items[i] = None THEN UNCHANGED <<results, fetched>>
       ELSE /\ results' = Unexpired({r \in results : <<r.item, r.provider>> # <<i, p>>})
                \cup {[item |-> i, provider |-> p, senses |-> senses, expired |-> FALSE]}
            /\ fetched' = fetched \cup {<<i, p, d>> : d \in senses}
    /\ UNCHANGED <<source, items, made, uses, pick, decided, changes>>

LookupFails == lookup # None /\ lookup' = None
               /\ UNCHANGED <<source, items, made, uses, results, pick, ghosts, changes>>

\* use_lookup_definition: the definition is one of the saved result, ...
PickDefinition(i, provider, definition) ==
    /\ pick = None /\ items[i] # None
    /\ \E r \in Unexpired(results) :
          r.item = i /\ r.provider = provider /\ definition \in r.senses
    /\ pick' = [item |-> i, provider |-> provider, definition |-> definition]
    /\ results' = Unexpired(results)
    /\ UNCHANGED <<source, items, made, uses, lookup, ghosts, changes>>

\* ... and is written whatever came in between, unless the item was deleted.
UseDefinition ==
    /\ pick # None
    /\ pick' = None
    /\ IF items[pick.item] = None THEN UNCHANGED <<items, decided>>
       ELSE /\ items' = [items EXCEPT ![pick.item].meaning = pick.definition,
                                      ![pick.item].provider = pick.provider]
            /\ decided' = [decided EXCEPT ![pick.item] = pick.definition]
    /\ results' = Unexpired(results)
    /\ UNCHANGED <<source, made, uses, lookup, fetched, changes>>

\* The occurrences and the results of the item go with it.
DeleteItem(i) ==
    /\ items[i] # None /\ Change
    /\ items' = [items EXCEPT ![i] = None]
    /\ uses' = {u \in uses : u.item # i}
    /\ results' = {r \in results : r.item # i}
    /\ UNCHANGED <<source, made, pending, ghosts>>

Expire(r) ==
    /\ r \in results /\ ~r.expired /\ Change
    /\ results' = (results \ {r}) \cup {[r EXCEPT !.expired = TRUE]}
    /\ UNCHANGED <<source, items, made, uses, pending, ghosts>>

(***************************************************************************)
(* What happens to the cues.  Their rows are only foreign keys.            *)
(***************************************************************************)
EditCue(s, line) ==
    /\ job /\ cue[s] # line /\ Change
    /\ cue' = [cue EXCEPT ![s] = line]
    /\ UNCHANGED <<job, items, made, uses, results, pending, ghosts>>

Forget(segments) ==
    uses' = {[u EXCEPT !.segment = IF @ \in segments THEN None ELSE @] : u \in uses}

\* A publication deletes the row of a cue and inserts one with a new id.
ReplaceCue(s) ==
    /\ job /\ Change /\ Forget({s})
    /\ UNCHANGED <<source, items, made, results, pending, ghosts>>

DeleteTask ==
    /\ job /\ Change /\ Forget(Segments)
    /\ job' = FALSE
    /\ UNCHANGED <<cue, items, made, results, pending, ghosts>>

NotebookNext ==
    \/ \E s \in Segments, span \in Spans, type \in Kinds : SaveSelection(s, span, type)
    \/ \E i \in Ids : \/ \E meaning \in Typed : UpdateMeaning(i, meaning)
                      \/ \E p \in Providers : BeginLookup(i, p)
                      \/ \E p \in Providers, d \in Definitions : PickDefinition(i, p, d)
                      \/ DeleteItem(i)
    \/ \E senses \in SUBSET Definitions \ {{}} : SaveLookup(senses)
    \/ LookupFails \/ UseDefinition \/ \E r \in results : Expire(r)
    \/ \E s \in Segments : ReplaceCue(s) \/ \E line \in Lines : EditCue(s, line)
    \/ DeleteTask

NotebookSpec == NotebookInit /\ [][NotebookNext]_notebookVars

NotebookTypeOK ==
    /\ made \in 0..MaxItems /\ \A i \in Ids : items[i] # None => i <= made
    /\ \A u \in uses : u.segment \in Segments \cup {None} /\ u.line \in Lines
    /\ \A r \in results : r.senses \in SUBSET Definitions

\* The notebook stays coherent while cues, lookups and deletions go their own way: no two
\* items of one key; every example still says what its item is about, after its cue was
\* edited, replaced or deleted; no example or result outlives its item; a meaning
\* that names a dictionary is a definition that dictionary gave for that item; and no
\* meaning changes unless the user decides (local_learning_service.rs:88).
NotebookKept ==
    /\ \A i, j \in Ids : items[i] # None /\ items[j] # None /\ items[i].key = items[j].key
                            => i = j
    /\ \A u \in uses : /\ items[u.item] # None
                       /\ KeyOf[TextOf[u.line][u.span]] = items[u.item].key[2]
    /\ \A q, r \in results : /\ items[r.item] # None
                             /\ <<q.item, q.provider>> = <<r.item, r.provider>> => q = r
    /\ \A i \in Ids : items[i] # None =>
          /\ items[i].meaning = decided[i]
          /\ items[i].provider # None =>
                <<i, items[i].provider, items[i].meaning>> \in fetched
=============================================================================
