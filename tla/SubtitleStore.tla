---------------------------- MODULE SubtitleStore ----------------------------
(***************************************************************************)
(* The subtitle tables of one task, as values, and what each repository    *)
(* transaction of src/src/infrastructure/local_db makes of them.  A store  *)
(* is the State that subtitle_structure_undo.rs captures: the workspace    *)
(* revision of the task, its cues in order, the provenance of every cue    *)
(* and the dependency edges of the machine translations.  A transaction    *)
(* is an operator from a store to a store; the condition under which it    *)
(* commits is an operator of its own, and one that fails changes nothing.  *)
(*                                                                         *)
(* A text is a sequence of pieces, so that Cut copies it and Join          *)
(* concatenates it.  A piece of a machine translation is                   *)
(* [of |-> source, ctx |-> set of <<cue, source>>]: what it was made from. *)
(***************************************************************************)
EXTENDS Integers, Sequences, FiniteSets, SequencesExt, FiniteSetsExt

CONSTANT None   \* an absent translation

Ids(cues) == {c.id : c \in ToSet(cues)}
Has(s, id) == id \in Ids(s.cues)
Position(cues, id) == CHOOSE i \in DOMAIN cues : cues[i].id = id
CueOf(s, id) == s.cues[Position(s.cues, id)]

\* The provenance row the insert trigger creates.
Unmarked == [kind |-> "legacy", timing |-> "legacy", align |-> "unknown",
             srcRev |-> 0, trRev |-> 0, depStale |-> FALSE]
Structural == [Unmarked EXCEPT !.kind = "structural", !.align = "stale"]
Recognized(p) == [p EXCEPT !.kind = "asr", !.timing = "model", !.align = "current"]

NewCue(id, start, end, src) ==
    [id |-> id, start |-> start, end |-> end, src |-> src, tr |-> None,
     srcEdited |-> FALSE, trEdited |-> FALSE, stale |-> FALSE,
     timeEdited |-> FALSE]

Typed(text) == <<[of |-> text, ctx |-> {}]>>
Overlap(a, b) == a.start < b.end /\ a.end > b.start
Retimed(a, b) == a.start # b.start \/ a.end # b.end

(***************************************************************************)
(* Updates of a row in place, with the two update triggers of              *)
(* 202609160002_create_cue_provenance.sql.                                 *)
(***************************************************************************)
Consumers(edges, contexts) == {e.target : e \in {d \in edges : d.context \in contexts}}

Marked(p, old, new) ==
    LET text == old.src # new.src
        time == Retimed(old, new) IN
    [p EXCEPT !.kind   = IF text THEN "manual" ELSE @,
              !.timing = IF time THEN "manual" ELSE @,
              !.align  = IF text THEN "stale" ELSE @,
              !.srcRev = IF text \/ time THEN @ + 1 ELSE @]

Relined(p, replaced, moved) ==
    [p EXCEPT !.trRev = IF replaced THEN @ + 1 ELSE @,
              !.depStale = (@ \/ moved) /\ ~replaced]

UpdateRow(s, new) ==
    LET id     == new.id
        old    == CueOf(s, id)
        source == old.src # new.src \/ Retimed(old, new)
        trans  == old.tr # new.tr
        hit    == IF source THEN Consumers(s.edges, {id}) ELSE {}
        prov   == [i \in DOMAIN s.prov |->
                     Relined(IF i = id THEN Marked(s.prov[i], old, new) ELSE s.prov[i],
                             i = id /\ trans, i \in hit)] IN
    [rev   |-> s.rev + (IF source THEN 1 ELSE 0) + (IF trans THEN 1 ELSE 0),
     cues  |-> [i \in DOMAIN s.cues |-> IF s.cues[i].id = id THEN new ELSE s.cues[i]],
     prov  |-> prov,
     edges |-> IF trans THEN {e \in s.edges : e.target # id} ELSE s.edges]

\* update_segment: the caller's text and times, with the flags that follow.
EditedCue(cue, src, tr, start, end) ==
    LET new == [cue EXCEPT !.src = src, !.tr = tr, !.start = start, !.end = end] IN
    [new EXCEPT !.srcEdited = @ \/ cue.src # src,
                !.trEdited = @ \/ cue.tr # tr,
                !.timeEdited = @ \/ Retimed(cue, new),
                !.stale = IF cue.tr # tr THEN FALSE
                          ELSE IF cue.src # src THEN cue.tr # None ELSE @]

UpdateSegment(s, id, src, tr, start, end) ==
    UpdateRow(s, EditedCue(CueOf(s, id), src, tr, start, end))

\* restore_segment: an unconditional overwrite with all four flags.
RestoreSegment(s, snapshot) == UpdateRow(s, snapshot)

(***************************************************************************)
(* Structure edits rebuild the rows: the triggers of an update do not      *)
(* fire, the provenance of the ids that stay is put back, edges between    *)
(* ids that stay are put back.                                             *)
(***************************************************************************)
\* Mutant of PersistStructure: an edge whose context was removed is put back.
PersistLoose(s, cues) ==
    LET ids == Ids(cues) IN
    [rev   |-> s.rev + Len(cues),
     cues  |-> cues,
     prov  |-> [i \in ids |-> IF i \in DOMAIN s.prov THEN s.prov[i] ELSE Structural],
     edges |-> {e \in s.edges : e.target \in ids}]

PersistStructure(s, cues) ==
    LET ids == Ids(cues) IN
    [rev   |-> s.rev + Len(cues),
     cues  |-> cues,
     prov  |-> [i \in ids |-> IF i \in DOMAIN s.prov THEN s.prov[i] ELSE Structural],
     edges |-> {e \in s.edges : e.target \in ids /\ e.context \in ids}]

\* The cues a structure edit writes, and when it is accepted.
CanRemove(s, id) == Has(s, id)
Removed(s, id) ==
    LET affected == {c.id : c \in {d \in ToSet(s.cues) :
                        /\ d.tr # None /\ ~d.trEdited
                        /\ d.id \in Consumers(s.edges, {id})}}
        kept == RemoveAt(s.cues, Position(s.cues, id)) IN
    [i \in DOMAIN kept |-> [kept[i] EXCEPT !.stale = @ \/ kept[i].id \in affected]]

\* The stable sort by time of the cues at the given positions.
ByTime(a, b) == a.start < b.start \/ (a.start = b.start /\ a.end < b.end)
Precedes(cues, i, j) ==
    ByTime(cues[i], cues[j]) \/ (~ByTime(cues[j], cues[i]) /\ i < j)
Rank(cues, at, i) == Cardinality({j \in at : Precedes(cues, j, i)}) + 1
Sorted(cues, at) ==
    [n \in 1..Cardinality(at) |-> cues[CHOOSE i \in at : Rank(cues, at, i) = n]]

CanInsert(s, block) ==
    /\ ~Has(s, block.id)
    /\ block.start >= 0 /\ block.start < block.end
    /\ \A c \in ToSet(s.cues) : ~Overlap(c, block)
Inserted(s, block) ==
    LET flagged == [block EXCEPT !.srcEdited = TRUE, !.trEdited = block.tr # None,
                                 !.timeEdited = TRUE]
        all == Append(s.cues, flagged) IN
    Sorted(all, DOMAIN all)

CanSplit(s, id, boundary) ==
    /\ Has(s, id)
    /\ CueOf(s, id).start < boundary /\ boundary < CueOf(s, id).end
SplitUp(s, id, boundary, new, leftSrc, rightSrc, leftTr, rightTr) ==
    LET both == leftTr # None /\ rightTr # None
        cut  == [CueOf(s, id) EXCEPT !.srcEdited = TRUE, !.trEdited = both,
                                     !.stale = FALSE, !.timeEdited = TRUE]
        left  == [cut EXCEPT !.end = boundary, !.src = leftSrc,
                             !.tr = IF both THEN leftTr ELSE None]
        right == [cut EXCEPT !.id = new, !.start = boundary, !.src = rightSrc,
                             !.tr = IF both THEN rightTr ELSE None]
        at == Position(s.cues, id) IN
    SubSeq(s.cues, 1, at - 1) \o <<left, right>> \o SubSeq(s.cues, at + 1, Len(s.cues))

CanMerge(s, left, right) ==
    /\ Has(s, left)
    /\ LET at == Position(s.cues, left) IN
       at < Len(s.cues) /\ s.cues[at + 1].id = right
Merged(s, left, right, src, tr) ==
    LET l == CueOf(s, left)
        r == CueOf(s, right)
        both == l.tr # None /\ r.tr # None
        text == IF both THEN tr ELSE None
        at == Position(s.cues, left)
        cue == [l EXCEPT !.start = Min({l.start, r.start}), !.end = Max({l.end, r.end}),
                         !.src = src, !.tr = text, !.srcEdited = TRUE,
                         !.trEdited = text # None,
                         !.stale = text # None /\ (l.stale \/ r.stale),
                         !.timeEdited = TRUE] IN
    SubSeq(s.cues, 1, at - 1) \o <<cue>> \o SubSeq(s.cues, at + 2, Len(s.cues))

\* save_segment_timing: only times move, and no overlap appears or changes.
CanRetime(s, after) ==
    /\ Len(after) = Len(s.cues)
    /\ \A i \in DOMAIN after :
         /\ after[i] = [s.cues[i] EXCEPT !.start = after[i].start, !.end = after[i].end]
         /\ 0 <= after[i].start /\ after[i].start < after[i].end
    /\ \A i \in 1..(Len(after) - 1) :
         after[i].end > after[i + 1].start =>
            after[i].end = s.cues[i].end /\ after[i + 1].start = s.cues[i + 1].start
Timed(s, after) ==
    [i \in DOMAIN after |->
        [after[i] EXCEPT !.timeEdited = @ \/ Retimed(s.cues[i], after[i])]]

\* replace_range_in_transaction: the cues that touch a range become the candidates.
\* (That the workspace revision is the one of the comparison is the caller's guard.)
Touches(c, start, end) == c.start < end /\ c.end > start
Affected(s, start, end) == SelectSeq(s.cues, LAMBDA c : Touches(c, start, end))
CanAdopt(s, start, end, expected, candidates) ==
    LET affected == {c \in ToSet(s.cues) : Touches(c, start, end)}
        others == ToSet(s.cues) \ affected IN
    /\ Affected(s, start, end) = expected
    /\ \A c \in affected : c.start >= start /\ c.end <= end
    /\ \A c \in ToSet(candidates) :
         /\ c.start >= start /\ c.end <= end /\ c.start < c.end
         /\ \A o \in others : ~Overlap(c, o) /\ o.id # c.id
    /\ \A i, j \in DOMAIN candidates : i # j => ~Overlap(candidates[i], candidates[j])
Adopted(s, start, end, candidates) ==
    LET all == s.cues \o candidates IN
    Sorted(all, {i \in DOMAIN all : i > Len(s.cues) \/ ~Touches(all[i], start, end)})

(***************************************************************************)
(* finish_recorded: what the triggers would have done, for a rebuilt       *)
(* structure, and one more revision of the workspace.                      *)
(***************************************************************************)
SameSource(a, b) ==
    /\ a.src = b.src /\ ~Retimed(a, b)
    /\ a.srcEdited = b.srcEdited /\ a.timeEdited = b.timeEdited
SameLineage(p, q) == p.kind = q.kind /\ p.timing = q.timing /\ p.align = q.align
EdgesOf(s, id) == {e \in s.edges : e.target = id}
\* Mutant of NextRevision: it counts on from the saved revision.
NextOfSaved(saved, current, changed) == saved + (IF changed THEN 1 ELSE 0)

NextRevision(saved, current, changed) ==
    Max({saved, current}) + (IF changed THEN 1 ELSE 0)

ChangedContexts(old, new) ==
    {id \in Ids(old.cues) :
        ~Has(new, id) \/ ~SameSource(CueOf(old, id), CueOf(new, id))
                      \/ ~SameLineage(old.prov[id], new.prov[id])}

\* Mutant of FinishRecorded: the consumers of a moved context are not looked for.
FinishAlone(old, new, adopted) ==
    LET kept == Ids(old.cues) \cap Ids(new.cues)
        moved(id) == id \in ChangedContexts(old, new) IN
    [new EXCEPT !.rev = @ + 1,
                !.prov = [i \in DOMAIN @ |->
                    IF i \in kept /\ moved(i) THEN [@[i] EXCEPT !.srcRev = @ + 1] ELSE @[i]]]

FinishRecorded(old, new, adopted) ==
    LET consumers == {id \in Consumers(old.edges, ChangedContexts(old, new)) :
                        Has(new, id) /\ CueOf(new, id).tr # None /\ ~CueOf(new, id).trEdited}
        kept == Ids(old.cues) \cap Ids(new.cues)
        moved(id) == id \in ChangedContexts(old, new)
        replaced(id) == \/ CueOf(old, id).tr # CueOf(new, id).tr
                        \/ CueOf(old, id).trEdited # CueOf(new, id).trEdited
        touched(id) == \/ replaced(id)
                       \/ CueOf(old, id).stale # CueOf(new, id).stale
                       \/ EdgesOf(old, id) # EdgesOf(new, id)
                       \/ id \in consumers
        retold(id) == CueOf(old, id).src # CueOf(new, id).src /\ id \notin adopted
        resized(id) == Retimed(CueOf(old, id), CueOf(new, id)) /\ id \notin adopted
        finished(id) ==
            LET p == new.prov[id] IN
            [kind     |-> IF retold(id) THEN "manual" ELSE p.kind,
             timing   |-> IF resized(id) THEN "manual" ELSE p.timing,
             align    |-> IF retold(id) THEN "stale" ELSE p.align,
             srcRev   |-> NextRevision(old.prov[id].srcRev, p.srcRev, moved(id)),
             trRev    |-> NextRevision(old.prov[id].trRev, p.trRev, touched(id)),
             depStale |-> ~replaced(id) /\ (p.depStale \/ id \in consumers)]
        changed == {id \in kept : moved(id) \/ touched(id)} IN
    [rev   |-> new.rev + 1,
     cues  |-> new.cues,
     prov  |-> [i \in DOMAIN new.prov |-> IF i \in changed THEN finished(i) ELSE new.prov[i]],
     edges |-> {e \in new.edges : ~(e.target \in kept /\ replaced(e.target))}]

RecordedEdit(s, cues) == FinishRecorded(s, PersistStructure(s, cues), {})
RecordedAdoption(s, start, end, candidates) ==
    LET p == PersistStructure(s, Adopted(s, start, end, candidates))
        ids == Ids(candidates) IN
    FinishRecorded(s, [p EXCEPT !.prov = [i \in DOMAIN @ |->
        IF i \in ids THEN Recognized(@[i]) ELSE @[i]]], ids)

(***************************************************************************)
(* undo_recorded_structure: back to the cues, lineage, edges and flags     *)
(* before the edit, under revisions that only grow.                        *)
(***************************************************************************)
UndoRecorded(s, before) ==
    LET rebuilt == PersistStructure(s, before.cues)
        current(id) == IF id \in DOMAIN s.prov THEN s.prov[id] ELSE Unmarked
        moved(id) == \/ ~Has(s, id)
                     \/ ~SameSource(CueOf(s, id), CueOf(before, id))
                     \/ ~SameLineage(s.prov[id], before.prov[id])
        touched(id) == \/ ~Has(s, id)
                       \/ CueOf(s, id).tr # CueOf(before, id).tr
                       \/ CueOf(s, id).trEdited # CueOf(before, id).trEdited
                       \/ CueOf(s, id).stale # CueOf(before, id).stale
                       \/ s.prov[id].depStale # before.prov[id].depStale
                       \/ EdgesOf(s, id) # EdgesOf(before, id)
        srcRev(id) == NextRevision(before.prov[id].srcRev, current(id).srcRev, moved(id))
        trRev(id) == NextRevision(before.prov[id].trRev, current(id).trRev, touched(id))
        rebound(e) == [e EXCEPT !.rev = IF @ = before.prov[e.context].srcRev
                                        THEN srcRev(e.context) ELSE @] IN
    [rev   |-> rebuilt.rev + 1,
     cues  |-> before.cues,
     prov  |-> [i \in Ids(before.cues) |->
                  [before.prov[i] EXCEPT !.srcRev = srcRev(i), !.trRev = trRev(i)]],
     edges |-> {rebound(e) : e \in before.edges}]

(***************************************************************************)
(* apply_machine_translation_group: one transaction for a group, refused   *)
(* as a whole when a target is not what it was when the batch read it.     *)
(* update = [id, src, tr (expected), edited (expected), srcRev, trRev,     *)
(* text], dependency = [id, src, rev].                                     *)
(***************************************************************************)
\* Mutant of CanApply: the texts are compared, the revisions are not.
CanApplyByText(s, updates) ==
    \A u \in updates :
        /\ Has(s, u.id)
        /\ CueOf(s, u.id).src = u.src
        /\ CueOf(s, u.id).tr = u.tr /\ CueOf(s, u.id).trEdited = u.edited

CanApply(s, updates) ==
    \A u \in updates :
        /\ Has(s, u.id)
        /\ s.prov[u.id].srcRev = u.srcRev /\ s.prov[u.id].trRev = u.trRev
        /\ CueOf(s, u.id).src = u.src
        /\ CueOf(s, u.id).tr = u.tr /\ CueOf(s, u.id).trEdited = u.edited

\* Mutant of Outdated: a context cue that is still there is as it was.
OutdatedGone(s, d) == ~Has(s, d.id)

Outdated(s, d) ==
    ~Has(s, d.id) \/ CueOf(s, d.id).src # d.src \/ s.prov[d.id].srcRev # d.rev

ApplyGroup(s, updates, dependencies) ==
    LET targets == {u.id : u \in updates}
        text(id) == (CHOOSE u \in updates : u.id = id).text
        stale == \E d \in dependencies : Outdated(s, d)
        present == {d.id : d \in dependencies} \cap Ids(s.cues)
        differs == {id \in targets : CueOf(s, id).tr # text(id)} IN
    [rev   |-> s.rev + Cardinality(differs),
     cues  |-> [i \in DOMAIN s.cues |->
                  IF s.cues[i].id \in targets
                  THEN [s.cues[i] EXCEPT !.tr = text(s.cues[i].id), !.trEdited = FALSE,
                                         !.stale = FALSE]
                  ELSE s.cues[i]],
     prov  |-> [i \in DOMAIN s.prov |->
                  [s.prov[i] EXCEPT !.trRev = IF i \in differs THEN @ + 1 ELSE @,
                                    !.depStale = IF i \in targets THEN stale ELSE @]],
     edges |-> {e \in s.edges : e.target \notin targets} \cup
               UNION {{[target |-> t, context |-> c, rev |-> s.prov[c].srcRev] :
                          c \in present \ {t}} : t \in targets}]

(***************************************************************************)
(* merge_snapshot_segments_in_transaction: the published transcript is     *)
(* written again, keeping what the user edited and what was translated.    *)
(* The transcript carries no translations and no edits.                    *)
(***************************************************************************)
\* Mutant of MergedCue: only a translation the user edited is kept.
MergedEdited(s, cue) ==
    IF ~Has(s, cue.id) THEN cue
    ELSE LET old == CueOf(s, cue.id) IN
         [cue EXCEPT !.src = IF old.srcEdited THEN old.src ELSE @,
                     !.srcEdited = old.srcEdited,
                     !.tr = IF old.trEdited THEN old.tr ELSE @,
                     !.trEdited = old.trEdited]

MergedCue(s, cue) ==
    IF ~Has(s, cue.id) THEN cue
    ELSE LET old == CueOf(s, cue.id)
             src == IF old.srcEdited THEN old.src ELSE cue.src
             new == [cue EXCEPT !.src = src, !.srcEdited = old.srcEdited,
                        !.start = IF old.timeEdited THEN old.start ELSE @,
                        !.end = IF old.timeEdited THEN old.end ELSE @,
                        !.timeEdited = old.timeEdited] IN
         IF old.tr # None \/ old.trEdited
         THEN [new EXCEPT !.tr = old.tr, !.trEdited = old.trEdited,
                          !.stale = old.stale \/ src # old.src]
         ELSE new
MergeSnapshot(s, published) ==
    LET ids == Ids(published) IN
    [rev   |-> s.rev + Len(published),
     cues  |-> [i \in DOMAIN published |-> MergedCue(s, published[i])],
     prov  |-> [i \in ids |-> IF i \in DOMAIN s.prov THEN s.prov[i] ELSE Unmarked],
     edges |-> {e \in s.edges : e.target \in ids /\ e.context \in ids}]

\* assign_asr_cue_provenance: evidence for rows nobody has touched.
AssignProvenance(s, published) ==
    [s EXCEPT !.prov = [i \in DOMAIN @ |->
        IF /\ @[i].kind = "legacy" /\ @[i].timing = "legacy" /\ @[i].srcRev = 0
           /\ \E c \in ToSet(published) :
                /\ c.id = i
                /\ CueOf(s, i).src = c.src /\ ~Retimed(CueOf(s, i), c)
                /\ ~CueOf(s, i).srcEdited /\ ~CueOf(s, i).timeEdited
        THEN Recognized(@[i]) ELSE @[i]]]
=============================================================================
