-------------------------- MODULE SubtitleWorkspace --------------------------
(***************************************************************************)
(* The subtitle workspace of one task: the editor that saves texts and     *)
(* edits the structure, the structure undo history, the translation        *)
(* batches of local_workspace_service.rs, the refresh that writes the      *)
(* transcript again and the export, all over the tables of SubtitleStore.  *)
(* Every repository call is one transaction, so one step; what is held     *)
(* between two calls is a variable.                                        *)
(*                                                                         *)
(* The history gate of structure_edit_session.rs covers the transaction    *)
(* and the record of its receipt, so a structure edit is one step too.     *)
(***************************************************************************)
EXTENDS SubtitleStore

CONSTANTS
    Published,    \* the transcript: a sequence of untranslated cues
    Opened,       \* the stores a task may be opened with: Fresh, Translated
    NewIds,       \* identities for cues a structure edit creates
    Candidate,    \* a recognition candidate: [start, end, cues]
    NewSource,    \* a text the user types
    Times,        \* the positions times are moved to
    Limit,        \* PER_JOB_LIMIT of structure_undo_history.rs
    Concurrency,  \* group_concurrency of the provider
    MaxEdits,     \* bound: edits of the user
    MaxBatches,   \* bound: translation runs
    MaxOthers     \* bound: refreshes, recoveries of evidence and exports

\* Cues as recognition publishes them: not translated and not edited.
IsTranscript(cues) ==
    /\ cues \in Seq(ToSet(cues))
    /\ \A c \in ToSet(cues) :
         /\ c = NewCue(c.id, c.start, c.end, c.src)
         /\ {c.start, c.end} \subseteq Int /\ c.start < c.end
    /\ \A i, j \in DOMAIN cues : cues[i].id = cues[j].id => i = j

ASSUME TranscriptAssumption == IsTranscript(Published) /\ IsTranscript(Candidate.cues)
ASSUME IdentityAssumption == NewIds \cap (Ids(Published) \cup Ids(Candidate.cues)) = {}
ASSUME BoundsAssumption ==
    /\ Times \subseteq Int
    /\ {Limit, Concurrency} \subseteq Nat \ {0}
    /\ {MaxEdits, MaxBatches, MaxOthers} \subseteq Nat

VARIABLES
    store,        \* the tables of the task
    settled,      \* the row's status is done or failed
    frozen,       \* subtitle_structure_edited
    history,      \* receipts of recorded edits: [before, after] stores
    view,         \* the cues the editor shows
    saved,        \* text undo of the editor: [before, after] cues, newest last
    batch,        \* the translation run that holds the lock of the job; touched is a
                  \* ghost: of each cue that stayed since the run read the revisions,
                  \* whether the user changed its text or its time
    export,       \* an export of translations between its two reads:
                  \* [pc, cues, crossed, fresh], the last two ghosts: a write came
                  \* between the reads, and no exported translation was outdated
    unlinked,     \* ghost: cues whose machine translation came back by a text undo
                  \* and has not been replaced since
    left          \* the bounds: [edits, batches, others] still allowed,
                  \* and the identities no cue has had yet

vars == <<store, settled, frozen, history, view, saved, batch, export, unlinked, left>>
editor == <<view, saved, history>>

Idle == [pc |-> "idle", pending |-> FALSE, cues |-> <<>>, targets |-> {},
         revs |-> <<>>, waiting |-> {}, asked |-> {}, failed |-> FALSE, touched |-> <<>>]
NoExport == [pc |-> "none", cues |-> <<>>, crossed |-> FALSE, fresh |-> TRUE]

\* The workspace a task is opened with: just published, or translated as well.
Fresh == MergeSnapshot([rev |-> 0, cues |-> <<>>, prov |-> <<>>, edges |-> {}], Published)
Translated ==
    LET others(c) == ToSet(Published) \ {c}
        text(c) == <<[of |-> c.src, ctx |-> {<<d.id, d.src>> : d \in others(c)}]>> IN
    [Fresh EXCEPT
        !.rev = @ + Len(Published),
        !.cues = [i \in DOMAIN @ |-> [@[i] EXCEPT !.tr = text(Published[i])]],
        !.prov = [i \in DOMAIN @ |-> [@[i] EXCEPT !.trRev = 1]],
        !.edges = {[target |-> pair[1].id, context |-> pair[2].id, rev |-> 0] :
                     pair \in {p \in ToSet(Published) \X ToSet(Published) : p[1] # p[2]}}]

ASSUME OpenedAssumption == Opened \subseteq {Fresh, Translated}

Init ==
    /\ store \in Opened
    /\ settled \in BOOLEAN /\ frozen = FALSE
    /\ history = <<>>
    /\ view = store.cues
    /\ saved = <<>>
    /\ batch = Idle
    /\ export = NoExport
    /\ unlinked = {}
    /\ left = [edits |-> MaxEdits, batches |-> MaxBatches, others |-> MaxOthers,
               ids |-> NewIds]

\* Every transaction that writes: the ghosts follow.
Writes(s) ==
    /\ store' = s
    /\ export' = [export EXCEPT !.crossed = @ \/ (export.pc = "listed" /\ s # store)]

\* What a user changes of a cue.  (A text undo that finds its texts there already
\* moves flags alone, and no revision with them.)
Rewritten(old, new) == old.src # new.src \/ old.tr # new.tr \/ Retimed(old, new)

\* A transaction of the user, who may be working beside a translation run.
\* A cue that was removed is another one when it comes back.
UserWrites(s) ==
    /\ Writes(s)
    /\ batch' = IF batch.pc = "running"
                THEN [batch EXCEPT !.touched =
                         [id \in DOMAIN @ \cap Ids(s.cues) |->
                             @[id] \/ Rewritten(CueOf(store, id), CueOf(s, id))]]
                ELSE batch

(***************************************************************************)
(* The task service: sync_snapshot of a refresh or of the end of the run,  *)
(* and the recovery of the recognition evidence.                           *)
(***************************************************************************)
SyncSnapshot ==
    /\ left.others > 0
    /\ left' = [left EXCEPT !.others = @ - 1]
    /\ settled' \in {settled, TRUE}
    /\ Writes(IF frozen THEN store ELSE MergeSnapshot(store, Published))
    /\ UNCHANGED <<frozen, editor, batch, unlinked>>

RecoverEvidence ==
    /\ left.others > 0
    /\ AssignProvenance(store, Published) # store
    /\ left' = [left EXCEPT !.others = @ - 1]
    /\ Writes(AssignProvenance(store, Published))
    /\ UNCHANGED <<settled, frozen, editor, batch, unlinked>>

(***************************************************************************)
(* The editor's read: get_job_detail replaces what it shows.  Before a     *)
(* structure edit it asks for the state, compares it with what it shows    *)
(* and sends its revision, so that the edit is accepted from what is shown *)
(* or changes nothing.                                                     *)
(***************************************************************************)
OpenDetail ==
    /\ view # store.cues
    /\ view' = store.cues
    /\ UNCHANGED <<store, settled, frozen, history, saved, batch, export, unlinked, left>>

(***************************************************************************)
(* Texts: an autosave sends the draft with the times the editor shows, and *)
(* remembers the cue it replaced; a text undo writes that cue back when    *)
(* the cue the editor shows is still the one that save left.               *)
(***************************************************************************)
Shows(cue) == [i \in DOMAIN view |-> IF view[i].id = cue.id THEN cue ELSE view[i]]

SaveText(shown, src, tr) ==
    /\ Has(store, shown.id)
    /\ <<src, tr>> # <<shown.src, shown.tr>>
    /\ left.edits > 0
    /\ left' = [left EXCEPT !.edits = @ - 1]
    /\ LET s == UpdateSegment(store, shown.id, src, tr, shown.start, shown.end)
           cue == CueOf(s, shown.id) IN
       /\ UserWrites(s)
       /\ view' = Shows(cue)
       /\ saved' = IF cue = shown THEN saved ELSE Append(saved, [before |-> shown, after |-> cue])
       /\ unlinked' = IF cue.tr = CueOf(store, cue.id).tr THEN unlinked ELSE unlinked \ {cue.id}
    /\ UNCHANGED <<settled, frozen, history>>

LatestSave(id) ==
    LET mine == {i \in DOMAIN saved : saved[i].after.id = id} IN
    IF mine = {} THEN 0 ELSE Max(mine)

UndoText(id) ==
    /\ LatestSave(id) # 0
    /\ saved[LatestSave(id)].after \in ToSet(view)
    /\ Has(store, id)
    /\ LET snapshot == saved[LatestSave(id)].before IN
       /\ UserWrites(RestoreSegment(store, snapshot))
       /\ view' = Shows(snapshot)
       /\ saved' = RemoveAt(saved, LatestSave(id))
       /\ unlinked' = IF /\ snapshot.tr = CueOf(store, id).tr
                         /\ snapshot.trEdited = CueOf(store, id).trEdited
                      THEN unlinked ELSE unlinked \cup {id}
    /\ UNCHANGED <<settled, frozen, history, left>>

(***************************************************************************)
(* Structure edits, recorded.  The receipt extends the history when it     *)
(* starts where the last one ended, and replaces it otherwise.             *)
(***************************************************************************)
\* Mutant of Push: a receipt extends the history whatever came between.
PushAlways(receipts, receipt) ==
    LET all == Append(receipts, receipt) IN
    IF Len(all) > Limit THEN Tail(all) ELSE all

Push(receipts, receipt) ==
    LET kept == IF receipts # <<>> /\ Last(receipts).after # receipt.before
                THEN <<>> ELSE receipts
        all == Append(kept, receipt) IN
    IF Len(all) > Limit THEN Tail(all) ELSE all

Recorded(s) ==
    /\ settled
    /\ left.edits > 0
    /\ left' = [left EXCEPT !.edits = @ - 1, !.ids = @ \ Ids(s.cues)]
    /\ UserWrites(s)
    /\ frozen' = TRUE
    /\ history' = Push(history, [before |-> store, after |-> s])
    /\ view' = s.cues
    /\ saved' = <<>>
    /\ UNCHANGED <<settled, unlinked>>

RemoveBlock(id) ==
    /\ view = store.cues
    /\ CanRemove(store, id)
    /\ Recorded(RecordedEdit(store, Removed(store, id)))

InsertBlock(id, start, end, src, tr) ==
    LET block == [NewCue(id, start, end, src) EXCEPT !.tr = tr] IN
    /\ view = store.cues
    /\ CanInsert(store, block)
    /\ Recorded(RecordedEdit(store, Inserted(store, block)))

SaveTiming(i, end) ==
    LET after == [view EXCEPT ![i].end = end] IN
    /\ view = store.cues
    /\ after # store.cues
    /\ CanRetime(store, after)
    /\ Recorded(RecordedEdit(store, Timed(store, after)))

\* The editor copies the texts of the cue to both halves.
Cut(cue, boundary, new) ==
    /\ view = store.cues
    /\ CanSplit(store, cue.id, boundary)
    /\ Recorded(RecordedEdit(store,
           SplitUp(store, cue.id, boundary, new, cue.src, cue.src, cue.tr, cue.tr)))

\* The editor joins the texts of two cues that touch.
Join(l, r) ==
    LET tr == IF l.tr # None /\ r.tr # None THEN l.tr \o r.tr ELSE None IN
    /\ view = store.cues
    /\ l.end = r.start
    /\ CanMerge(store, l.id, r.id)
    /\ Recorded(RecordedEdit(store, Merged(store, l.id, r.id, l.src \o r.src, tr)))

\* The comparison that was shown is of this revision and of these cues.
AdoptCandidate ==
    /\ view = store.cues
    /\ CanAdopt(store, Candidate.start, Candidate.end,
                Affected([cues |-> view], Candidate.start, Candidate.end), Candidate.cues)
    /\ Recorded(RecordedAdoption(store, Candidate.start, Candidate.end, Candidate.cues))

(***************************************************************************)
(* undo of the session: the newest receipt, if the store is in full what   *)
(* that edit left; the receipt before it is bound to the restored store    *)
(* when the two were continuous, and the history is dropped otherwise.     *)
(***************************************************************************)
Rebased(older, undone, s) ==
    IF older = <<>> THEN <<>>
    ELSE IF Last(older).after = undone.before
         THEN Append(Front(older), [Last(older) EXCEPT !.after = s])
         ELSE <<>>

UndoStructure ==
    /\ settled /\ history # <<>>
    /\ store = Last(history).after
    /\ LET undone == Last(history)
           s == UndoRecorded(store, undone.before) IN
       /\ UserWrites(s)
       /\ history' = Rebased(Front(history), undone, s)
       /\ view' = s.cues
    /\ saved' = <<>>
    /\ frozen' = TRUE
    /\ UNCHANGED <<settled, left, unlinked>>

\* The edits of another task push this one's oldest receipt out of the budget.
EvictOldest ==
    /\ history # <<>>
    /\ history' = Tail(history)
    /\ UNCHANGED <<store, settled, frozen, view, saved, batch, export, unlinked, left>>

\* What state() offers: the newest receipt, by its revision alone.
Offered == history # <<>> /\ Last(history).after.rev = store.rev

(***************************************************************************)
(* Translation: translate_batch and translate_segment under the lock of    *)
(* the job, in three reads, then one transaction per answered group.       *)
(***************************************************************************)
Lists(pending) ==
    /\ batch.pc = "idle" /\ left.batches > 0
    /\ left' = [left EXCEPT !.batches = @ - 1]
    /\ batch' = [Idle EXCEPT !.pc = "listed", !.pending = pending, !.cues = store.cues,
                             !.targets = Ids(store.cues)]
    /\ UNCHANGED <<store, settled, frozen, editor, export, unlinked>>

TranslateSegment(id) ==
    /\ batch.pc = "idle" /\ left.batches > 0
    /\ Has(store, id)
    /\ left' = [left EXCEPT !.batches = @ - 1]
    /\ batch' = [Idle EXCEPT !.pc = "planned", !.cues = store.cues, !.targets = {id}]
    /\ UNCHANGED <<store, settled, frozen, editor, export, unlinked>>

Needs(cue, prov) ==
    \/ cue.stale \/ cue.tr = None
    \/ cue.id \in DOMAIN prov /\ prov[cue.id].depStale

ReadStale ==
    /\ batch.pc = "listed"
    /\ LET need == {c.id : c \in {d \in ToSet(batch.cues) : Needs(d, store.prov)}} IN
       batch' = IF batch.cues = <<>> \/ (batch.pending /\ need = {}) THEN Idle
                ELSE [batch EXCEPT !.pc = "planned",
                                   !.targets = IF batch.pending THEN need ELSE @]
    /\ UNCHANGED <<store, settled, frozen, editor, export, unlinked, left>>

\* The plan is one group, or a group per cue: the planner has its own module.
Plans(targets) == {{targets}, {{id} : id \in targets}}

ReadRevisions ==
    /\ batch.pc = "planned"
    /\ \E plan \in Plans(batch.targets) :
         batch' = [batch EXCEPT !.pc = "running", !.waiting = plan,
                     !.revs = [i \in DOMAIN store.prov |->
                                 [src |-> store.prov[i].srcRev, tr |-> store.prov[i].trRev]],
                     !.touched = [i \in DOMAIN store.prov |-> FALSE]]
    /\ UNCHANGED <<store, settled, frozen, editor, export, unlinked, left>>

First(groups) ==
    CHOOSE g \in groups : \A h \in groups :
        Min({Position(batch.cues, i) : i \in g}) <= Min({Position(batch.cues, i) : i \in h})

\* A group whose cues have no revision fails in its worker before it is sent.
Dispatch ==
    /\ batch.pc = "running" /\ ~batch.failed
    /\ batch.waiting # {} /\ Cardinality(batch.asked) < Concurrency
    /\ LET g == First(batch.waiting)
           known == Ids(batch.cues) \subseteq DOMAIN batch.revs IN
       batch' = [batch EXCEPT !.waiting = @ \ {g},
                              !.asked = @ \cup {[ids |-> g, retry |-> FALSE, broken |-> ~known]}]
    /\ UNCHANGED <<store, settled, frozen, editor, export, unlinked, left>>

Read(id) == batch.cues[Position(batch.cues, id)]
Context(g) == Ids(batch.cues) \ g

Update(id, ctx) ==
    [id |-> id, src |-> Read(id).src, tr |-> Read(id).tr, edited |-> Read(id).trEdited,
     srcRev |-> batch.revs[id].src, trRev |-> batch.revs[id].tr,
     text |-> <<[of |-> Read(id).src, ctx |-> {<<c, Read(c).src>> : c \in ctx}]>>]

\* An answer arrives: it used the context or not, and left some targets empty.
Answer(ask, ctx, empty) ==
    LET updates == {Update(id, ctx) : id \in ask.ids \ empty}
        depends == {[id |-> c, src |-> Read(c).src, rev |-> batch.revs[c].src] :
                        c \in Context(ask.ids)}
        others == batch.asked \ {ask}
        again == IF empty = {} \/ ask.retry THEN {} ELSE {[ids |-> empty, retry |-> TRUE, broken |-> FALSE]}
    IN
    /\ IF updates = {} \/ CanApply(store, updates)
       THEN /\ Writes(IF updates = {} THEN store ELSE ApplyGroup(store, updates, depends))
            /\ batch' = [batch EXCEPT !.asked = others \cup again]
            /\ unlinked' = unlinked \ {u.id : u \in {v \in updates : CueOf(store, v.id).tr # v.text}}
       ELSE /\ batch' = [batch EXCEPT !.asked = others \cup {[ask EXCEPT !.broken = TRUE]}]
            /\ UNCHANGED <<store, export, unlinked>>
    /\ UNCHANGED <<settled, frozen, editor, left>>

Open == {ask \in batch.asked : ~ask.broken}
Answers ==
    \E ask \in Open : \E empty \in SUBSET ask.ids : \E ctx \in {{}, Context(ask.ids)} :
        Answer(ask, ctx, empty)

\* The provider fails, or its answer is not one per target.
ProviderFails ==
    /\ \E ask \in Open :
         batch' = [batch EXCEPT !.asked = (@ \ {ask}) \cup {[ask EXCEPT !.broken = TRUE]}]
    /\ UNCHANGED <<store, settled, frozen, editor, export, unlinked, left>>

\* The run learns of a worker that failed, perhaps after it joined a later one.
JoinsFailed ==
    /\ \E ask \in batch.asked \ Open :
         batch' = [batch EXCEPT !.asked = @ \ {ask}, !.failed = TRUE]
    /\ UNCHANGED <<store, settled, frozen, editor, export, unlinked, left>>

\* Mutant of BatchReturns: a failed run waits for groups it no longer sends.
ReturnsComplete ==
    /\ batch.pc = "running" /\ batch.asked = {}
    /\ batch.waiting = {}
    /\ batch' = Idle
    /\ UNCHANGED <<store, settled, frozen, editor, export, unlinked, left>>

\* What was in flight has been drained; the lock of the job is released.
BatchReturns ==
    /\ batch.pc = "running" /\ batch.asked = {}
    /\ batch.failed \/ batch.waiting = {}
    /\ batch' = Idle
    /\ UNCHANGED <<store, settled, frozen, editor, export, unlinked, left>>

(***************************************************************************)
(* Export of translated subtitles: get_job reads the cues, then the        *)
(* provenance, and the export is refused when either shows a stale one.    *)
(***************************************************************************)
ExportLists ==
    /\ export.pc # "listed" /\ left.others > 0
    /\ left' = [left EXCEPT !.others = @ - 1]
    /\ export' = [NoExport EXCEPT !.pc = "listed", !.cues = store.cues]
    /\ UNCHANGED <<store, settled, frozen, editor, batch, unlinked>>

\* The translations that go out beside these sources are made from them.
UpToDate(cues) ==
    \A c \in ToSet(cues) : c.tr # None /\ ~c.trEdited =>
        \A piece \in ToSet(c.tr) :
            /\ piece.of = c.src
            /\ c.id \in unlinked \/
               \A used \in piece.ctx : \E d \in ToSet(cues) : d.id = used[1] /\ d.src = used[2]

\* Mutant of ExportChecks: only the stale flag of the cues is looked at.
ExportsUnchecked ==
    /\ export.pc = "listed"
    /\ LET refused == \E c \in ToSet(export.cues) : c.stale \/ c.tr = None IN
       export' = [NoExport EXCEPT !.pc = IF refused THEN "refused" ELSE "exported",
                                  !.crossed = export.crossed,
                                  !.fresh = refused \/ UpToDate(export.cues)]
    /\ UNCHANGED <<store, settled, frozen, editor, batch, unlinked, left>>

ExportChecks ==
    /\ export.pc = "listed"
    /\ LET refused == \/ export.cues = <<>>
                      \/ \E c \in ToSet(export.cues) : c.stale \/ c.tr = None
                      \/ \E i \in DOMAIN store.prov : store.prov[i].depStale IN
       export' = [NoExport EXCEPT !.pc = IF refused THEN "refused" ELSE "exported",
                                  !.crossed = export.crossed,
                                  !.fresh = refused \/ UpToDate(export.cues)]
    /\ UNCHANGED <<store, settled, frozen, editor, batch, unlinked, left>>

(***************************************************************************)
(* What the user types: a new source, or a translation of their own.       *)
(***************************************************************************)
Drafts(cue) == {<<NewSource, cue.tr>>, <<cue.src, Typed(NewSource)>>}

Saves == \E shown \in ToSet(view) : \E draft \in Drafts(shown) :
            SaveText(shown, draft[1], draft[2])
UndoesText == \E shown \in ToSet(view) : UndoText(shown.id)
Removes == \E id \in Ids(view) : RemoveBlock(id)
Inserts == \E id \in left.ids : \E start, end \in Times :
              InsertBlock(id, start, end, NewSource, None)
MovesTime == \E i \in DOMAIN view : \E end \in Times : SaveTiming(i, end)
Cuts == \E cue \in ToSet(view) : \E at \in Times : \E new \in left.ids : Cut(cue, at, new)
Joins == \E i \in 1..(Len(view) - 1) : Join(view[i], view[i + 1])
Translates == (\E pending \in BOOLEAN : Lists(pending))
              \/ \E id \in Ids(store.cues) : TranslateSegment(id)

User == Saves \/ UndoesText \/ Removes \/ Inserts \/ MovesTime \/ Cuts \/ Joins
        \/ AdoptCandidate \/ UndoStructure \/ OpenDetail
Translation == ReadStale \/ ReadRevisions \/ Dispatch \/ Answers \/ ProviderFails
               \/ JoinsFailed \/ BatchReturns

Next == \/ User \/ Translates \/ Translation \/ SyncSnapshot \/ RecoverEvidence
        \/ EvictOldest \/ ExportLists \/ ExportChecks

Spec == Init /\ [][Next]_vars

\* The executor polls a run that is ready, and every provider call ends, in an
\* answer or in an error.  Users are free to do nothing.
FairSpec == Spec /\ WF_vars(Translation)

(***************************************************************************)
(* Properties.                                                             *)
(***************************************************************************)
CueType(c) ==
    /\ c.start < c.end
    /\ {c.srcEdited, c.trEdited, c.stale, c.timeEdited} \subseteq BOOLEAN

TypeOK ==
    /\ store.rev \in Nat
    /\ \A c \in ToSet(store.cues) : CueType(c)
    /\ Cardinality(Ids(store.cues)) = Len(store.cues)
    /\ DOMAIN store.prov = Ids(store.cues)
    /\ \A e \in store.edges : {e.target, e.context} \subseteq Ids(store.cues)
    /\ settled \in BOOLEAN /\ frozen \in BOOLEAN
    /\ Len(history) <= Limit
    /\ batch.pc \in {"idle", "listed", "planned", "running"}
    /\ Cardinality(batch.asked) <= Concurrency

\* A translation that nothing marks: not stale itself, and no context moved.
Unflagged(s, c) == c.tr # None /\ ~c.trEdited /\ ~c.stale /\ ~s.prov[c.id].depStale

\* Whatever edits, undoes, refreshes and late answers overlap, a machine
\* translation that is not flagged was made from the source its cue has now and
\* from the sources its context cues have now (a text undo, which restores a
\* translation without its edges, is excepted for the context).
FreshTranslation ==
    \A c \in ToSet(store.cues) : Unflagged(store, c) =>
        \A piece \in ToSet(c.tr) :
            /\ piece.of = c.src
            /\ c.id \in unlinked \/
               \A used \in piece.ctx : Has(store, used[1]) /\ CueOf(store, used[1]).src = used[2]

\* An edge whose context has moved on since it was recorded belongs to a
\* translation that is flagged, and no edge is ahead of its context: rebuilt
\* rows and rebased revisions lose no consumer.
MovedContextFlagged ==
    \A e \in store.edges :
        LET target == CueOf(store, e.target) IN
        /\ e.rev <= store.prov[e.context].srcRev
        /\ e.rev < store.prov[e.context].srcRev /\ target.tr # None /\ ~target.trEdited =>
              store.prov[e.target].depStale

\* docs/architecture.md:122: a late answer of a run never replaces what the user
\* changed after the run read its revisions, even when the text is back to what
\* the run had read in between, as long as the cue was never removed.
KeepsUserWork ==
    [][\A id \in DOMAIN batch.touched : \A ask \in batch.asked :
         batch.touched[id] /\ ask \notin batch'.asked /\ batch' # Idle =>
            Has(store, id) /\ Has(store', id) /\ CueOf(store', id) = CueOf(store, id)]_vars

\* Revisions are what every later check compares: the workspace revision grows
\* with every change of what the cues say, and the two revisions of a cue that
\* stays never go back and grow with its source and its translation, also over
\* an undo that brings the old texts back.
RevisionsAdvance ==
    [][/\ store'.rev >= store.rev
       /\ store'.cues # store.cues /\ store'.rev = store.rev =>
            \* an identical answer, or a refresh of nothing, moves only flags
            [i \in DOMAIN store'.cues |-> <<store'.cues[i].src, store'.cues[i].tr>>]
            = [i \in DOMAIN store.cues |-> <<store.cues[i].src, store.cues[i].tr>>]
       /\ \A id \in Ids(store.cues) \cap Ids(store'.cues) :
            LET old == CueOf(store, id)
                new == CueOf(store', id)
                p == store.prov[id]
                q == store'.prov[id] IN
            /\ q.srcRev >= p.srcRev /\ q.trRev >= p.trRev
            /\ old.src # new.src \/ Retimed(old, new) => q.srcRev > p.srcRev
            /\ old.tr # new.tr => q.trRev > p.trRev]_vars

\* docs/architecture.md:103: a refresh that writes the transcript again keeps
\* every edited text and time and every translation, and brings no removed cue
\* back.
RefreshKeepsWork ==
    [][left'.others # left.others /\ export'.pc = export.pc =>
         /\ frozen => store'.cues = store.cues
         /\ \A c \in ToSet(store.cues) :
              /\ Has(store', c.id)
              /\ LET new == CueOf(store', c.id) IN
                 /\ c.srcEdited => new.src = c.src
                 /\ c.timeEdited => ~Retimed(c, new)
                 /\ c.tr # None \/ c.trEdited => new.tr = c.tr /\ new.trEdited = c.trEdited
                 /\ c.stale => new.stale
                 /\ LET p == store.prov[c.id]
                        q == store'.prov[c.id] IN
                    <<q.srcRev, q.trRev, q.depStale>> = <<p.srcRev, p.trRev, p.depStale>>]_vars

\* Exported translations are made from the sources exported beside them, when no
\* write fell between the two reads of the export.
ExportFresh == export.pc = "exported" /\ ~export.crossed => export.fresh

\* A run that took the lock of the job gives it back, also after a failure.
BatchEnds == batch.pc # "idle" ~> batch.pc = "idle"

\* The structure history keeps the promise of UndoPromise.
Promise == INSTANCE UndoPromise WITH
    shown <- store.cues,
    stack <- [i \in DOMAIN history |->
                [before |-> history[i].before.cues, after |-> history[i].after.cues]],
    live  <- history # <<>> /\ store = Last(history).after
UndoHonest == Promise!Spec

\* docs/decisions/0020-session-scoped-subtitle-undo.md:18: a text undo writes
\* only over the cue its save left.
UndoTextIsCurrent ==
    [][\A id \in Ids(view) : UndoText(id) =>
         CueOf(store, id) = saved[LatestSave(id)].after]_vars
=============================================================================
