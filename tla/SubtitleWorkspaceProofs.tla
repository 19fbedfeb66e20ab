----------------------- MODULE SubtitleWorkspaceProofs -----------------------
(***************************************************************************)
(* The subtitle workspace keeps its safety properties for every            *)
(* transcript, candidate and bound.  The invariant Inv says of the tables  *)
(* that no translation is left unflagged when what it was made from moves, *)
(* and says the same of every cue the editor still holds and may write     *)
(* back, and of every store the undo history may bring back.               *)
(***************************************************************************)
EXTENDS SubtitleWorkspace, SubtitleStoreProofs

-----------------------------------------------------------------------------
(* The invariant *)

\* The tables are good, and still the transcript where nobody edited them.
Intact(s, edited, loose) == Good(s, loose) /\ (~edited => Pristine(s, Published))
StoreInv == Intact(store, frozen, unlinked) /\ settled \in BOOLEAN /\ frozen \in BOOLEAN

\* A cue that would do no harm if it were written to the tables.
Harmless(s, edited, v) ==
    /\ Row(v) /\ OwnSource(v) /\ Lag(s, v) /\ Has(s, v.id)
    /\ ~edited => \A i \in DOMAIN Published : Published[i].id = v.id => Original(v, Published[i])

\* Such are the cues the editor shows, and those a text undo writes back.
Held(shown, kept, s, edited) ==
    /\ \A v \in ToSet(shown) : Harmless(s, edited, v)
    /\ List(kept)
    /\ \A i \in DOMAIN kept :
         Harmless(s, edited, kept[i].before) /\ kept[i].before.id = kept[i].after.id
EditorInv == Held(view, saved, store, frozen)

\* The receipts join up, and while the tables are where the newest one left them,
\* what an undo would bring back is good.
Joined(receipts, s, loose) ==
    /\ List(receipts) /\ Len(receipts) <= Limit
    /\ \A i \in DOMAIN receipts :
         receipts[i] \in [before : {receipts[i].before}, after : {receipts[i].after}]
    /\ \A i \in DOMAIN receipts :
         i + 1 \in DOMAIN receipts => receipts[i].after = receipts[i + 1].before
    /\ receipts # <<>> =>
         /\ Last(receipts).after.rev \in Nat /\ Last(receipts).after.rev <= s.rev
         /\ Last(receipts).after.rev = s.rev =>
              \A i \in DOMAIN receipts : Good(receipts[i].before, loose)
HistoryInv == Joined(history, store, unlinked)

\* The identities still to be given are those of no cue, shown or undone.
Unused(ids, receipts, s) ==
    /\ ids \cap Ids(s.cues) = {}
    /\ \A i \in DOMAIN receipts : ids \cap Ids(receipts[i].before.cues) = {}
LeftInv ==
    /\ left \in [edits : Int, batches : Int, others : Int, ids : SUBSET NewIds]
    /\ Unused(left.ids, history, store)

BatchInv ==
    /\ batch \in [pc : {"idle", "listed", "planned", "running"}, pending : {batch.pending},
                  cues : {batch.cues}, targets : {batch.targets}, revs : {batch.revs},
                  waiting : {batch.waiting}, asked : {batch.asked}, failed : {batch.failed},
                  touched : {batch.touched}]
    /\ IsFiniteSet(batch.asked) /\ Cardinality(batch.asked) <= Concurrency

\* An export that no write crossed holds the cues of the tables.
ExportInv ==
    /\ export \in [pc : {"none", "listed", "exported", "refused"}, cues : {export.cues},
                   crossed : BOOLEAN, fresh : {export.fresh}]
    /\ export.pc = "listed" /\ ~export.crossed => export.cues = store.cues
    /\ export.pc = "exported" /\ ~export.crossed => export.fresh

Inv == StoreInv /\ EditorInv /\ HistoryInv /\ LeftInv /\ BatchInv /\ ExportInv

-----------------------------------------------------------------------------
(* What the invariant says *)

\* The invariant gives the types.
LEMMA InvTypeOK == Inv => TypeOK
<1> SUFFICES ASSUME Inv PROVE TypeOK
  OBVIOUS
<1>1. Sound(store) /\ Rows(store.cues) /\ store.rev \in Nat /\ DOMAIN store.prov = Ids(store.cues)
      /\ \A e \in store.edges : e.target \in Ids(store.cues) /\ e.context \in Ids(store.cues)
  BY SoundParts, Parts DEF Inv, StoreInv, Intact, Good
<1>2. ASSUME NEW c \in ToSet(store.cues)
      PROVE  CueType(c)
  <2>1. Row(c)
    BY <1>1, Found
  <2> QED BY <2>1 DEF Row, CueType
<1>3. Cardinality(Ids(store.cues)) = Len(store.cues)
  BY <1>1, FiniteIds
<1>4. batch.pc \in {"idle", "listed", "planned", "running"} /\ Cardinality(batch.asked) <= Concurrency
  BY DEF Inv, BatchInv
<1>5. settled \in BOOLEAN /\ frozen \in BOOLEAN /\ Len(history) <= Limit
  BY DEF Inv, StoreInv, HistoryInv, Joined
<1> QED BY <1>1, <1>2, <1>3, <1>4, <1>5 DEF TypeOK

\* It gives the freshness of unflagged translations.
LEMMA InvFreshTranslation == Inv => FreshTranslation
<1> SUFFICES ASSUME Inv, NEW c \in ToSet(store.cues), Unflagged(store, c), NEW piece \in ToSet(c.tr)
             PROVE  /\ piece.of = c.src
                    /\ c.id \in unlinked \/
                       \A used \in piece.ctx : Has(store, used[1]) /\ CueOf(store, used[1]).src = used[2]
  BY DEF FreshTranslation
<1>1. Rows(store.cues)
  BY SoundParts DEF Inv, StoreInv, Intact, Good
<1>2. c.id \in Ids(store.cues) /\ CueOf(store, c.id) = c
  BY <1>1, Found DEF Has
<1>3. Machine(c) /\ ~c.stale /\ ~store.prov[c.id].depStale
  BY DEF Unflagged, Machine
<1>4. OwnSource(c) /\ (c.id \notin unlinked => Contexts(store, c))
  BY <1>2, <1>3 DEF Inv, StoreInv, Intact, Good, Current
<1> QED BY <1>3, <1>4 DEF OwnSource, Contexts

\* It gives the flags of the edges whose context has moved.
LEMMA InvMovedContextFlagged == Inv => MovedContextFlagged
<1> SUFFICES ASSUME Inv, NEW e \in store.edges
             PROVE  LET target == CueOf(store, e.target) IN
                    /\ e.rev <= store.prov[e.context].srcRev
                    /\ e.rev < store.prov[e.context].srcRev /\ target.tr # None /\ ~target.trEdited =>
                         store.prov[e.target].depStale
  BY DEF MovedContextFlagged
<1>1. Rows(store.cues) /\ e.target \in Ids(store.cues)
  BY SoundParts, Parts DEF Inv, StoreInv, Intact, Good
<1>2. CueOf(store, e.target).id = e.target /\ Lag(store, CueOf(store, e.target))
      /\ e.rev <= store.prov[e.context].srcRev
  BY <1>1, Found DEF Inv, StoreInv, Intact, Good, Flagged
<1> QED BY <1>2 DEF Lag, Machine

\* It gives the freshness of an export no write crossed.
LEMMA InvExportFresh == Inv => ExportFresh
BY DEF Inv, ExportInv, ExportFresh

\* The cues of the tables, once more exported as they are, are up to date.
LEMMA InvUpToDate ==
  ASSUME Inv, \A c \in ToSet(store.cues) : ~c.stale /\ c.tr # None,
         \A i \in DOMAIN store.prov : ~store.prov[i].depStale
  PROVE  UpToDate(store.cues)
<1> SUFFICES ASSUME NEW c \in ToSet(store.cues), c.tr # None, ~c.trEdited, NEW piece \in ToSet(c.tr)
             PROVE  /\ piece.of = c.src
                    /\ c.id \in unlinked \/
                       \A used \in piece.ctx :
                          \E d \in ToSet(store.cues) : d.id = used[1] /\ d.src = used[2]
  BY DEF UpToDate
<1>1. Rows(store.cues) /\ DOMAIN store.prov = Ids(store.cues)
  BY SoundParts DEF Inv, StoreInv, Intact, Good
<1>2. c.id \in Ids(store.cues)
  BY <1>1, Found DEF Has
<1>3. Unflagged(store, c)
  BY <1>1, <1>2 DEF Unflagged
<1>4. /\ piece.of = c.src
      /\ c.id \in unlinked \/
         \A used \in piece.ctx : Has(store, used[1]) /\ CueOf(store, used[1]).src = used[2]
  BY <1>3, InvFreshTranslation DEF FreshTranslation
<1>5. \A id : Has(store, id) => CueOf(store, id) \in ToSet(store.cues) /\ CueOf(store, id).id = id
  BY <1>1, Found DEF Has
<1> QED BY <1>4, <1>5

-----------------------------------------------------------------------------
(* The start *)

\* What is assumed of the published cues, said of their rows.
LEMMA TranscriptRows ==
  ASSUME NEW cues, IsTranscript(cues)
  PROVE  Transcript(cues)
<1>1. List(cues) /\ Distinct(cues)
  BY SeqList DEF IsTranscript, Distinct
<1>2. ASSUME NEW i \in DOMAIN cues
      PROVE  LET p == cues[i] IN
             Row(p) /\ p.tr = None /\ ~p.srcEdited /\ ~p.trEdited /\ ~p.stale /\ ~p.timeEdited
  <2> DEFINE p == cues[i]
  <2>1. p \in ToSet(cues)
    BY DEF ToSet
  <2>2. p = NewCue(p.id, p.start, p.end, p.src) /\ p.start \in Int /\ p.end \in Int /\ p.start < p.end
    BY <2>1 DEF IsTranscript
  <2> HIDE DEF p
  <2>3. \A id, start, end, src :
          LET n == NewCue(id, start, end, src) IN
          /\ n.tr = None /\ n.srcEdited = FALSE /\ n.trEdited = FALSE /\ n.stale = FALSE
          /\ n.timeEdited = FALSE
    BY DEF NewCue
  <2>4. p.tr = None /\ p.srcEdited = FALSE /\ p.trEdited = FALSE /\ p.stale = FALSE
        /\ p.timeEdited = FALSE
    BY <2>2, <2>3
  <2>5. NewCue(p.id, p.start, p.end, p.src) \in CueSet(p.id, p.src, None)
    BY <2>2, Zenon DEF NewCue, CueSet
  <2>6. p \in CueSet(p.id, p.src, None)
    BY <2>2, <2>5, Zenon
  <2>7. Row(p)
    BY <2>2, <2>6, CueRow
  <2> QED BY <2>4, <2>7 DEF p
<1> QED BY <1>1, <1>2 DEF Transcript, Rows

\* The tables of a task that has just been published.
LEMMA FreshDoes ==
  /\ Good(Fresh, {}) /\ Fresh.cues = Published /\ Fresh.edges = {}
  /\ \A id \in Ids(Published) : Fresh.prov[id] = Unmarked
<1> DEFINE none == [rev |-> 0, cues |-> <<>>, prov |-> <<>>, edges |-> {}]
           cues == [i \in DOMAIN Published |-> MergedCue(none, Published[i])]
           prov == [i \in Ids(Published) |-> IF i \in DOMAIN none.prov THEN none.prov[i] ELSE Unmarked]
           t == Fresh
<1>1. Transcript(Published) /\ Rows(Published)
  BY TranscriptAssumption, TranscriptRows DEF Transcript
<1>2. t = [rev |-> none.rev + Len(Published), cues |-> cues, prov |-> prov,
           edges |-> {e \in none.edges : e.target \in Ids(Published) /\ e.context \in Ids(Published)}]
  BY Zenon DEF Fresh, MergeSnapshot
<1>3. none.rev = 0 /\ none.cues = <<>> /\ none.prov = <<>> /\ none.edges = {} /\ DOMAIN <<>> = {}
  OBVIOUS
<1>4. \A id : ~Has(none, id)
  BY <1>3 DEF Has, Ids, ToSet
<1>5. DOMAIN Published = 1..Len(Published) /\ Len(Published) \in Nat
      /\ Published = [i \in 1..Len(Published) |-> Published[i]]
  BY <1>1, ListSeq DEF Rows, List
<1>6. \A i \in DOMAIN Published : MergedCue(none, Published[i]) = Published[i]
  BY <1>4, Zenon DEF MergedCue
<1>7. cues = Published
  BY <1>5, <1>6
<1>8. DOMAIN prov = Ids(Published) /\ \A id \in Ids(Published) : prov[id] = Unmarked
  BY <1>3
<1>9. prov \in [Ids(Published) -> Lineages]
  BY <1>8, FreshLines
<1> HIDE DEF t, none, cues, prov
<1>10. /\ t.rev = Len(Published) /\ t.cues = Published /\ t.prov = prov /\ t.edges = {}
       /\ t = [rev |-> t.rev, cues |-> t.cues, prov |-> t.prov, edges |-> t.edges]
  BY <1>2, <1>3, <1>5, <1>7
<1>11. Sound(t)
  BY <1>1, <1>5, <1>9, <1>10 DEF Sound
<1>12. ASSUME NEW id \in Ids(t.cues)
       PROVE  CueOf(t, id).tr = None /\ ~CueOf(t, id).stale
  <2>1. CueOf(t, id) \in ToSet(Published)
    BY <1>1, <1>10, <1>12, Found
  <2> QED BY <1>1, <2>1 DEF Transcript, ToSet
<1>13. Good(t, {})
  <2>1. Current(t, {})
    BY <1>12 DEF Current, OwnSource, Machine
  <2>2. Flagged(t)
    BY <1>10 DEF Flagged, Lag
  <2> QED BY <1>11, <2>1, <2>2 DEF Good
<1> QED BY <1>8, <1>10, <1>13 DEF t


\* The elements of a sequence of one.
LEMMA OneElement == ASSUME NEW x PROVE ToSet(<<x>>) = {x}
BY DEF ToSet

\* The tables of a task whose cues have all been translated with all others.
LEMMA TranslatedDoes ==
  /\ Good(Translated, {}) /\ Pristine(Translated, Published)
  /\ Ids(Translated.cues) = Ids(Published)
<1> DEFINE t == Translated
           all == ToSet(Published)
           text(c) == <<[of |-> c.src, ctx |-> {<<d.id, d.src>> : d \in all \ {c}}]>>
           cues == [i \in DOMAIN Fresh.cues |-> [Fresh.cues[i] EXCEPT !.tr = text(Published[i])]]
           prov == [i \in DOMAIN Fresh.prov |-> [Fresh.prov[i] EXCEPT !.trRev = 1]]
           edges == {[target |-> pair[1].id, context |-> pair[2].id, rev |-> 0] :
                        pair \in {p \in all \X all : p[1] # p[2]}}
           ids == Ids(Published)
<1>1. Transcript(Published) /\ Rows(Published)
  BY TranscriptAssumption, TranscriptRows DEF Transcript
<1>2. DOMAIN Published = 1..Len(Published) /\ Len(Published) \in Nat
      /\ Published = [i \in 1..Len(Published) |-> Published[i]]
  BY <1>1, ListSeq DEF Rows, List
<1>3. /\ Fresh \in [rev : Nat, cues : {Published}, prov : [ids -> Lineages],
                    edges : SUBSET [target : ids, context : ids, rev : Nat]]
      /\ Fresh.cues = Published /\ DOMAIN Fresh.prov = ids
      /\ \A id \in ids : Fresh.prov[id] = Unmarked
  BY FreshDoes DEF Good, Sound
<1>4. Fresh.rev + Len(Published) \in Nat
  BY <1>2, <1>3
<1>5. t = [Fresh EXCEPT !.rev = Fresh.rev + Len(Published), !.cues = cues, !.prov = prov, !.edges = edges]
  BY Zenon DEF Translated
<1> HIDE DEF t, all
<1>6. \A i \in DOMAIN Published : cues[i] = [Published[i] EXCEPT !.tr = text(Published[i])]
  BY <1>3, Zenon
<1>7. DOMAIN cues = DOMAIN Published /\ cues = [i \in DOMAIN cues |-> cues[i]]
  BY <1>3, Zenon
<1>8. DOMAIN prov = ids /\ prov = [i \in DOMAIN prov |-> prov[i]]
      /\ \A id \in ids : prov[id] = [Unmarked EXCEPT !.trRev = 1]
  BY <1>3, Zenon
<1> HIDE DEF cues, prov, text
<1>9. ASSUME NEW i \in DOMAIN Published
      PROVE  LET p == Published[i] IN
             /\ Row(cues[i]) /\ cues[i].id = p.id /\ cues[i].src = p.src /\ cues[i].start = p.start
             /\ cues[i].end = p.end /\ cues[i].tr = text(p) /\ ~cues[i].stale
  <2> DEFINE p == Published[i]
  <2>1. Row(p) /\ p \in CueSet(p.id, p.src, p.tr) /\ p.start < p.end /\ ~p.stale
    BY <1>1, RowCue DEF Transcript, Rows
  <2>2. cues[i] = [p EXCEPT !.tr = text(p)]
    BY <1>6, Zenon
  <2> HIDE DEF p
  <2>3. /\ cues[i] \in CueSet(p.id, p.src, text(p)) /\ cues[i].start = p.start
        /\ cues[i].end = p.end /\ cues[i].stale = p.stale
    BY <2>1, <2>2, Zenon DEF CueSet
  <2>4. /\ Row(cues[i]) /\ cues[i].id = p.id /\ cues[i].src = p.src /\ cues[i].tr = text(p)
    <3> HIDE <2>2
    <3> QED BY <2>1, <2>3, CueRow
  <2> QED BY <2>1, <2>3, <2>4, Zenon DEF p
<1>10. \A id \in ids : prov[id] \in Lineages /\ prov[id].srcRev = 0 /\ prov[id].depStale = FALSE
  <2>1. 1 \in Nat
    OBVIOUS
  <2>2. LET m == [Unmarked EXCEPT !.trRev = 1] IN
        m \in Lineages /\ m.srcRev = Unmarked.srcRev /\ m.depStale = Unmarked.depStale
    BY <2>1, FreshLines, Zenon DEF Lineages
  <2>3. LET m == [Unmarked EXCEPT !.trRev = 1] IN
        m \in Lineages /\ m.srcRev = 0 /\ m.depStale = FALSE
    BY <2>2, FreshLines, Zenon
  <2> QED BY <1>8, <2>3, Zenon
<1>11. \A c \in all : c.id \in ids /\ Row(c)
  BY <1>1 DEF all, Ids, Rows, ToSet
<1>12. edges \subseteq [target : ids, context : ids, rev : Nat]
  BY <1>11
<1>13. prov \in [ids -> Lineages]
  BY <1>8, <1>10
<1>14. /\ t.rev \in Nat /\ t.cues = cues /\ t.prov = prov /\ t.edges = edges
       /\ t = [rev |-> t.rev, cues |-> t.cues, prov |-> t.prov, edges |-> t.edges]
  <2> DEFINE n == Fresh.rev + Len(Published)
  <2> HIDE DEF n, edges
  <2>1. /\ t \in [rev : Nat, cues : {cues}, prov : {prov}, edges : {edges}]
        /\ t.rev = n /\ t.cues = cues /\ t.prov = prov /\ t.edges = edges
    BY <1>3, <1>4, <1>5, Zenon DEF n
  <2> HIDE <1>5
  <2> QED BY <2>1
<1> HIDE <1>5, <1>6
<1>15. /\ Rows(t.cues) /\ Ids(t.cues) = ids /\ DOMAIN t.cues = DOMAIN Published
       /\ Len(t.cues) = Len(Published)
  <2> DEFINE base == [cues |-> Published]
  <2>1. base.cues = Published
    OBVIOUS
  <2> HIDE DEF base
  <2>2. List(t.cues) /\ Len(t.cues) = Len(Published)
    BY <1>2, <1>7, <1>14, MapList
  <2>3. \A i \in DOMAIN Published : t.cues[i].id = Published[i].id
    BY <1>9, <1>14
  <2>4. Distinct(t.cues) /\ Ids(t.cues) = ids /\ DOMAIN t.cues = DOMAIN Published
    BY <1>1, <2>1, <2>2, <2>3, SameIds
  <2> QED BY <1>9, <1>14, <2>2, <2>4 DEF Rows
<1>16. Sound(t)
  BY <1>12, <1>13, <1>14, <1>15 DEF Sound
<1>17. ASSUME NEW c \in all
       PROVE  /\ CueOf(t, c.id).id = c.id /\ CueOf(t, c.id).src = c.src
              /\ CueOf(t, c.id).tr = text(c) /\ ~CueOf(t, c.id).stale /\ Has(t, c.id)
  <2>1. PICK i \in DOMAIN Published : c = Published[i]
    BY DEF all, ToSet
  <2>2. t.cues[i].id = c.id
    BY <1>9, <1>14, <2>1
  <2>3. CueOf(t, c.id) = t.cues[i] /\ Has(t, c.id)
    BY <1>15, <2>1, <2>2, Found
  <2> QED BY <1>9, <1>14, <2>1, <2>3
<1>18. \A id \in ids : \E c \in all : c.id = id
  BY DEF Ids, all
<1>19. ASSUME NEW c \in all
       PROVE  OwnSource(CueOf(t, c.id)) /\ Contexts(t, CueOf(t, c.id))
  <2>1. ToSet(text(c)) = {[of |-> c.src, ctx |-> {<<d.id, d.src>> : d \in all \ {c}}]}
    BY OneElement DEF text
  <2>2. OwnSource(CueOf(t, c.id))
    BY <1>17, <2>1 DEF OwnSource
  <2>3. ASSUME NEW d \in all \ {c}
        PROVE  Has(t, d.id) /\ CueOf(t, d.id).src = d.src /\ Linked(t, c.id, d.id)
    <3> DEFINE e == [target |-> c.id, context |-> d.id, rev |-> 0]
    <3>1. <<c, d>> \in {p \in all \X all : p[1] # p[2]} /\ <<c, d>>[1] = c /\ <<c, d>>[2] = d
      OBVIOUS
    <3>2. e \in edges
      BY <3>1
    <3>3. e \in t.edges /\ e.target = c.id /\ e.context = d.id
      BY <1>14, <3>2
    <3> HIDE DEF e
    <3>4. Linked(t, c.id, d.id)
      BY <3>3 DEF Linked
    <3>5. Has(t, d.id) /\ CueOf(t, d.id).src = d.src
      BY <1>17
    <3> QED BY <3>4, <3>5
  <2>4. Contexts(t, CueOf(t, c.id))
    <3> SUFFICES ASSUME NEW piece \in ToSet(text(c)), NEW used \in piece.ctx
                 PROVE  /\ Has(t, used[1]) /\ CueOf(t, used[1]).src = used[2]
                        /\ Linked(t, c.id, used[1])
      BY <1>17 DEF Contexts
    <3>1. PICK d \in all \ {c} : used = <<d.id, d.src>>
      BY <2>1
    <3>2. used[1] = d.id /\ used[2] = d.src
      BY <3>1
    <3> QED BY <2>3, <3>2
  <2> QED BY <2>2, <2>4
<1>20. Current(t, {})
  BY <1>15, <1>18, <1>19 DEF Current
<1>21. Flagged(t)
  <2>1. \A e \in t.edges : e.rev = 0 /\ e.context \in ids
    BY <1>11, <1>14
  <2>2. \A id \in ids : t.prov[id].srcRev = 0
    BY <1>10, <1>14
  <2> QED BY <2>1, <2>2 DEF Flagged, Lag
<1>22. Pristine(t, Published)
  BY <1>9, <1>14, <1>15 DEF Pristine, Original
<1> QED BY <1>15, <1>16, <1>20, <1>21, <1>22 DEF Good, t

\* The cues of the tables do no harm to them.
LEMMA CuesHarmless ==
  ASSUME NEW s, NEW edited, NEW loose, Intact(s, edited, loose)
  PROVE  \A v \in ToSet(s.cues) : Harmless(s, edited, v)
<1>1. Rows(s.cues) /\ DOMAIN s.cues = 1..Len(s.cues)
  BY SoundParts, ListSeq DEF Intact, Good, Rows
<1>2. Rows(Published) /\ DOMAIN Published = 1..Len(Published)
  BY TranscriptAssumption, TranscriptRows, ListSeq DEF Transcript, Rows
<1> SUFFICES ASSUME NEW v \in ToSet(s.cues)
             PROVE  Harmless(s, edited, v)
  OBVIOUS
<1>3. Row(v) /\ Has(s, v.id) /\ CueOf(s, v.id) = v
  BY <1>1, Found
<1>4. OwnSource(v) /\ Lag(s, v)
  BY <1>3 DEF Intact, Good, Current, Flagged, Has
<1>5. ASSUME ~edited
      PROVE  \A i \in DOMAIN Published : Published[i].id = v.id => Original(v, Published[i])
  <2>1. PICK j \in DOMAIN s.cues : v = s.cues[j]
    BY DEF ToSet
  <2>2. Original(v, Published[j]) /\ j \in DOMAIN Published
    BY <1>1, <1>2, <1>5, <2>1 DEF Intact, Pristine
  <2>3. \A i \in DOMAIN Published : Published[i].id = v.id => i = j
    BY <1>2, <2>2 DEF Rows, Distinct, Original
  <2> QED BY <2>2, <2>3
<1> QED BY <1>3, <1>4, <1>5 DEF Harmless

\* The invariant holds of a task that has just been opened.
LEMMA InitInv == Init => Inv
<1> SUFFICES ASSUME Init PROVE Inv
  OBVIOUS
<1>1. Good(store, {}) /\ Pristine(store, Published) /\ Ids(store.cues) = Ids(Published)
  <2>1. CASE store = Fresh
    <3>1. Transcript(Published)
      BY TranscriptAssumption, TranscriptRows
    <3> QED BY <2>1, <3>1, FreshDoes DEF Pristine, Original
  <2>2. CASE store = Translated
    BY <2>2, TranslatedDoes
  <2> QED BY <2>1, <2>2, OpenedAssumption DEF Init
<1>2. StoreInv
  BY <1>1 DEF Init, StoreInv, Intact
<1>3. EditorInv
  <2>1. \A v \in ToSet(view) : Harmless(store, frozen, v)
    BY <1>2, CuesHarmless DEF StoreInv, Init
  <2> QED BY <2>1 DEF Init, EditorInv, Held, List
<1>4. HistoryInv
  BY BoundsAssumption DEF Init, HistoryInv, Joined, List
<1>5. LeftInv
  BY <1>1, IdentityAssumption, BoundsAssumption DEF Init, LeftInv, Unused
<1>6. BatchInv
  BY FS_EmptySet, BoundsAssumption DEF Init, BatchInv, Idle
<1>7. ExportInv
  BY DEF Init, ExportInv, NoExport
<1> QED BY <1>2, <1>3, <1>4, <1>5, <1>6, <1>7 DEF Inv

-----------------------------------------------------------------------------
(* The history of receipts *)

\* What is left of a list when an end of it is added to or taken off.
LEMMA ListEnds ==
  ASSUME NEW s, List(s), NEW x
  PROVE  /\ List(Append(s, x)) /\ Len(Append(s, x)) = Len(s) + 1
         /\ \A i \in DOMAIN s : Append(s, x)[i] = s[i]
         /\ Append(s, x)[Len(s) + 1] = x
         /\ s # <<>> =>
              /\ Len(s) \in 1..Len(s) /\ Last(s) = s[Len(s)]
              /\ List(Tail(s)) /\ Len(Tail(s)) = Len(s) - 1
              /\ \A i \in DOMAIN Tail(s) : i + 1 \in DOMAIN s /\ Tail(s)[i] = s[i + 1]
              /\ List(Front(s)) /\ Len(Front(s)) = Len(s) - 1
              /\ \A i \in DOMAIN Front(s) : i \in DOMAIN s /\ Front(s)[i] = s[i]
<1>1. s \in Seq(ToSet(s)) /\ s \in Seq(ToSet(s) \cup {x}) /\ DOMAIN s = 1..Len(s) /\ Len(s) \in Nat
  <2>1. s \in Seq(ToSet(s)) /\ DOMAIN s = 1..Len(s) /\ Len(s) \in Nat
    BY ListSeq DEF List
  <2> QED BY <2>1
<1>2. /\ Append(s, x) \in Seq(ToSet(s) \cup {x}) /\ Len(Append(s, x)) = Len(s) + 1
      /\ \A i \in DOMAIN s : Append(s, x)[i] = s[i]
      /\ Append(s, x)[Len(s) + 1] = x
  BY <1>1
<1>3. List(Append(s, x))
  BY <1>2, SeqList
<1>4. ASSUME s # <<>>
      PROVE  /\ Len(s) \in 1..Len(s) /\ Last(s) = s[Len(s)]
             /\ List(Tail(s)) /\ Len(Tail(s)) = Len(s) - 1
             /\ \A i \in DOMAIN Tail(s) : i + 1 \in DOMAIN s /\ Tail(s)[i] = s[i + 1]
             /\ List(Front(s)) /\ Len(Front(s)) = Len(s) - 1
             /\ \A i \in DOMAIN Front(s) : i \in DOMAIN s /\ Front(s)[i] = s[i]
  <2>1. Len(s) \in 1..Len(s)
    BY <1>1, <1>4
  <2>2. /\ Tail(s) \in Seq(ToSet(s)) /\ Len(Tail(s)) = Len(s) - 1
        /\ \A i \in 1..(Len(s) - 1) : Tail(s)[i] = s[i + 1]
    BY <1>1, <1>4
  <2>3. /\ Front(s) \in Seq(ToSet(s)) /\ Len(Front(s)) = Len(s) - 1
        /\ \A i \in 1..(Len(s) - 1) : Front(s)[i] = s[i]
    BY <1>1, <2>1 DEF Front
  <2>4. List(Tail(s)) /\ List(Front(s))
    BY <2>2, <2>3, SeqList
  <2>5. DOMAIN Tail(s) = 1..(Len(s) - 1) /\ DOMAIN Front(s) = 1..(Len(s) - 1)
    BY <2>2, <2>3, <2>4, ListSeq
  <2> QED BY <1>1, <2>1, <2>2, <2>3, <2>4, <2>5 DEF Last
<1> QED BY <1>2, <1>3, <1>4

\* A write that is not recorded keeps the history.
LEMMA HistoryStays ==
  ASSUME NEW h, NEW s, NEW t, NEW loose, NEW after, Joined(h, s, loose),
         s.rev \in Nat, t.rev \in Nat, t.rev >= s.rev, loose \subseteq after \/ t.rev > s.rev
  PROVE  Joined(h, t, after)
<1>1. \A b : Good(b, loose) /\ loose \subseteq after => Good(b, after)
  BY DEF Good, Current
<1> QED BY <1>1 DEF Joined

\* So does giving up its oldest receipt.
LEMMA HistoryTail ==
  ASSUME NEW h, NEW s, NEW loose, Joined(h, s, loose), h # <<>>
  PROVE  Joined(Tail(h), s, loose)
<1>1. /\ Len(h) \in 1..Len(h) /\ Last(h) = h[Len(h)] /\ Len(h) \in Nat /\ DOMAIN h = 1..Len(h)
      /\ List(Tail(h)) /\ Len(Tail(h)) = Len(h) - 1
      /\ \A i \in DOMAIN Tail(h) : i + 1 \in DOMAIN h /\ Tail(h)[i] = h[i + 1]
  BY ListEnds, ListSeq DEF Joined, List
<1>2. DOMAIN Tail(h) = 1..(Len(h) - 1)
  BY <1>1, ListSeq
<1>3. Tail(h) # <<>> => Last(Tail(h)) = Last(h)
  <2>1. Tail(h) # <<>> => /\ Len(Tail(h)) \in 1..Len(Tail(h)) /\ Last(Tail(h)) = Tail(h)[Len(Tail(h))]
    BY <1>1, ListEnds
  <2> QED BY <1>1, <1>2, <2>1
<1>4. Len(Tail(h)) <= Limit
  BY <1>1, BoundsAssumption DEF Joined
<1> HIDE DEF Good
<1>5. \A i \in DOMAIN Tail(h) :
        /\ Tail(h)[i] \in [before : {Tail(h)[i].before}, after : {Tail(h)[i].after}]
        /\ i + 1 \in DOMAIN Tail(h) => Tail(h)[i].after = Tail(h)[i + 1].before
  BY <1>1, <1>2 DEF Joined
<1>6. h # <<>> => /\ Last(h).after.rev \in Nat /\ Last(h).after.rev <= s.rev
                  /\ Last(h).after.rev = s.rev => \A i \in DOMAIN h : Good(h[i].before, loose)
  BY DEF Joined
<1>7. Tail(h) # <<>> =>
        /\ Last(Tail(h)).after.rev \in Nat /\ Last(Tail(h)).after.rev <= s.rev
        /\ Last(Tail(h)).after.rev = s.rev => \A i \in DOMAIN Tail(h) : Good(Tail(h)[i].before, loose)
  BY <1>1, <1>3, <1>6
<1> QED BY <1>1, <1>4, <1>5, <1>7 DEF Joined

\* A recorded edit: the history starts again when another write came between.
LEMMA HistoryPush ==
  ASSUME NEW h, NEW s, NEW t, NEW loose, Joined(h, s, loose), Good(s, loose),
         t.rev \in Nat, s.rev \in Nat
  PROVE  LET r == [before |-> s, after |-> t]
             p == Push(h, r) IN
         /\ Joined(p, t, loose) /\ p # <<>> /\ Last(p) = r
         /\ \A i \in DOMAIN p : p[i].before = s \/ \E j \in DOMAIN h : p[i].before = h[j].before
<1> DEFINE r == [before |-> s, after |-> t]
           live == h = <<>> \/ Last(h).after = s
           kept == IF live THEN h ELSE <<>>
           all == Append(kept, r)
           p == Push(h, r)
<1>1. List(h) /\ DOMAIN h = 1..Len(h) /\ Len(h) \in Nat /\ Len(h) <= Limit /\ Limit \in Nat /\ Limit >= 1
  BY ListSeq, BoundsAssumption DEF Joined, List
<1>2. List(kept) /\ DOMAIN kept = 1..Len(kept) /\ Len(kept) \in Nat /\ Len(kept) <= Limit
  BY <1>1 DEF List
<1>3. r.before = s /\ r.after = t /\ r \in [before : {r.before}, after : {r.after}]
  OBVIOUS
<1>4. /\ List(all) /\ Len(all) = Len(kept) + 1 /\ DOMAIN all = 1..(Len(kept) + 1)
      /\ \A i \in DOMAIN kept : all[i] = kept[i]
      /\ all[Len(kept) + 1] = r
  <2> HIDE DEF r, kept
  <2> QED BY <1>2, ListEnds, ListSeq
<1>5. p = IF Len(all) > Limit THEN Tail(all) ELSE all
  BY <1>3, Zenon DEF Push
<1>6. \A i \in DOMAIN kept : i \in DOMAIN h /\ kept[i] = h[i]
  OBVIOUS
<1>7. kept # <<>> => Last(kept).after = s /\ kept = h /\ h # <<>> /\ Last(h) = h[Len(h)]
                     /\ Len(h) \in 1..Len(h)
  BY <1>1, ListEnds
<1> HIDE DEF r, p, all, kept, live, Good
<1>8. \A i \in DOMAIN all :
        /\ all[i] \in [before : {all[i].before}, after : {all[i].after}]
        /\ i + 1 \in DOMAIN all => all[i].after = all[i + 1].before
        /\ all[i].before = s \/ \E j \in DOMAIN h : all[i].before = h[j].before
        /\ Good(all[i].before, loose)
  <2> SUFFICES ASSUME NEW i \in DOMAIN all
               PROVE  /\ all[i] \in [before : {all[i].before}, after : {all[i].after}]
                      /\ i + 1 \in DOMAIN all => all[i].after = all[i + 1].before
                      /\ all[i].before = s \/ \E j \in DOMAIN h : all[i].before = h[j].before
                      /\ Good(all[i].before, loose)
    OBVIOUS
  <2>1. CASE i = Len(kept) + 1
    <3>1. all[i] = r /\ i + 1 \notin DOMAIN all
      BY <1>2, <1>4, <2>1
    <3> QED BY <1>3, <3>1
  <2>2. CASE i \in DOMAIN kept
    <3>1. all[i] = kept[i] /\ kept[i] = h[i] /\ i \in DOMAIN h
      BY <1>4, <1>6, <2>2
    <3>2. kept # <<>>
      BY <1>2, <2>2
    <3>3. kept = h /\ Last(h).after = s
      BY <1>7, <3>2
    <3>4. h[i] \in [before : {h[i].before}, after : {h[i].after}]
      BY <3>1 DEF Joined
    <3>5. i + 1 \in DOMAIN all => all[i].after = all[i + 1].before
      <4>1. CASE i + 1 \in DOMAIN h
        BY <1>4, <1>6, <3>1, <3>3, <4>1 DEF Joined
      <4>2. CASE i = Len(h)
        BY <1>1, <1>3, <1>4, <1>7, <3>1, <3>2, <3>3, <4>2
      <4> QED BY <1>1, <1>4, <3>1, <3>3, <4>1, <4>2
    <3>6. Good(h[i].before, loose)
      <4>1. Last(h).after.rev = s.rev
        BY <3>3
      <4> QED BY <1>7, <3>1, <3>2, <4>1 DEF Joined
    <3> QED BY <3>1, <3>4, <3>5, <3>6
  <2> QED BY <1>2, <1>4, <2>1, <2>2
<1>9. all # <<>> /\ Last(all) = r
  <2>1. all # <<>>
    BY <1>2, <1>4
  <2> QED BY <1>4, <2>1, ListEnds
<1>10. CASE ~ (Len(all) > Limit)
  <2>1. p = all /\ Len(all) <= Limit
    BY <1>1, <1>2, <1>4, <1>5, <1>10
  <2>2. t.rev <= t.rev
    OBVIOUS
  <2>3. Joined(p, t, loose)
    BY <1>3, <1>4, <1>8, <1>9, <2>1, <2>2 DEF Joined
  <2> QED BY <1>8, <1>9, <2>1, <2>3 DEF p, r
<1>11. CASE Len(all) > Limit
  <2>1. p = Tail(all)
    BY <1>5, <1>11
  <2>2. /\ List(Tail(all)) /\ Len(Tail(all)) = Len(kept) /\ Len(kept) >= 1
        /\ DOMAIN Tail(all) = 1..Len(kept)
        /\ \A i \in DOMAIN Tail(all) : i + 1 \in DOMAIN all /\ Tail(all)[i] = all[i + 1]
    <3>1. /\ List(Tail(all)) /\ Len(Tail(all)) = Len(all) - 1
          /\ \A i \in DOMAIN Tail(all) : i + 1 \in DOMAIN all /\ Tail(all)[i] = all[i + 1]
      BY <1>4, <1>9, ListEnds
    <3>2. DOMAIN Tail(all) = 1..(Len(all) - 1)
      BY <3>1, ListSeq
    <3> QED BY <1>1, <1>2, <1>4, <1>11, <3>1, <3>2
  <2>3. Tail(all) # <<>> /\ Last(Tail(all)) = r
    <3>1. Tail(all) # <<>>
      BY <2>2
    <3>2. Last(Tail(all)) = Tail(all)[Len(kept)] /\ Len(kept) \in DOMAIN Tail(all)
      BY <1>2, <2>2, <3>1, ListEnds
    <3> QED BY <1>4, <2>2, <3>1, <3>2
  <2>4. \A i \in DOMAIN Tail(all) :
          /\ Tail(all)[i] \in [before : {Tail(all)[i].before}, after : {Tail(all)[i].after}]
          /\ i + 1 \in DOMAIN Tail(all) => Tail(all)[i].after = Tail(all)[i + 1].before
          /\ Tail(all)[i].before = s \/ \E j \in DOMAIN h : Tail(all)[i].before = h[j].before
          /\ Good(Tail(all)[i].before, loose)
    BY <1>8, <2>2
  <2>5. Joined(Tail(all), t, loose)
    BY <1>2, <1>3, <2>2, <2>3, <2>4 DEF Joined
  <2> QED BY <2>1, <2>3, <2>4, <2>5 DEF p, r
<1> QED BY <1>10, <1>11

\* An undo binds what is left of the history to the restored store.
LEMMA HistoryUndo ==
  ASSUME NEW h, NEW s, NEW t, NEW loose, Joined(h, s, loose), h # <<>>,
         s = Last(h).after, t.rev \in Nat
  PROVE  LET p == Rebased(Front(h), Last(h), t) IN
         /\ Joined(p, t, loose)
         /\ \A i \in DOMAIN p : i \in DOMAIN h /\ p[i].before = h[i].before
         /\ Len(p) = Len(h) - 1 /\ (p # <<>> => Last(p).after = t)
         /\ \A i \in 1..(Len(h) - 2) : p[i] = h[i]
<1> DEFINE older == Front(h)
           n == Len(h)
           m == n - 1
           p == Rebased(Front(h), Last(h), t)
<1>1. /\ n \in Nat /\ n >= 1 /\ DOMAIN h = 1..n /\ Last(h) = h[n] /\ n <= Limit
      /\ List(older) /\ Len(older) = m
      /\ \A i \in DOMAIN older : i \in DOMAIN h /\ older[i] = h[i]
  <2>1. List(h) /\ DOMAIN h = 1..Len(h) /\ Len(h) \in Nat /\ Len(h) <= Limit
    BY ListSeq DEF Joined, List
  <2>2. /\ Len(h) \in 1..Len(h) /\ Last(h) = h[Len(h)] /\ List(Front(h)) /\ Len(Front(h)) = Len(h) - 1
        /\ \A i \in DOMAIN Front(h) : i \in DOMAIN h /\ Front(h)[i] = h[i]
    BY <2>1, ListEnds
  <2> QED BY <2>1, <2>2
<1>2. DOMAIN older = 1..m /\ m \in Nat
  BY <1>1, ListSeq
<1>3. CASE older = <<>>
  <2>1. p = <<>>
    BY <1>3, Zenon DEF Rebased
  <2>2. m = 0 /\ Len(<<>>) = 0 /\ DOMAIN <<>> = {} /\ List(<<>>)
    <3>1. Len(<<>>) = 0 /\ DOMAIN <<>> = {} /\ List(<<>>)
      BY DEF List
    <3>2. m = 0
      BY <1>1, <1>3, <3>1
    <3> QED BY <3>1, <3>2
  <2>3. Joined(<<>>, t, loose)
    <3>1. Len(<<>>) <= Limit
      BY <2>2, BoundsAssumption
    <3> QED BY <2>2, <3>1 DEF Joined
  <2> HIDE DEF p
  <2>4. /\ Joined(p, t, loose)
        /\ \A i \in DOMAIN p : i \in DOMAIN h /\ p[i].before = h[i].before
        /\ Len(p) = Len(h) - 1 /\ (p # <<>> => Last(p).after = t)
        /\ \A i \in 1..(Len(h) - 2) : p[i] = h[i]
    <3>1. \A i \in 1..(Len(h) - 2) : FALSE
      <4>1. Len(h) = 1
        <5>1. Len(h) \in Nat /\ Len(h) - 1 = 0
          BY <1>1, <2>2, Zenon
        <5> QED BY ONLY <5>1
      <4> QED BY ONLY <4>1
    <3> QED BY <2>1, <2>2, <2>3, <3>1
  <2> QED BY <2>4 DEF p
<1>4. CASE older # <<>>
  <2> DEFINE r == [Last(older) EXCEPT !.after = t]
             base == Front(older)
  <2>1. /\ m >= 1 /\ Last(older) = h[m] /\ m \in DOMAIN h /\ m + 1 = n
        /\ List(base) /\ Len(base) = m - 1
        /\ \A i \in DOMAIN base : i \in DOMAIN older /\ base[i] = older[i]
    <3> HIDE DEF older, n
    <3>1. Len(older) \in 1..Len(older) /\ Last(older) = older[m]
          /\ List(base) /\ Len(base) = Len(older) - 1
          /\ \A i \in DOMAIN base : i \in DOMAIN older /\ base[i] = older[i]
      BY <1>1, <1>4, ListEnds
    <3> QED BY <1>1, <1>2, <3>1
  <2>2. DOMAIN base = 1..(m - 1)
    BY <2>1, ListSeq
  <2>3. Last(older).after = Last(h).before
    BY <1>1, <2>1 DEF Joined
  <2>4. Last(older) \in [before : {h[m].before}, after : {h[m].after}]
    BY <2>1 DEF Joined
  <2>5. p = Append(base, r)
    BY <1>4, <2>3, Zenon DEF Rebased
  <2>6. r \in [before : {h[m].before}, after : {t}]
    BY <2>4, Zenon
  <2> HIDE DEF r, base, p
  <2>7. r.before = h[m].before /\ r.after = t /\ r \in [before : {r.before}, after : {r.after}]
    BY <2>6
  <2>8. /\ List(p) /\ Len(p) = m /\ DOMAIN p = 1..m
        /\ \A i \in 1..(m - 1) : p[i] = h[i]
        /\ p[m] = r /\ p # <<>> /\ Last(p) = r
    <3> HIDE DEF m
    <3>1. /\ List(p) /\ Len(p) = Len(base) + 1
          /\ \A i \in DOMAIN base : p[i] = base[i]
          /\ p[Len(base) + 1] = r
      BY <2>1, <2>5, ListEnds
    <3>2. Len(p) = m /\ p[m] = r /\ \A i \in 1..(m - 1) : p[i] = h[i]
      BY <1>1, <1>2, <2>1, <2>2, <3>1
    <3>3. p # <<>>
      BY <2>1, <3>2
    <3>4. Last(p) = p[Len(p)]
      BY <3>1, <3>3, ListEnds
    <3> QED BY <3>1, <3>2, <3>3, <3>4, ListSeq
  <2>9. ASSUME NEW i \in 1..m
        PROVE  /\ p[i] \in [before : {p[i].before}, after : {p[i].after}]
               /\ i + 1 \in 1..m => p[i].after = p[i + 1].before
               /\ p[i].before = h[i].before /\ i \in DOMAIN h
    <3>1. i \in DOMAIN h /\ i + 1 \in DOMAIN h
      BY <1>1, <1>2
    <3>2. h[i] \in [before : {h[i].before}, after : {h[i].after}] /\ h[i].after = h[i + 1].before
      BY <3>1 DEF Joined
    <3>3. CASE i = m
      BY <1>2, <2>7, <2>8, <3>1, <3>3
    <3>4. CASE i < m
      <4>1. p[i] = h[i] /\ i + 1 \in 1..m
        BY <1>2, <2>8, <3>4
      <4>2. p[i + 1].before = h[i + 1].before
        <5>1. CASE i + 1 = m
          BY <2>7, <2>8, <5>1
        <5>2. CASE i + 1 < m
          BY <1>2, <2>8, <4>1, <5>2
        <5> QED BY <1>2, <3>4, <5>1, <5>2
      <4> QED BY <3>1, <3>2, <4>1, <4>2
    <3> QED BY <1>2, <3>3, <3>4
  <2>10. \A i \in 1..m : Good(p[i].before, loose)
    <3>1. \A i \in DOMAIN h : Good(h[i].before, loose)
      BY DEF Joined
    <3> QED BY <2>9, <3>1
  <2>11. Joined(p, t, loose)
    <3>1. m <= Limit /\ t.rev <= t.rev
      BY <1>1, <1>2, BoundsAssumption
    <3> HIDE DEF m, Good
    <3> QED BY <2>7, <2>8, <2>9, <2>10, <3>1 DEF Joined
  <2>12. /\ Joined(p, t, loose)
         /\ \A i \in DOMAIN p : i \in DOMAIN h /\ p[i].before = h[i].before
         /\ Len(p) = Len(h) - 1 /\ (p # <<>> => Last(p).after = t)
         /\ \A i \in 1..(Len(h) - 2) : p[i] = h[i]
    <3> HIDE DEF Joined
    <3> QED BY <1>2, <2>7, <2>8, <2>9, <2>11
  <2> QED BY <2>12 DEF p
<1> QED BY <1>3, <1>4

-----------------------------------------------------------------------------
(* What every write does to the tables *)

\* What RevisionsAdvance says of two stores.
Grown(s, t) ==
    /\ t.rev >= s.rev
    /\ t.cues # s.cues /\ t.rev = s.rev =>
         [i \in DOMAIN t.cues |-> <<t.cues[i].src, t.cues[i].tr>>]
         = [i \in DOMAIN s.cues |-> <<s.cues[i].src, s.cues[i].tr>>]
    /\ \A id \in Ids(s.cues) \cap Ids(t.cues) :
         LET old == CueOf(s, id)
             new == CueOf(t, id)
             p == s.prov[id]
             q == t.prov[id] IN
         /\ q.srcRev >= p.srcRev /\ q.trRev >= p.trRev
         /\ old.src # new.src \/ Retimed(old, new) => q.srcRev > p.srcRev
         /\ old.tr # new.tr => q.trRev > p.trRev

\* What a write other than a structure edit does.
Eases(s, t, loose, after) ==
    /\ Good(t, after) /\ Ids(t.cues) = Ids(s.cues) /\ Grown(s, t)
    /\ loose \subseteq after \/ t.rev > s.rev
    /\ \A v : v.id \in Ids(s.cues) /\ Lag(s, v) => Lag(t, v)

\* Tables that stay grow in the weak sense.
LEMMA SameGrown ==
  ASSUME NEW s, Sound(s)
  PROVE  Grown(s, s)
<1>1. s.rev \in Nat /\ \A id \in Ids(s.cues) : s.prov[id].srcRev \in Nat /\ s.prov[id].trRev \in Nat
  BY SoundParts, Parts
<1> QED BY <1>1 DEF Grown, Retimed

\* A recorded structure edit, or its undo.
LEMMA AdvancesGrown ==
  ASSUME NEW s, NEW t, Sound(s), Sound(t), Advances(s, t)
  PROVE  Grown(s, t)
<1>1. s.rev \in Nat /\ t.rev \in Nat
  BY SoundParts
<1> QED BY <1>1 DEF Grown, Advances, Traced

\* A cue rewritten in place.
LEMMA UpdateGrown ==
  ASSUME NEW s, NEW t, NEW new, Sound(s), Sound(t), Row(new),
         Has(s, new.id), UpdatesTo(s, CueOf(s, new.id), new, t)
  PROVE  Grown(s, t) /\ (CueOf(s, new.id).tr # new.tr => t.rev > s.rev)
<1> DEFINE old == CueOf(s, new.id)
<1>1. /\ s.rev \in Nat /\ Rows(s.cues)
      /\ \A id \in Ids(s.cues) : s.prov[id].srcRev \in Nat /\ s.prov[id].trRev \in Nat
  BY SoundParts, Parts
<1>2. /\ t.rev >= s.rev /\ (old.tr # new.tr => t.rev > s.rev)
      /\ t.rev = s.rev => ~Traced(old, new) /\ old.tr = new.tr
  BY <1>1 DEF UpdatesTo
<1>3. ASSUME NEW id \in Ids(s.cues) \cap Ids(t.cues)
      PROVE  /\ t.prov[id].srcRev >= s.prov[id].srcRev /\ t.prov[id].trRev >= s.prov[id].trRev
             /\ CueOf(s, id).src # CueOf(t, id).src \/ Retimed(CueOf(s, id), CueOf(t, id))
                  => t.prov[id].srcRev > s.prov[id].srcRev
             /\ CueOf(s, id).tr # CueOf(t, id).tr => t.prov[id].trRev > s.prov[id].trRev
  <2>1. CASE id = new.id
    BY <1>1, <2>1 DEF UpdatesTo, Traced
  <2>2. CASE id # new.id
    <3>1. CueOf(t, id) = CueOf(s, id) /\ t.prov[id].srcRev = s.prov[id].srcRev
          /\ t.prov[id].trRev = s.prov[id].trRev
      BY <2>2 DEF UpdatesTo
    <3> QED BY <1>1, <3>1 DEF Retimed
  <2> QED BY <2>1, <2>2
<1>4. ASSUME t.rev = s.rev
      PROVE  [i \in DOMAIN t.cues |-> <<t.cues[i].src, t.cues[i].tr>>]
             = [i \in DOMAIN s.cues |-> <<s.cues[i].src, s.cues[i].tr>>]
  <2>1. ~Traced(old, new) /\ old.tr = new.tr
    BY <1>2, <1>4
  <2>2. DOMAIN t.cues = DOMAIN s.cues /\ Rows(t.cues)
    BY SoundParts DEF UpdatesTo
  <2>3. ASSUME NEW i \in DOMAIN s.cues
        PROVE  t.cues[i].src = s.cues[i].src /\ t.cues[i].tr = s.cues[i].tr
    <3>1. t.cues[i].id = s.cues[i].id
      BY DEF UpdatesTo
    <3>2. CueOf(t, t.cues[i].id) = t.cues[i] /\ CueOf(s, s.cues[i].id) = s.cues[i]
          /\ s.cues[i].id \in Ids(s.cues)
      BY <1>1, <2>2, Found DEF Has
    <3>3. CueOf(t, s.cues[i].id) = IF s.cues[i].id = new.id THEN new ELSE CueOf(s, s.cues[i].id)
      BY <3>2 DEF UpdatesTo
    <3> QED BY <2>1, <3>1, <3>2, <3>3 DEF Traced
  <2> QED BY <2>2, <2>3
<1> QED BY <1>2, <1>3, <1>4 DEF Grown

\* The answer to a group.
LEMMA ApplyGrown ==
  ASSUME NEW s, NEW t, NEW updates, NEW dependencies, Sound(s),
         CanApply(s, updates), AppliesTo(s, updates, dependencies, t)
  PROVE  Grown(s, t)
<1>1. /\ s.rev \in Nat /\ t.rev \in Nat /\ Rows(s.cues) /\ Rows(t.cues)
      /\ \A id \in Ids(s.cues) : s.prov[id].srcRev \in Nat /\ s.prov[id].trRev \in Nat
  BY SoundParts, Parts DEF AppliesTo
<1>2. ASSUME NEW id \in Ids(s.cues)
      PROVE  /\ CueOf(t, id).src = CueOf(s, id).src /\ CueOf(t, id).start = CueOf(s, id).start
             /\ CueOf(t, id).end = CueOf(s, id).end
             /\ CueOf(s, id).tr # CueOf(t, id).tr => id \in Differing(s, updates)
  <2>1. /\ CueOf(t, id).src = CueOf(s, id).src /\ CueOf(t, id).start = CueOf(s, id).start
        /\ CueOf(t, id).end = CueOf(s, id).end
    BY DEF AppliesTo
  <2>2. CASE \A u \in updates : u.id # id
    BY <2>1, <2>2 DEF AppliesTo
  <2>3. CASE ~ (\A u \in updates : u.id # id)
    <3>1. PICK u \in updates : u.id = id
      BY <2>3
    <3>2. CueOf(t, id).tr = u.text
      BY <3>1 DEF AppliesTo
    <3> QED BY <2>1, <3>1, <3>2 DEF Differing
  <2> QED BY <2>2, <2>3
<1>3. ASSUME NEW id \in Ids(s.cues) \cap Ids(t.cues)
      PROVE  /\ t.prov[id].srcRev >= s.prov[id].srcRev /\ t.prov[id].trRev >= s.prov[id].trRev
             /\ CueOf(s, id).src # CueOf(t, id).src \/ Retimed(CueOf(s, id), CueOf(t, id))
                  => t.prov[id].srcRev > s.prov[id].srcRev
             /\ CueOf(s, id).tr # CueOf(t, id).tr => t.prov[id].trRev > s.prov[id].trRev
  <2>1. /\ t.prov[id].srcRev = s.prov[id].srcRev
        /\ t.prov[id].trRev = (IF id \in Differing(s, updates) THEN s.prov[id].trRev + 1
                               ELSE s.prov[id].trRev)
    BY DEF AppliesTo
  <2> HIDE DEF Differing
  <2> QED BY <1>1, <1>2, <2>1 DEF Retimed
<1>4. ASSUME t.rev = s.rev
      PROVE  [i \in DOMAIN t.cues |-> <<t.cues[i].src, t.cues[i].tr>>]
             = [i \in DOMAIN s.cues |-> <<s.cues[i].src, s.cues[i].tr>>]
  <2>1. Differing(s, updates) = {} /\ DOMAIN t.cues = DOMAIN s.cues
    BY <1>1, <1>4 DEF AppliesTo
  <2>2. ASSUME NEW i \in DOMAIN s.cues
        PROVE  t.cues[i].src = s.cues[i].src /\ t.cues[i].tr = s.cues[i].tr
    <3>1. t.cues[i].id = s.cues[i].id
      BY DEF AppliesTo
    <3>2. CueOf(t, t.cues[i].id) = t.cues[i] /\ CueOf(s, s.cues[i].id) = s.cues[i]
          /\ s.cues[i].id \in Ids(s.cues)
      BY <1>1, <2>1, Found DEF Has
    <3> QED BY <1>2, <2>1, <3>1, <3>2
  <2> QED BY <2>1, <2>2
<1>5. t.rev >= s.rev
  BY DEF AppliesTo
<1> QED BY <1>3, <1>4, <1>5 DEF Grown

-----------------------------------------------------------------------------
(* What the variables around the tables do when they are written *)

\* A finite set of numbers has a greatest element.
LEMMA Greatest ==
  ASSUME NEW S, S \subseteq Int, IsFiniteSet(S), S # {}
  PROVE  Max(S) \in S
<1> DEFINE down == [i \in S |-> [start |-> 0 - i, end |-> 0]]
<1>1. \A i \in S : down[i].start = 0 - i /\ down[i].end = 0
  OBVIOUS
<1> HIDE DEF down
<1>2. \A i \in S : down[i].start \in Int /\ down[i].end \in Int
  <2> SUFFICES ASSUME NEW i \in S
               PROVE  down[i].start \in Int /\ down[i].end \in Int
    OBVIOUS
  <2>1. i \in Int
    OBVIOUS
  <2>2. down[i].start = 0 - i /\ down[i].end = 0
    BY <1>1
  <2> QED BY <2>1, <2>2
<1>3. Cardinality(S) \in Nat /\ 1 \in 1..Cardinality(S)
  BY FS_CardinalityType, FS_EmptySet
<1>4. PICK i \in S : Rank(down, S, i) = 1
  BY <1>2, <1>3, Ranks
<1> DEFINE above == {j \in S : Precedes(down, j, i)}
<1>5. above = {}
  <2>1. IsFiniteSet(above)
    BY FS_Subset
  <2>2. Cardinality(above) \in Nat
    BY <2>1, FS_CardinalityType
  <2>3. Cardinality(above) + 1 = 1
    BY <1>4, Zenon DEF Rank
  <2> HIDE DEF above
  <2> QED BY <2>1, <2>2, <2>3, FS_EmptySet
<1>6. \A j \in S : i # j => Precedes(down, i, j)
  BY <1>2, <1>5, Strict
<1>7. \A j \in S : i >= j
  BY <1>1, <1>6 DEF Precedes, ByTime
<1>8. \E x \in S : \A y \in S : x >= y
  BY <1>7
<1> QED BY <1>8 DEF Max

\* A write keeps what is known of an export and of the run.
LEMMA WritesExport ==
  ASSUME Inv, NEW s, Writes(s)
  PROVE  store' = s /\ ExportInv' /\ export'.pc = export.pc
<1>1. /\ export \in [pc : {"none", "listed", "exported", "refused"}, cues : {export.cues},
                     crossed : BOOLEAN, fresh : {export.fresh}]
      /\ export.pc = "listed" /\ ~export.crossed => export.cues = store.cues
      /\ export.pc = "exported" /\ ~export.crossed => export.fresh
  BY DEF Inv, ExportInv
<1> DEFINE x == export.crossed \/ (export.pc = "listed" /\ s # store)
<1>2. export' = [export EXCEPT !.crossed = x] /\ store' = s /\ x \in BOOLEAN
  BY DEF Writes
<1> HIDE DEF x
<1>3. /\ export' \in [pc : {"none", "listed", "exported", "refused"}, cues : {export.cues},
                      crossed : {x}, fresh : {export.fresh}]
      /\ export'.pc = export.pc
  BY <1>1, <1>2, Zenon
<1> HIDE <1>2
<1>4. store' = s /\ x \in BOOLEAN
  BY <1>2
<1>5. /\ export'.pc = export.pc /\ export'.cues = export.cues /\ export'.crossed = x
      /\ export'.fresh = export.fresh
  BY <1>3
<1>6. export' \in [pc : {"none", "listed", "exported", "refused"}, cues : {export'.cues},
                   crossed : BOOLEAN, fresh : {export'.fresh}]
  BY <1>3, <1>4, <1>5
<1> QED BY <1>1, <1>4, <1>5, <1>6 DEF ExportInv, x

\* A write of the user reaches the run and the export only through their ghosts.
LEMMA UserBatch ==
  ASSUME Inv, NEW s, UserWrites(s)
  PROVE  store' = s /\ ExportInv' /\ export'.pc = export.pc /\ BatchInv'
<1>1. store' = s /\ ExportInv' /\ export'.pc = export.pc
  BY WritesExport DEF UserWrites
<1>2. BatchInv
  BY DEF Inv
<1>3. CASE batch.pc # "running"
  <2>1. batch' = batch
    BY <1>3 DEF UserWrites
  <2> QED BY <1>1, <1>2, <2>1 DEF BatchInv
<1>4. CASE batch.pc = "running"
  <2> DEFINE x == [id \in DOMAIN batch.touched \cap Ids(s.cues) |->
                   batch.touched[id] \/ Rewritten(CueOf(store, id), CueOf(s, id))]
  <2>1. batch' = [batch EXCEPT !.touched = x]
    BY <1>4 DEF UserWrites
  <2> HIDE DEF x
  <2>2. /\ batch' \in [pc : {"idle", "listed", "planned", "running"}, pending : {batch.pending},
                  cues : {batch.cues}, targets : {batch.targets}, revs : {batch.revs},
                  waiting : {batch.waiting}, asked : {batch.asked}, failed : {batch.failed},
                  touched : {x}]
    BY <1>2, <2>1, Zenon DEF BatchInv
  <2> HIDE <2>1
  <2>3. batch'.asked = batch.asked /\ batch' \in [pc : {"idle", "listed", "planned", "running"}, pending : {batch'.pending},
                  cues : {batch'.cues}, targets : {batch'.targets}, revs : {batch'.revs},
                  waiting : {batch'.waiting}, asked : {batch'.asked}, failed : {batch'.failed},
                  touched : {batch'.touched}]
    BY <2>2
  <2> QED BY <1>1, <1>2, <2>3 DEF BatchInv
<1> QED BY <1>3, <1>4

\* A write that is no structure edit keeps the editor, the history and the identities.
LEMMA EasesKeeps ==
  ASSUME Inv, Eases(store, store', unlinked, unlinked'), ~frozen => Pristine(store', Published),
         frozen' = frozen, settled' \in BOOLEAN, history' = history, left'.ids = left.ids,
         left' \in [edits : Int, batches : Int, others : Int, ids : SUBSET NewIds]
  PROVE  /\ StoreInv' /\ HistoryInv' /\ LeftInv'
         /\ \A v : Harmless(store, frozen, v) => Harmless(store', frozen', v)
<1>1. Good(store, unlinked) /\ Good(store', unlinked') /\ frozen \in BOOLEAN
  BY DEF Inv, StoreInv, Intact, Eases
<1>2. store.rev \in Nat /\ store'.rev \in Nat
  BY <1>1, SoundParts DEF Good
<1>3. StoreInv'
  BY <1>1 DEF StoreInv, Intact
<1>4. HistoryInv'
  <2>1. Joined(history, store', unlinked')
    BY <1>2, HistoryStays DEF Inv, HistoryInv, Eases, Grown
  <2> QED BY <2>1 DEF HistoryInv
<1>5. LeftInv'
  BY DEF Inv, LeftInv, Unused, Eases
<1>6. \A v : Harmless(store, frozen, v) => Harmless(store', frozen', v)
  <2> HIDE DEF Row, OwnSource, Lag, Original
  <2> QED BY DEF Harmless, Eases, Has
<1> QED BY <1>3, <1>4, <1>5, <1>6

\* A write that changes nothing.
LEMMA SameEases ==
  ASSUME NEW s, NEW loose, Good(s, loose)
  PROVE  Eases(s, s, loose, loose)
BY SameGrown DEF Eases, Good

-----------------------------------------------------------------------------
(* Refreshes, recoveries of evidence and texts *)

\* What RefreshKeepsWork says of a step.
WorkKept ==
    left'.others # left.others /\ export'.pc = export.pc =>
         /\ frozen => store'.cues = store.cues
         /\ \A c \in ToSet(store.cues) :
              /\ Has(store', c.id)
              /\ LET new == CueOf(store', c.id) IN
                 /\ c.srcEdited => new.src = c.src
                 /\ c.timeEdited => ~Retimed(c, new)
                 /\ c.tr # None \/ c.trEdited => new.tr = c.tr /\ new.trEdited = c.trEdited
                 /\ c.stale => new.stale
                 /\ LET p == store.prov[c.id]
                        q == store'.prov[c.id] IN
                    <<q.srcRev, q.trRev, q.depStale>> = <<p.srcRev, p.trRev, p.depStale>>

\* What every step does.
StepKeeps == Inv' /\ Grown(store, store') /\ WorkKept

\* One of the bounds goes down.
LEMMA LeftMoves ==
  ASSUME LeftInv,
         \/ left' = [left EXCEPT !.edits = @ - 1]
         \/ left' = [left EXCEPT !.batches = @ - 1]
         \/ left' = [left EXCEPT !.others = @ - 1]
  PROVE  /\ left'.ids = left.ids
         /\ left' \in [edits : Int, batches : Int, others : Int, ids : SUBSET NewIds]
<1> DEFINE T == [edits : Int, batches : Int, others : Int, ids : SUBSET NewIds]
           e == left.edits - 1
           b == left.batches - 1
           o == left.others - 1
<1>1. left \in T
  BY DEF LeftInv
<1>2. e \in Int /\ b \in Int /\ o \in Int
  BY <1>1
<1>3. \/ left' = [left EXCEPT !.edits = e] \/ left' = [left EXCEPT !.batches = b]
      \/ left' = [left EXCEPT !.others = o]
  BY Zenon
<1> HIDE DEF e, b, o
<1>4. left' \in T /\ left'.ids = left.ids
  BY <1>1, <1>2, <1>3, Zenon
<1> QED BY <1>4, Zenon DEF T

\* An edit and a translation are not counted as a refresh.
LEMMA OthersStay ==
  ASSUME LeftInv,
         left' = [left EXCEPT !.edits = @ - 1] \/ left' = [left EXCEPT !.batches = @ - 1]
  PROVE  left'.others = left.others
<1> DEFINE e == left.edits - 1
           b == left.batches - 1
<1>1. left' = [left EXCEPT !.edits = e] \/ left' = [left EXCEPT !.batches = b]
  BY Zenon
<1>2. left \in [edits : Int, batches : Int, others : Int, ids : SUBSET NewIds]
  BY DEF LeftInv
<1> QED BY <1>1, <1>2, Zenon

\* A cue that is written over by one that changes nothing the user did stays original.
LEMMA UpdatePristine ==
  ASSUME NEW s, NEW t, NEW new, NEW old, Rows(s.cues), Rows(t.cues), UpdatesTo(s, old, new, t),
         Pristine(s, Published), DOMAIN Published = 1..Len(Published),
         \A i \in DOMAIN Published : Published[i].id = new.id => Original(new, Published[i])
  PROVE  Pristine(t, Published)
<1>1. /\ DOMAIN t.cues = DOMAIN s.cues /\ DOMAIN s.cues = 1..Len(s.cues)
      /\ DOMAIN t.cues = 1..Len(t.cues) /\ Len(s.cues) \in Nat /\ Len(t.cues) \in Nat
      /\ Len(s.cues) = Len(Published)
  BY ListSeq DEF UpdatesTo, Rows, List, Pristine
<1>2. Len(t.cues) = Len(Published)
  BY <1>1
<1>3. ASSUME NEW i \in DOMAIN t.cues
      PROVE  Original(t.cues[i], Published[i])
  <2>1. /\ t.cues[i].id = s.cues[i].id /\ Original(s.cues[i], Published[i]) /\ i \in DOMAIN Published
    BY <1>1 DEF UpdatesTo, Pristine
  <2>2. CueOf(t, t.cues[i].id) = t.cues[i] /\ CueOf(s, s.cues[i].id) = s.cues[i]
        /\ s.cues[i].id \in Ids(s.cues)
    BY <1>1, Found DEF Has
  <2>3. t.cues[i] = IF s.cues[i].id = new.id THEN new ELSE s.cues[i]
    BY <2>1, <2>2 DEF UpdatesTo
  <2>4. s.cues[i].id = Published[i].id
    BY <2>1 DEF Original
  <2> QED BY <2>1, <2>3, <2>4
<1> QED BY <1>2, <1>3 DEF Pristine

\* What is published, as the proofs use it.
LEMMA PublishedRows == Rows(Published) /\ Transcript(Published) /\ DOMAIN Published = 1..Len(Published)
<1>1. Transcript(Published)
  BY TranscriptAssumption, TranscriptRows
<1> QED BY <1>1, ListSeq DEF Transcript, Rows

\* A step of the task service that leaves the cues as they are.
LEMMA RefreshStep ==
  ASSUME Inv, NEW t, Eases(store, t, unlinked, unlinked), t.cues = store.cues,
         \A id \in Ids(store.cues) :
           /\ t.prov[id].srcRev = store.prov[id].srcRev /\ t.prov[id].trRev = store.prov[id].trRev
           /\ t.prov[id].depStale = store.prov[id].depStale,
         Writes(t), settled' \in BOOLEAN, left' = [left EXCEPT !.others = @ - 1],
         UNCHANGED <<frozen, editor, batch, unlinked>>
  PROVE  StepKeeps
<1>1. store' = t /\ ExportInv' /\ export'.pc = export.pc
  BY WritesExport
<1>2. ~frozen => Pristine(store', Published)
  BY <1>1 DEF Inv, StoreInv, Intact, Pristine
<1>3. left'.ids = left.ids /\ left' \in [edits : Int, batches : Int, others : Int, ids : SUBSET NewIds]
  BY LeftMoves, Zenon DEF Inv
<1>4. /\ StoreInv' /\ HistoryInv' /\ LeftInv'
      /\ \A v : Harmless(store, frozen, v) => Harmless(store', frozen', v)
  <2>1. frozen' = frozen /\ history' = history /\ unlinked' = unlinked
    BY DEF editor
  <2>2. Eases(store, store', unlinked, unlinked')
    BY <1>1, <2>1
  <2> QED BY <1>2, <1>3, <2>1, <2>2, EasesKeeps
<1>5. EditorInv'
  BY <1>4 DEF Inv, EditorInv, Held, editor
<1>6. BatchInv'
  BY DEF Inv, BatchInv
<1>7. Grown(store, store')
  BY <1>1 DEF Eases
<1>8. WorkKept
  <2>1. Rows(store.cues)
    BY SoundParts DEF Inv, StoreInv, Intact, Good
  <2>2. \A id : Has(store', id) <=> Has(store, id)
    BY <1>1 DEF Has
  <2>3. \A id : CueOf(store', id) = CueOf(store, id)
    BY <1>1 DEF CueOf
  <2>4. \A c \in ToSet(store.cues) : Has(store, c.id) /\ CueOf(store, c.id) = c /\ c.id \in Ids(store.cues)
    BY <2>1, Found DEF Has
  <2> QED BY <1>1, <2>2, <2>3, <2>4 DEF WorkKept, Retimed
<1> QED BY <1>1, <1>4, <1>5, <1>6, <1>7, <1>8 DEF StepKeeps, Inv

\* A refresh keeps the invariant and the work of the user.
LEMMA SyncKeeps == Inv /\ SyncSnapshot => StepKeeps
<1> SUFFICES ASSUME Inv, SyncSnapshot PROVE StepKeeps
  OBVIOUS
<1>1. Good(store, unlinked) /\ settled' \in BOOLEAN /\ (~frozen => Pristine(store, Published))
      /\ frozen \in BOOLEAN
  BY DEF Inv, StoreInv, Intact, SyncSnapshot
<1>2. CASE frozen
  <2>1. Writes(store) /\ Eases(store, store, unlinked, unlinked)
    BY <1>1, <1>2, SameEases DEF SyncSnapshot
  <2> QED BY <1>1, <2>1, RefreshStep DEF SyncSnapshot
<1>3. CASE ~frozen
  <2> DEFINE t == MergeSnapshot(store, Published)
  <2>1. /\ Good(t, unlinked) /\ t.cues = store.cues /\ t.prov = store.prov /\ t.edges = store.edges
        /\ t.rev >= store.rev /\ \A v : v.id \in Ids(store.cues) /\ Lag(store, v) => Lag(t, v)
    BY <1>1, <1>3, MergeKeeps, PublishedRows
  <2>2. Writes(t)
    BY <1>3 DEF SyncSnapshot
  <2> HIDE DEF t
  <2>3. Grown(store, t)
    <3>1. Grown(store, store)
      BY <1>1, SameGrown DEF Good
    <3>2. \A id : CueOf(t, id) = CueOf(store, id)
      BY <2>1 DEF CueOf
    <3> QED BY <2>1, <3>1, <3>2 DEF Grown
  <2>4. Eases(store, t, unlinked, unlinked)
    BY <2>1, <2>3 DEF Eases
  <2>5. settled' \in BOOLEAN /\ left' = [left EXCEPT !.others = @ - 1]
        /\ UNCHANGED <<frozen, editor, batch, unlinked>>
    BY <1>1 DEF SyncSnapshot
  <2> QED BY <2>1, <2>2, <2>4, <2>5, RefreshStep
<1> QED BY <1>1, <1>2, <1>3

\* So does a recovery of the recognition evidence.
LEMMA RecoverKeeps == Inv /\ RecoverEvidence => StepKeeps
<1> SUFFICES ASSUME Inv, RecoverEvidence PROVE StepKeeps
  OBVIOUS
<1> DEFINE t == AssignProvenance(store, Published)
<1>1. Good(store, unlinked) /\ settled \in BOOLEAN
  BY DEF Inv, StoreInv, Intact
<1>2. /\ Good(t, unlinked) /\ t.cues = store.cues /\ t.edges = store.edges /\ t.rev = store.rev
      /\ \A id \in Ids(store.cues) :
           /\ t.prov[id].srcRev = store.prov[id].srcRev /\ t.prov[id].trRev = store.prov[id].trRev
           /\ t.prov[id].depStale = store.prov[id].depStale
      /\ \A v : v.id \in Ids(store.cues) /\ Lag(store, v) => Lag(t, v)
  BY <1>1, AssignKeeps
<1>3. Writes(t) /\ settled' \in BOOLEAN /\ left' = [left EXCEPT !.others = @ - 1]
      /\ UNCHANGED <<frozen, editor, batch, unlinked>>
  BY <1>1 DEF RecoverEvidence
<1> HIDE DEF t
<1>4. Grown(store, t)
  <2>1. Grown(store, store) /\ Sound(store)
    BY <1>1, SameGrown DEF Good
  <2>2. \A id : CueOf(t, id) = CueOf(store, id)
    BY <1>2 DEF CueOf
  <2> QED BY <1>2, <2>1, <2>2 DEF Grown
<1>5. Eases(store, t, unlinked, unlinked)
  BY <1>2, <1>4 DEF Eases
<1> QED BY <1>2, <1>3, <1>5, RefreshStep

\* The editor reads the tables again.
LEMMA OpenKeeps == Inv /\ OpenDetail => StepKeeps
<1> SUFFICES ASSUME Inv, OpenDetail PROVE StepKeeps
  OBVIOUS
<1>1. EditorInv'
  <2>1. \A v \in ToSet(store.cues) : Harmless(store, frozen, v)
    BY CuesHarmless DEF Inv, StoreInv
  <2> QED BY <2>1 DEF Inv, OpenDetail, EditorInv, Held
<1>2. StoreInv' /\ HistoryInv' /\ LeftInv' /\ BatchInv' /\ ExportInv'
  BY DEF Inv, OpenDetail, StoreInv, HistoryInv, LeftInv, BatchInv, ExportInv
<1>3. Grown(store, store') /\ WorkKept
  BY SameGrown DEF Inv, StoreInv, Intact, Good, OpenDetail, WorkKept
<1> QED BY <1>1, <1>2, <1>3 DEF StepKeeps, Inv

\* What the editor shows after a cue was replaced.
LEMMA ShowsElements ==
  ASSUME NEW cue, NEW v \in ToSet(Shows(cue))
  PROVE  v = cue \/ v \in ToSet(view)
BY DEF Shows, ToSet

\* What a list holds when something was added to it.
LEMMA AppendElements ==
  ASSUME NEW s, List(s), NEW x
  PROVE  /\ List(Append(s, x))
         /\ \A i \in DOMAIN Append(s, x) :
              Append(s, x)[i] = x \/ \E j \in DOMAIN s : Append(s, x)[i] = s[j]
<1> DEFINE a == Append(s, x)
<1>1. /\ List(a) /\ Len(a) = Len(s) + 1 /\ DOMAIN a = 1..Len(a) /\ DOMAIN s = 1..Len(s)
      /\ \A i \in DOMAIN s : a[i] = s[i]
      /\ a[Len(s) + 1] = x /\ Len(s) \in Nat
  BY ListEnds, ListSeq DEF List
<1>2. \A i \in DOMAIN a : i \in DOMAIN s \/ i = Len(s) + 1
  BY <1>1
<1> HIDE DEF a
<1>3. List(a) /\ \A i \in DOMAIN a : a[i] = x \/ \E j \in DOMAIN s : a[i] = s[j]
  BY <1>1, <1>2
<1> QED BY <1>3 DEF a

\* What is left of a list when one of it is taken out.
LEMMA RemoveElements ==
  ASSUME NEW s, List(s), NEW k \in DOMAIN s
  PROVE  /\ List(RemoveAt(s, k))
         /\ \A i \in DOMAIN RemoveAt(s, k) : \E j \in DOMAIN s : RemoveAt(s, k)[i] = s[j]
<1> DEFINE r == RemoveAt(s, k)
<1>1. s \in Seq(ToSet(s)) /\ DOMAIN s = 1..Len(s) /\ Len(s) \in Nat /\ k \in 1..Len(s)
  BY ListSeq DEF List
<1>2. /\ SubSeq(s, 1, k - 1) \in Seq(ToSet(s)) /\ SubSeq(s, k + 1, Len(s)) \in Seq(ToSet(s))
  <2>1. \A i \in 1..Len(s) : s[i] \in ToSet(s)
    BY <1>1 DEF ToSet
  <2>2. \A i \in 1..(k - 1) : s[i] \in ToSet(s)
    BY <1>1, <2>1
  <2>3. \A i \in (k + 1)..Len(s) : s[i] \in ToSet(s)
    BY <1>1, <2>1
  <2> QED BY <1>1, <2>2, <2>3, SubSeqProperties
<1>3. r \in Seq(ToSet(s))
  <2>1. SubSeq(s, 1, k - 1) \o SubSeq(s, k + 1, Len(s)) \in Seq(ToSet(s))
    BY <1>2, ConcatProperties
  <2> QED BY <2>1 DEF RemoveAt
<1> HIDE DEF r
<1>4. List(r) /\ \A i \in DOMAIN r : r[i] \in ToSet(s)
  BY <1>3, SeqList
<1>5. \A x \in ToSet(s) : \E j \in DOMAIN s : x = s[j]
  BY DEF ToSet
<1>6. List(r) /\ \A i \in DOMAIN r : \E j \in DOMAIN s : r[i] = s[j]
  BY <1>4, <1>5
<1> QED BY <1>6 DEF r

\* An update of one cue, by the user: what is written must do no harm.
LEMMA RewriteEases ==
  ASSUME Inv, NEW new, Row(new), Has(store, new.id), OwnSource(new), Lag(store, new),
         NEW after, unlinked \ {new.id} \subseteq after,
         Machine(new) /\ new.id \notin after =>
           new.tr = CueOf(store, new.id).tr /\ Machine(CueOf(store, new.id)) /\ new.id \notin unlinked,
         unlinked \subseteq after \/ new.tr # CueOf(store, new.id).tr,
         ~frozen => \A i \in DOMAIN Published : Published[i].id = new.id => Original(new, Published[i])
  PROVE  LET t == UpdateRow(store, new) IN
         /\ Eases(store, t, unlinked, after) /\ CueOf(t, new.id) = new
         /\ ~frozen => Pristine(t, Published)
<1> DEFINE t == UpdateRow(store, new)
           old == CueOf(store, new.id)
<1>1. Good(store, unlinked) /\ Sound(store) /\ Rows(store.cues)
  BY SoundParts DEF Inv, StoreInv, Intact, Good
<1>2. Sound(t) /\ UpdatesTo(store, old, new, t)
  BY <1>1, UpdateRowDoes
<1> HIDE DEF t, old
<1>3. old = CueOf(store, new.id)
  BY DEF old
<1>4. Good(t, after) /\ \A v : v.id \in Ids(store.cues) /\ Lag(store, v) => Lag(t, v)
  BY <1>1, <1>2, <1>3, UpdateKeeps
<1>5. Grown(store, t) /\ (old.tr # new.tr => t.rev > store.rev)
  BY <1>1, <1>2, <1>3, UpdateGrown
<1>6. Ids(t.cues) = Ids(store.cues) /\ CueOf(t, new.id) = new /\ Rows(t.cues)
  BY <1>2, SoundParts DEF UpdatesTo, Has
<1>7. ~frozen => Pristine(t, Published)
  BY <1>1, <1>2, <1>6, PublishedRows, UpdatePristine DEF Inv, StoreInv, Intact
<1>8. Eases(store, t, unlinked, after)
  BY <1>3, <1>4, <1>5, <1>6 DEF Eases
<1> QED BY <1>6, <1>7, <1>8 DEF t

\* What the user types over a cue does no harm.
LEMMA SaveEases ==
  ASSUME Inv, NEW shown, Row(shown), Has(store, shown.id), NEW src, NEW tr
  PROVE  LET t == UpdateSegment(store, shown.id, src, tr, shown.start, shown.end)
             cue == CueOf(t, shown.id)
             after == IF cue.tr = CueOf(store, cue.id).tr THEN unlinked ELSE unlinked \ {cue.id} IN
         /\ Eases(store, t, unlinked, after) /\ cue.id = shown.id
         /\ ~frozen => Pristine(t, Published)
<1> DEFINE old == CueOf(store, shown.id)
           new == EditedCue(old, src, tr, shown.start, shown.end)
           t == UpdateSegment(store, shown.id, src, tr, shown.start, shown.end)
           cue == CueOf(t, shown.id)
           after == IF cue.tr = CueOf(store, cue.id).tr THEN unlinked ELSE unlinked \ {cue.id}
           mine == IF new.tr = old.tr THEN unlinked ELSE unlinked \ {new.id}
<1>1. Good(store, unlinked) /\ Rows(store.cues)
  BY SoundParts DEF Inv, StoreInv, Intact, Good
<1>2. Row(old) /\ old.id = shown.id /\ shown.id \in Ids(store.cues)
  BY <1>1, Found DEF Has
<1>3. OwnSource(old) /\ Lag(store, old)
  BY <1>1, <1>2 DEF Good, Current, Flagged
<1>4. t = UpdateRow(store, new)
  BY DEF UpdateSegment
<1>5. shown.start \in Int /\ shown.end \in Int /\ shown.start < shown.end
  BY DEF Row
<1> HIDE DEF old, t, cue, after, mine
<1>6. /\ Row(new) /\ new.id = old.id /\ new.src = src /\ new.tr = tr
      /\ new.start = shown.start /\ new.end = shown.end
      /\ new.trEdited <=> (old.trEdited \/ old.tr # tr)
      /\ new.stale <=> old.tr = tr /\ (IF old.src # src THEN old.tr # None ELSE old.stale)
      /\ new.srcEdited <=> (old.srcEdited \/ old.src # src)
      /\ new.timeEdited <=> (old.timeEdited \/ old.start # shown.start \/ old.end # shown.end)
  BY <1>2, <1>5, EditedDoes
<1> HIDE DEF new
<1>7. old = CueOf(store, new.id) /\ new.id = shown.id /\ Has(store, new.id)
  BY <1>2, <1>6 DEF old
<1>8. Machine(new) => Machine(old) /\ new.tr = old.tr
  BY <1>6 DEF Machine
<1>9. OwnSource(new)
  BY <1>3, <1>6, <1>8 DEF OwnSource, Machine
<1>10. Lag(store, new)
  BY <1>2, <1>3, <1>7, <1>8 DEF Lag
<1>11. Machine(new) /\ new.id \notin mine =>
         new.tr = CueOf(store, new.id).tr /\ Machine(CueOf(store, new.id)) /\ new.id \notin unlinked
  BY <1>7, <1>8 DEF mine
<1>12. unlinked \subseteq mine \/ new.tr # CueOf(store, new.id).tr
  BY <1>7 DEF mine
<1>13. ~frozen => \A i \in DOMAIN Published : Published[i].id = new.id => Original(new, Published[i])
  <2>1. ~frozen => \A i \in DOMAIN Published : Published[i].id = old.id => Original(old, Published[i])
    <3>1. Harmless(store, frozen, old)
      BY <1>1, <1>7, Found, CuesHarmless DEF Inv, StoreInv, Has
    <3> QED BY <3>1 DEF Harmless
  <2> QED BY <1>6, <2>1 DEF Original
<1>14. unlinked \ {new.id} \subseteq mine
  BY DEF mine
<1>15. Eases(store, t, unlinked, mine) /\ CueOf(t, new.id) = new /\ (~frozen => Pristine(t, Published))
  BY <1>4, <1>6, <1>7, <1>9, <1>10, <1>11, <1>12, <1>13, <1>14, RewriteEases
<1>16. cue = new /\ cue.id = shown.id
  BY <1>7, <1>15 DEF cue
<1>17. after = mine
  BY <1>7, <1>16 DEF mine, after
<1> QED BY <1>15, <1>16, <1>17 DEF t, cue, after

\* The user saves a text.
LEMMA SaveKeeps ==
  ASSUME Inv, NEW shown \in ToSet(view), NEW src, NEW tr, SaveText(shown, src, tr)
  PROVE  StepKeeps
<1> DEFINE s == UpdateSegment(store, shown.id, src, tr, shown.start, shown.end)
           cue == CueOf(s, shown.id)
           after == IF cue.tr = CueOf(store, cue.id).tr THEN unlinked ELSE unlinked \ {cue.id}
<1>1. Harmless(store, frozen, shown)
  BY DEF Inv, EditorInv, Held
<1>2. Row(shown) /\ Has(store, shown.id)
  BY <1>1 DEF Harmless
<1>3. Eases(store, s, unlinked, after) /\ cue.id = shown.id /\ (~frozen => Pristine(s, Published))
  BY <1>2, SaveEases
<1>4. /\ UserWrites(s) /\ unlinked' = after /\ view' = Shows(cue)
      /\ saved' = IF cue = shown THEN saved ELSE Append(saved, [before |-> shown, after |-> cue])
      /\ left' = [left EXCEPT !.edits = @ - 1] /\ UNCHANGED <<settled, frozen, history>>
  BY Zenon DEF SaveText
<1> HIDE DEF s, after
<1>5. store' = s /\ ExportInv' /\ BatchInv' /\ export'.pc = export.pc
  BY <1>4, UserBatch
<1>6. left'.ids = left.ids /\ left'.others = left.others
      /\ left' \in [edits : Int, batches : Int, others : Int, ids : SUBSET NewIds]
  BY <1>4, LeftMoves, OthersStay DEF Inv
<1>7. /\ StoreInv' /\ HistoryInv' /\ LeftInv'
      /\ \A v : Harmless(store, frozen, v) => Harmless(store', frozen', v)
  <2>1. Eases(store, store', unlinked, unlinked') /\ (~frozen => Pristine(store', Published))
    BY <1>3, <1>4, <1>5
  <2>2. settled' \in BOOLEAN
    BY <1>4 DEF Inv, StoreInv
  <2> QED BY <1>4, <1>6, <2>1, <2>2, EasesKeeps
<1>8. Harmless(store', frozen', cue)
  <2>1. Rows(s.cues) /\ Has(s, shown.id)
    BY <1>2, <1>3, SoundParts DEF Eases, Good, Has
  <2>2. cue \in ToSet(s.cues)
    BY <2>1, Found DEF Has
  <2>3. Intact(store', frozen', unlinked')
    BY <1>7 DEF StoreInv
  <2> QED BY <1>5, <2>2, <2>3, CuesHarmless
<1> HIDE DEF cue
<1>9. EditorInv'
  <2>1. /\ \A v \in ToSet(view) : Harmless(store, frozen, v)
        /\ List(saved)
        /\ \A i \in DOMAIN saved :
             Harmless(store, frozen, saved[i].before) /\ saved[i].before.id = saved[i].after.id
    BY DEF Inv, EditorInv, Held
  <2>2. \A v \in ToSet(view') : Harmless(store', frozen', v)
    BY <1>4, <1>7, <1>8, <2>1, ShowsElements
  <2>3. \A i \in DOMAIN saved :
          Harmless(store', frozen', saved[i].before) /\ saved[i].before.id = saved[i].after.id
    BY <1>7, <2>1
  <2> DEFINE x == [before |-> shown, after |-> cue]
  <2>4. Harmless(store', frozen', x.before) /\ x.before.id = x.after.id
    BY <1>1, <1>3, <1>7
  <2> HIDE DEF x
  <2>5. /\ List(Append(saved, x))
        /\ \A i \in DOMAIN Append(saved, x) :
             Append(saved, x)[i] = x \/ \E j \in DOMAIN saved : Append(saved, x)[i] = saved[j]
    BY <2>1, AppendElements
  <2>6. saved' = saved \/ saved' = Append(saved, x)
    BY <1>4 DEF x
  <2>7. List(saved') /\ \A i \in DOMAIN saved' :
          Harmless(store', frozen', saved'[i].before) /\ saved'[i].before.id = saved'[i].after.id
    <3>1. CASE saved' = saved
      BY <2>1, <2>3, <3>1
    <3>2. CASE saved' = Append(saved, x)
      BY <2>3, <2>4, <2>5, <3>2
    <3> QED BY <2>6, <3>1, <3>2
  <2> QED BY <2>2, <2>7 DEF EditorInv, Held
<1>10. Grown(store, store') /\ WorkKept
  BY <1>3, <1>5, <1>6 DEF Eases, WorkKept
<1> QED BY <1>5, <1>7, <1>9, <1>10 DEF StepKeeps, Inv

\* The newest save of a cue is one of them.
LEMMA LatestSaveIs ==
  ASSUME List(saved), NEW id, LatestSave(id) # 0
  PROVE  LatestSave(id) \in DOMAIN saved /\ saved[LatestSave(id)].after.id = id
<1> DEFINE mine == {i \in DOMAIN saved : saved[i].after.id = id}
<1>1. mine # {} /\ LatestSave(id) = Max(mine)
  BY DEF LatestSave
<1>2. DOMAIN saved = 1..Len(saved) /\ Len(saved) \in Nat
  BY ListSeq DEF List
<1>3. IsFiniteSet(mine) /\ mine \subseteq Int
  <2>1. 1 \in Int /\ Len(saved) \in Int
    BY <1>2
  <2>2. IsFiniteSet(1..Len(saved))
    BY <2>1, FS_Interval
  <2> QED BY <1>2, <2>2, FS_Subset
<1> HIDE DEF mine
<1>4. Max(mine) \in mine
  BY <1>1, <1>3, Greatest
<1> QED BY <1>1, <1>4 DEF mine

\* A text undo writes back a cue that does no harm.
LEMMA UndoTextKeeps ==
  ASSUME Inv, NEW id, UndoText(id)
  PROVE  StepKeeps
<1> DEFINE k == LatestSave(id)
           snapshot == saved[k].before
           s == RestoreSegment(store, snapshot)
           after == IF snapshot.tr = CueOf(store, id).tr /\ snapshot.trEdited = CueOf(store, id).trEdited
                    THEN unlinked ELSE unlinked \cup {id}
<1>1. /\ List(saved)
      /\ \A v \in ToSet(view) : Harmless(store, frozen, v)
      /\ \A i \in DOMAIN saved :
           Harmless(store, frozen, saved[i].before) /\ saved[i].before.id = saved[i].after.id
  BY DEF Inv, EditorInv, Held
<1>2. k \in DOMAIN saved /\ snapshot.id = id /\ Harmless(store, frozen, snapshot) /\ Has(store, id)
  <2>1. LatestSave(id) # 0 /\ Has(store, id)
    BY DEF UndoText
  <2> QED BY <1>1, <2>1, LatestSaveIs
<1>3. /\ UserWrites(s) /\ view' = Shows(snapshot) /\ saved' = RemoveAt(saved, k)
      /\ unlinked' = after /\ UNCHANGED <<settled, frozen, history, left>>
  BY Zenon DEF UndoText
<1>4. s = UpdateRow(store, snapshot)
  BY DEF RestoreSegment
<1> HIDE DEF k, snapshot, s
<1>5. Eases(store, s, unlinked, after) /\ (~frozen => Pristine(s, Published))
  <2>1. /\ Row(snapshot) /\ OwnSource(snapshot) /\ Lag(store, snapshot) /\ Has(store, snapshot.id)
        /\ ~frozen => \A i \in DOMAIN Published :
                        Published[i].id = snapshot.id => Original(snapshot, Published[i])
    BY <1>2 DEF Harmless
  <2>2. unlinked \ {snapshot.id} \subseteq after /\ unlinked \subseteq after
    BY <1>2
  <2>3. Machine(snapshot) /\ snapshot.id \notin after =>
          /\ snapshot.tr = CueOf(store, snapshot.id).tr /\ Machine(CueOf(store, snapshot.id))
          /\ snapshot.id \notin unlinked
    BY <1>2 DEF Machine
  <2> HIDE DEF after
  <2> QED BY <1>4, <2>1, <2>2, <2>3, RewriteEases
<1> HIDE DEF after
<1>6. store' = s /\ ExportInv' /\ BatchInv' /\ export'.pc = export.pc
  BY <1>3, UserBatch
<1>7. left' = left /\ left \in [edits : Int, batches : Int, others : Int, ids : SUBSET NewIds]
  BY <1>3 DEF Inv, LeftInv
<1>8. /\ StoreInv' /\ HistoryInv' /\ LeftInv'
      /\ \A v : Harmless(store, frozen, v) => Harmless(store', frozen', v)
  <2>1. Eases(store, store', unlinked, unlinked') /\ (~frozen => Pristine(store', Published))
    BY <1>3, <1>5, <1>6
  <2>2. settled' \in BOOLEAN
    BY <1>3 DEF Inv, StoreInv
  <2> QED BY <1>3, <1>7, <2>1, <2>2, EasesKeeps
<1>9. EditorInv'
  <2>1. \A v \in ToSet(view') : Harmless(store', frozen', v)
    BY <1>1, <1>2, <1>3, <1>8, ShowsElements
  <2>2. /\ List(saved')
        /\ \A i \in DOMAIN saved' : \E j \in DOMAIN saved : saved'[i] = saved[j]
    BY <1>1, <1>2, <1>3, RemoveElements
  <2>3. \A i \in DOMAIN saved' :
          Harmless(store', frozen', saved'[i].before) /\ saved'[i].before.id = saved'[i].after.id
    BY <1>1, <1>8, <2>2
  <2> QED BY <2>1, <2>2, <2>3 DEF EditorInv, Held
<1>10. Grown(store, store') /\ WorkKept
  BY <1>5, <1>6, <1>7 DEF Eases, WorkKept
<1> QED BY <1>6, <1>8, <1>9, <1>10 DEF StepKeeps, Inv

-----------------------------------------------------------------------------
(* Structure edits and their undo *)

\* Whatever a recorded edit made of the tables, if they are good and the revisions grew.
LEMMA RecordedStep ==
  ASSUME Inv, NEW s, Good(s, unlinked), Advances(store, s), Recorded(s)
  PROVE  StepKeeps
<1> DEFINE r == [before |-> store, after |-> s]
           p == Push(history, r)
           e == left.edits - 1
           ids == left.ids \ Ids(s.cues)
<1>1. /\ left' = [left EXCEPT !.edits = e, !.ids = ids] /\ UserWrites(s) /\ frozen' = TRUE
      /\ history' = p /\ view' = s.cues /\ saved' = <<>> /\ UNCHANGED <<settled, unlinked>>
  BY Zenon DEF Recorded
<1>2. store' = s /\ ExportInv' /\ BatchInv'
  BY <1>1, UserBatch
<1>3. Good(store, unlinked) /\ Sound(store) /\ Sound(s) /\ store.rev \in Nat /\ s.rev \in Nat
  BY SoundParts DEF Inv, StoreInv, Intact, Good
<1>4. StoreInv'
  BY <1>1, <1>2 DEF Inv, StoreInv, Intact
<1>5. EditorInv'
  <2>1. Intact(s, TRUE, unlinked)
    BY DEF Intact
  <2>2. \A v \in ToSet(s.cues) : Harmless(s, TRUE, v)
    BY <2>1, CuesHarmless
  <2>3. List(<<>>) /\ DOMAIN <<>> = {}
    BY DEF List
  <2> HIDE DEF p
  <2> QED BY <1>1, <1>2, <2>2, <2>3 DEF EditorInv, Held
<1>6. /\ Joined(p, s, unlinked)
      /\ \A i \in DOMAIN p :
           p[i].before = store \/ \E j \in DOMAIN history : p[i].before = history[j].before
  BY <1>3, HistoryPush DEF Inv, HistoryInv
<1> HIDE DEF p
<1>7. HistoryInv'
  BY <1>1, <1>2, <1>6 DEF HistoryInv
<1>8. /\ left' \in [edits : Int, batches : Int, others : Int, ids : SUBSET NewIds]
      /\ left'.ids = left.ids \ Ids(s.cues) /\ left'.others = left.others
  <2>1. left \in [edits : Int, batches : Int, others : Int, ids : SUBSET NewIds]
    BY DEF Inv, LeftInv
  <2>2. e \in Int /\ ids \in SUBSET NewIds
    BY <2>1
  <2>3. /\ left' \in [edits : Int, batches : Int, others : Int, ids : SUBSET NewIds]
        /\ left'.ids = ids /\ left'.others = left.others
    <3> HIDE DEF e, ids
    <3> QED BY <1>1, <2>1, <2>2, Zenon
  <2> HIDE <1>1
  <2> QED BY <2>3 DEF ids
<1>9. LeftInv'
  <2>1. Unused(left.ids, history, store)
    BY DEF Inv, LeftInv
  <2>2. left'.ids \cap Ids(s.cues) = {} /\ left'.ids \subseteq left.ids
    BY <1>8
  <2>3. \A i \in DOMAIN p : left'.ids \cap Ids(p[i].before.cues) = {}
    BY <1>6, <2>1, <2>2 DEF Unused
  <2>4. history' = p /\ store' = s
    BY <1>1, <1>2
  <2> QED BY <1>8, <2>2, <2>3, <2>4 DEF LeftInv, Unused
<1>10. Grown(store, store')
  BY <1>2, <1>3, AdvancesGrown
<1>11. WorkKept
  BY <1>8 DEF WorkKept
<1> QED BY <1>2, <1>4, <1>5, <1>7, <1>9, <1>10, <1>11 DEF StepKeeps, Inv

\* The same of an edit that rebuilds the cues.
LEMMA EditStep ==
  ASSUME Inv, NEW cues, Rebuilt(store, cues), Recorded(RecordedEdit(store, cues))
  PROVE  StepKeeps
<1> DEFINE s == RecordedEdit(store, cues)
<1>1. Good(store, unlinked)
  BY DEF Inv, StoreInv, Intact
<1>2. Good(s, unlinked) /\ Advances(store, s) /\ Recorded(s)
  BY <1>1, RecordedEditKeeps
<1> HIDE DEF s
<1> QED BY <1>2, RecordedStep

\* The tables are ones a structure edit may start from.
LEMMA ToldStore == Inv => Told(store)
BY GoodTold DEF Inv, StoreInv, Intact

\* A cue is removed.
LEMMA RemoveKeeps ==
  ASSUME Inv, NEW id, RemoveBlock(id)
  PROVE  StepKeeps
<1>1. Rebuilt(store, Removed(store, id))
  BY ToldStore, RemovedDoes DEF RemoveBlock
<1>2. Recorded(RecordedEdit(store, Removed(store, id)))
  BY DEF RemoveBlock
<1> QED BY <1>1, <1>2, EditStep

\* A block the editor inserts is a row.
LEMMA BlockRow ==
  ASSUME NEW id, NEW start \in Int, NEW end \in Int, start < end, NEW src, NEW tr
  PROVE  LET b == [NewCue(id, start, end, src) EXCEPT !.tr = tr] IN
         Row(b) /\ ~b.stale /\ b.start = start /\ b.end = end /\ b.id = id
<1> DEFINE n == NewCue(id, start, end, src)
           b == [n EXCEPT !.tr = tr]
<1>1. /\ n \in CueSet(id, src, None) /\ n.start = start /\ n.end = end /\ n.stale = FALSE
  BY Zenon DEF NewCue, CueSet
<1> HIDE DEF n
<1>2. /\ b \in CueSet(id, src, tr) /\ b.start = start /\ b.end = end /\ b.stale = FALSE
  BY <1>1, Zenon DEF CueSet
<1> HIDE DEF b
<1>3. Row(b) /\ b.id = id
  BY <1>2, CueRow
<1>4. Row(b) /\ ~b.stale /\ b.start = start /\ b.end = end /\ b.id = id
  BY <1>2, <1>3, Zenon
<1> QED BY <1>4, Zenon DEF b, n

\* A cue is inserted.
LEMMA InsertKeeps ==
  ASSUME Inv, NEW id, NEW start \in Times, NEW end \in Times, NEW src, NEW tr,
         InsertBlock(id, start, end, src, tr)
  PROVE  StepKeeps
<1> DEFINE b == [NewCue(id, start, end, src) EXCEPT !.tr = tr]
<1>1. CanInsert(store, b) /\ Recorded(RecordedEdit(store, Inserted(store, b)))
  BY Zenon DEF InsertBlock
<1>2. start \in Int /\ end \in Int
  BY BoundsAssumption
<1>3. b.start = start /\ b.end = end
  <2>1. /\ NewCue(id, start, end, src) \in
             [id : {id}, start : {start}, end : {end}, src : {src}, tr : {None}, srcEdited : BOOLEAN,
              trEdited : BOOLEAN, stale : BOOLEAN, timeEdited : BOOLEAN]
    BY Zenon DEF NewCue
  <2>2. b \in [id : {id}, start : {start}, end : {end}, src : {src}, tr : {tr}, srcEdited : BOOLEAN,
              trEdited : BOOLEAN, stale : BOOLEAN, timeEdited : BOOLEAN]
    BY <2>1, Zenon
  <2> HIDE DEF b
  <2> QED BY <2>2
<1>4. start < end
  <2> HIDE DEF b
  <2> QED BY <1>1, <1>3 DEF CanInsert
<1>5. Row(b) /\ ~b.stale
  BY <1>2, <1>4, BlockRow, Zenon
<1> HIDE DEF b
<1>6. Rebuilt(store, Inserted(store, b))
  BY <1>1, <1>5, ToldStore, InsertedDoes
<1> QED BY <1>1, <1>6, EditStep

\* The time of a cue is moved.
LEMMA TimingKeeps ==
  ASSUME Inv, NEW i \in DOMAIN view, NEW end \in Times, SaveTiming(i, end)
  PROVE  StepKeeps
<1> DEFINE after == [view EXCEPT ![i].end = end]
<1>1. /\ view = store.cues /\ CanRetime(store, after)
      /\ Recorded(RecordedEdit(store, Timed(store, after)))
  BY Zenon DEF SaveTiming
<1>2. Rows(store.cues) /\ List(store.cues) /\ end \in Int
  BY BoundsAssumption, SoundParts DEF Inv, StoreInv, Intact, Good, Rows
<1>3. DOMAIN view = 1..Len(view) /\ Len(view) \in Nat /\ \A j \in DOMAIN view : Row(view[j])
  BY <1>1, <1>2, ListSeq DEF Rows, List
<1>4. DOMAIN after = DOMAIN view /\ after = [j \in DOMAIN view |-> after[j]]
  BY Zenon
<1>5. ASSUME NEW j \in DOMAIN after
      PROVE  after[j].start \in Int /\ after[j].end \in Int
  <2>1. view[j] \in CueSet(view[j].id, view[j].src, view[j].tr)
    BY <1>3, <1>4, RowCue
  <2>2. CASE j = i
    <3>1. after[j] = [view[j] EXCEPT !.end = end]
      BY <2>2, <1>4, Zenon
    <3>2. after[j] \in CueSet(view[j].id, view[j].src, view[j].tr)
      BY <1>2, <2>1, <3>1, Zenon DEF CueSet
    <3> HIDE <3>1 DEF after
    <3> QED BY <3>2, CueRow
  <2>3. CASE j # i
    <3>1. after[j] = view[j]
      BY <2>3, <1>4, Zenon
    <3> HIDE DEF after
    <3> QED BY <2>1, <3>1, CueRow
  <2> QED BY <2>2, <2>3
<1> HIDE DEF after
<1>6. List(after)
  BY <1>3, <1>4, MapList
<1>7. Rebuilt(store, Timed(store, after))
  BY <1>1, <1>5, <1>6, ToldStore, TimedDoes
<1> QED BY <1>1, <1>7, EditStep

\* A cue is cut in two.
LEMMA CutKeeps ==
  ASSUME Inv, NEW cue, NEW at \in Times, NEW new \in left.ids, Cut(cue, at, new)
  PROVE  StepKeeps
<1> DEFINE cues == SplitUp(store, cue.id, at, new, cue.src, cue.src, cue.tr, cue.tr)
<1>1. CanSplit(store, cue.id, at) /\ Recorded(RecordedEdit(store, cues))
  BY DEF Cut
<1>2. at \in Int /\ ~Has(store, new)
  BY BoundsAssumption DEF Inv, LeftInv, Unused, Has
<1>3. Rebuilt(store, cues)
  BY <1>1, <1>2, ToldStore, SplitDoes
<1> HIDE DEF cues
<1> QED BY <1>1, <1>3, EditStep

\* Two cues are joined.
LEMMA JoinKeeps ==
  ASSUME Inv, NEW l, NEW r, Join(l, r)
  PROVE  StepKeeps
<1> DEFINE tr == IF l.tr # None /\ r.tr # None THEN l.tr \o r.tr ELSE None
           cues == Merged(store, l.id, r.id, l.src \o r.src, tr)
<1>1. CanMerge(store, l.id, r.id) /\ Recorded(RecordedEdit(store, cues))
  BY Zenon DEF Join
<1> HIDE DEF tr
<1>2. Rebuilt(store, cues)
  BY <1>1, ToldStore, MergedDoes
<1> HIDE DEF cues
<1> QED BY <1>1, <1>2, EditStep

\* A recognition candidate replaces the cues of its range.
LEMMA AdoptKeeps ==
  ASSUME Inv, AdoptCandidate
  PROVE  StepKeeps
<1> DEFINE from == Candidate.start
           to == Candidate.end
           expected == Affected([cues |-> view], from, to)
           new == Candidate.cues
           s == RecordedAdoption(store, from, to, new)
<1>1. CanAdopt(store, from, to, expected, new) /\ Recorded(s)
  BY Zenon DEF AdoptCandidate
<1>2. Transcript(new)
  BY TranscriptAssumption, TranscriptRows
<1> HIDE DEF from, to, expected, new
<1>3. Rebuilt(store, Adopted(store, from, to, new))
  BY <1>1, <1>2, ToldStore, AdoptedDoes DEF Transcript
<1>4. Good(s, unlinked) /\ Advances(store, s)
  BY <1>3, RecordedAdoptionKeeps DEF Inv, StoreInv, Intact
<1> HIDE DEF s
<1> QED BY <1>1, <1>4, RecordedStep

\* The undo of the newest edit.
LEMMA UndoKeepsInv == Inv /\ UndoStructure => StepKeeps
<1> SUFFICES ASSUME Inv, UndoStructure PROVE StepKeeps
  OBVIOUS
<1> DEFINE undone == Last(history)
           s == UndoRecorded(store, undone.before)
           p == Rebased(Front(history), undone, s)
<1>1. /\ settled /\ history # <<>> /\ store = undone.after /\ UserWrites(s) /\ history' = p
      /\ view' = s.cues /\ saved' = <<>> /\ frozen' = TRUE /\ UNCHANGED <<settled, left, unlinked>>
  BY Zenon DEF UndoStructure
<1>2. /\ Good(store, unlinked) /\ Sound(store) /\ store.rev \in Nat
      /\ Joined(history, store, unlinked)
  BY SoundParts DEF Inv, StoreInv, Intact, Good, HistoryInv
<1>3. Len(history) \in DOMAIN history /\ undone = history[Len(history)]
  <2>1. List(history)
    BY <1>2 DEF Joined
  <2> QED BY <1>1, <2>1, ListEnds, ListSeq
<1>4. Good(undone.before, unlinked)
  BY <1>1, <1>2, <1>3 DEF Joined
<1>5. Good(s, unlinked) /\ Advances(store, s) /\ s.cues = undone.before.cues
  BY <1>2, <1>4, UndoKeeps
<1> HIDE DEF s
<1>6. Sound(s) /\ s.rev \in Nat
  BY <1>5, SoundParts DEF Good
<1>7. /\ Joined(p, s, unlinked)
      /\ \A i \in DOMAIN p : i \in DOMAIN history /\ p[i].before = history[i].before
  BY <1>1, <1>2, <1>6, HistoryUndo
<1> HIDE DEF p
<1>8. store' = s /\ ExportInv' /\ BatchInv'
  BY <1>1, UserBatch
<1>9. StoreInv'
  BY <1>1, <1>5, <1>8 DEF Inv, StoreInv, Intact
<1>10. EditorInv'
  <2>1. Intact(s, TRUE, unlinked)
    BY <1>5 DEF Intact
  <2>2. \A v \in ToSet(s.cues) : Harmless(s, TRUE, v)
    BY <2>1, CuesHarmless
  <2>3. List(<<>>) /\ DOMAIN <<>> = {}
    BY DEF List
  <2> QED BY <1>1, <1>8, <2>2, <2>3 DEF EditorInv, Held
<1>11. HistoryInv'
  BY <1>1, <1>7, <1>8 DEF HistoryInv
<1>12. LeftInv'
  <2>1. Unused(left.ids, history, store)
    BY DEF Inv, LeftInv
  <2>2. left.ids \cap Ids(s.cues) = {}
    BY <1>3, <1>5, <2>1 DEF Unused
  <2>3. \A i \in DOMAIN p : left.ids \cap Ids(p[i].before.cues) = {}
    BY <1>7, <2>1 DEF Unused
  <2> QED BY <1>1, <1>8, <2>2, <2>3 DEF Inv, LeftInv, Unused
<1>13. Grown(store, store')
  BY <1>2, <1>5, <1>6, <1>8, AdvancesGrown
<1>14. WorkKept
  BY <1>1 DEF WorkKept
<1> QED BY <1>8, <1>9, <1>10, <1>11, <1>12, <1>13, <1>14 DEF StepKeeps, Inv

\* The oldest receipt is given up.
LEMMA EvictKeeps == Inv /\ EvictOldest => StepKeeps
<1> SUFFICES ASSUME Inv, EvictOldest PROVE StepKeeps
  OBVIOUS
<1>1. /\ history # <<>> /\ history' = Tail(history)
      /\ UNCHANGED <<store, settled, frozen, view, saved, batch, export, unlinked, left>>
  BY DEF EvictOldest
<1>2. Joined(history, store, unlinked) /\ List(history)
  BY DEF Inv, HistoryInv, Joined
<1>3. Joined(Tail(history), store, unlinked)
  BY <1>1, <1>2, HistoryTail
<1>4. HistoryInv'
  BY <1>1, <1>3 DEF HistoryInv
<1>5. LeftInv'
  <2>1. \A i \in DOMAIN Tail(history) : i + 1 \in DOMAIN history /\ Tail(history)[i] = history[i + 1]
    BY <1>1, <1>2, ListEnds
  <2> QED BY <1>1, <2>1 DEF Inv, LeftInv, Unused
<1>6. StoreInv' /\ EditorInv' /\ BatchInv' /\ ExportInv'
  BY <1>1 DEF Inv, StoreInv, EditorInv, BatchInv, ExportInv
<1>7. Grown(store, store') /\ WorkKept
  BY <1>1, SameGrown DEF Inv, StoreInv, Intact, Good, WorkKept
<1> QED BY <1>4, <1>5, <1>6, <1>7 DEF StepKeeps, Inv

-----------------------------------------------------------------------------
(* The run of a translation, and the export *)

\* A step of the run that writes nothing to the tables.
LEMMA RunStep ==
  ASSUME Inv, UNCHANGED <<store, settled, frozen, editor, export, unlinked>>, BatchInv',
         left' = left \/ left' = [left EXCEPT !.batches = @ - 1]
  PROVE  StepKeeps
<1>1. /\ left'.ids = left.ids /\ left'.others = left.others
      /\ left' \in [edits : Int, batches : Int, others : Int, ids : SUBSET NewIds]
  <2>1. CASE left' = left
    BY <2>1 DEF Inv, LeftInv
  <2>2. CASE left' = [left EXCEPT !.batches = @ - 1]
    BY <2>2, LeftMoves, OthersStay DEF Inv
  <2> QED BY <2>1, <2>2
<1>2. /\ UNCHANGED <<store, settled, frozen, view, saved, history, export, unlinked>>
  BY DEF editor
<1>3. StoreInv' /\ EditorInv' /\ HistoryInv' /\ ExportInv'
  BY <1>2 DEF Inv, StoreInv, EditorInv, HistoryInv, ExportInv
<1>4. LeftInv'
  BY <1>1, <1>2 DEF Inv, LeftInv, Unused
<1>5. Grown(store, store') /\ WorkKept
  BY <1>1, <1>2, SameGrown DEF Inv, StoreInv, Intact, Good, WorkKept
<1> QED BY <1>3, <1>4, <1>5 DEF StepKeeps, Inv

\* What a run looks like, whatever it holds.
Run(b) ==
    /\ b \in [pc : {"idle", "listed", "planned", "running"}, pending : {b.pending},
              cues : {b.cues}, targets : {b.targets}, revs : {b.revs},
              waiting : {b.waiting}, asked : {b.asked}, failed : {b.failed},
              touched : {b.touched}]
    /\ IsFiniteSet(b.asked) /\ Cardinality(b.asked) <= Concurrency

\* A run put together from its parts looks like one.
LEMMA RunSet ==
  ASSUME NEW b, NEW pc \in {"idle", "listed", "planned", "running"}, NEW pending, NEW cues, NEW targets,
         NEW revs, NEW waiting, NEW asked, NEW failed, NEW touched,
         b \in [pc : {pc}, pending : {pending}, cues : {cues}, targets : {targets}, revs : {revs},
                waiting : {waiting}, asked : {asked}, failed : {failed}, touched : {touched}],
         IsFiniteSet(asked), Cardinality(asked) <= Concurrency
  PROVE  Run(b)
BY DEF Run

\* Nothing is asked by a run that starts or that has ended.
LEMMA NothingAsked == IsFiniteSet({}) /\ Cardinality({}) <= Concurrency
BY FS_EmptySet, BoundsAssumption

\* A run that starts, or that is over.
LEMMA FreshRun ==
  ASSUME NEW pc \in {"idle", "listed", "planned"}, NEW pending, NEW cues, NEW targets
  PROVE  Run([Idle EXCEPT !.pc = pc, !.pending = pending, !.cues = cues, !.targets = targets])
<1> DEFINE b == [Idle EXCEPT !.pc = pc, !.pending = pending, !.cues = cues, !.targets = targets]
<1>1. b \in [pc : {pc}, pending : {pending}, cues : {cues}, targets : {targets}, revs : {<<>>},
             waiting : {{}}, asked : {{}}, failed : {FALSE}, touched : {<<>>}]
  BY Zenon DEF Idle
<1> HIDE DEF b
<1>2. Run(b)
  BY <1>1, NothingAsked DEF Run
<1> QED BY <1>2 DEF b

\* So does the run that is not there.
LEMMA IdleRun == Run(Idle)
<1>1. Idle \in [pc : {"idle"}, pending : {FALSE}, cues : {<<>>}, targets : {{}}, revs : {<<>>},
                waiting : {{}}, asked : {{}}, failed : {FALSE}, touched : {<<>>}]
  BY Zenon DEF Idle
<1>2. \E pc \in {"idle", "listed", "planned", "running"} : pc = "idle"
  OBVIOUS
<1> QED BY <1>1, <1>2, NothingAsked, RunSet

\* A batch reads the cues.
LEMMA ListsKeeps ==
  ASSUME Inv, NEW pending, Lists(pending)
  PROVE  StepKeeps
<1> DEFINE b == [Idle EXCEPT !.pc = "listed", !.pending = pending, !.cues = store.cues,
                             !.targets = Ids(store.cues)]
<1>1. batch' = b /\ left' = [left EXCEPT !.batches = @ - 1]
      /\ UNCHANGED <<store, settled, frozen, editor, export, unlinked>>
  BY DEF Lists
<1>2. Run(b)
  BY FreshRun, Zenon
<1> HIDE DEF b
<1>3. BatchInv'
  BY <1>1, <1>2 DEF Run, BatchInv
<1> QED BY <1>1, <1>3, RunStep

\* The translation of one cue reads it.
LEMMA TranslateOneKeeps ==
  ASSUME Inv, NEW id, TranslateSegment(id)
  PROVE  StepKeeps
<1> DEFINE b == [Idle EXCEPT !.pc = "planned", !.cues = store.cues, !.targets = {id}]
<1>1. batch' = b /\ left' = [left EXCEPT !.batches = @ - 1]
      /\ UNCHANGED <<store, settled, frozen, editor, export, unlinked>>
  BY DEF TranslateSegment
<1>2. Run(b)
  <2>1. b \in [pc : {"planned"}, pending : {FALSE}, cues : {store.cues}, targets : {{id}}, revs : {<<>>},
               waiting : {{}}, asked : {{}}, failed : {FALSE}, touched : {<<>>}]
    BY Zenon DEF Idle
  <2> HIDE DEF b
  <2> QED BY <2>1, NothingAsked DEF Run
<1> HIDE DEF b
<1>3. BatchInv'
  BY <1>1, <1>2 DEF Run, BatchInv
<1> QED BY <1>1, <1>3, RunStep

\* What a run that goes on may change.
LEMMA RunMoves ==
  ASSUME BatchInv, NEW pc \in {"idle", "listed", "planned", "running"}, NEW targets, NEW revs,
         NEW waiting, NEW asked, NEW failed, NEW touched,
         IsFiniteSet(asked), Cardinality(asked) <= Concurrency
  PROVE  /\ Run([batch EXCEPT !.pc = pc, !.targets = targets])
         /\ Run([batch EXCEPT !.pc = pc, !.waiting = waiting, !.revs = revs, !.touched = touched])
         /\ Run([batch EXCEPT !.waiting = waiting, !.asked = asked])
         /\ Run([batch EXCEPT !.asked = asked])
         /\ Run([batch EXCEPT !.asked = asked, !.failed = failed])
<1> DEFINE P == {"idle", "listed", "planned", "running"}
           b == batch
<1>1. /\ b \in [pc : P, pending : {b.pending}, cues : {b.cues}, targets : {b.targets},
                revs : {b.revs}, waiting : {b.waiting}, asked : {b.asked}, failed : {b.failed},
                touched : {b.touched}]
      /\ IsFiniteSet(b.asked) /\ Cardinality(b.asked) <= Concurrency
  BY DEF BatchInv
<1>2. b.pc \in P
  BY <1>1
<1> HIDE DEF b, P
<1>3. /\ [b EXCEPT !.pc = pc, !.targets = targets] \in
           [pc : {pc}, pending : {b.pending}, cues : {b.cues}, targets : {targets}, revs : {b.revs},
            waiting : {b.waiting}, asked : {b.asked}, failed : {b.failed}, touched : {b.touched}]
      /\ [b EXCEPT !.pc = pc, !.waiting = waiting, !.revs = revs, !.touched = touched] \in
           [pc : {pc}, pending : {b.pending}, cues : {b.cues}, targets : {b.targets}, revs : {revs},
            waiting : {waiting}, asked : {b.asked}, failed : {b.failed}, touched : {touched}]
  BY <1>1, Zenon
<1>4. b \in [pc : {b.pc}, pending : {b.pending}, cues : {b.cues}, targets : {b.targets},
             revs : {b.revs}, waiting : {b.waiting}, asked : {b.asked}, failed : {b.failed},
             touched : {b.touched}]
  BY <1>1
<1>5. /\ [b EXCEPT !.waiting = waiting, !.asked = asked] \in
           [pc : {b.pc}, pending : {b.pending}, cues : {b.cues}, targets : {b.targets}, revs : {b.revs},
            waiting : {waiting}, asked : {asked}, failed : {b.failed}, touched : {b.touched}]
      /\ [b EXCEPT !.asked = asked] \in
           [pc : {b.pc}, pending : {b.pending}, cues : {b.cues}, targets : {b.targets}, revs : {b.revs},
            waiting : {b.waiting}, asked : {asked}, failed : {b.failed}, touched : {b.touched}]
      /\ [b EXCEPT !.asked = asked, !.failed = failed] \in
           [pc : {b.pc}, pending : {b.pending}, cues : {b.cues}, targets : {b.targets}, revs : {b.revs},
            waiting : {b.waiting}, asked : {asked}, failed : {failed}, touched : {b.touched}]
  BY <1>4, Zenon
<1>6. Run([b EXCEPT !.pc = pc, !.targets = targets])
  <2> DEFINE x == [b EXCEPT !.pc = pc, !.targets = targets]
  <2>1. x \in [pc : {pc}, pending : {b.pending}, cues : {b.cues}, targets : {targets}, revs : {b.revs},
            waiting : {b.waiting}, asked : {b.asked}, failed : {b.failed}, touched : {b.touched}]
    BY <1>3
  <2> HIDE DEF x
  <2>2. Run(x)
    BY <1>1, <2>1, RunSet
  <2> QED BY <2>2 DEF x
<1>7. Run([b EXCEPT !.pc = pc, !.waiting = waiting, !.revs = revs, !.touched = touched])
  <2> DEFINE x == [b EXCEPT !.pc = pc, !.waiting = waiting, !.revs = revs, !.touched = touched]
  <2>1. x \in [pc : {pc}, pending : {b.pending}, cues : {b.cues}, targets : {b.targets}, revs : {revs},
            waiting : {waiting}, asked : {b.asked}, failed : {b.failed}, touched : {touched}]
    BY <1>3
  <2> HIDE DEF x
  <2>2. Run(x)
    BY <1>1, <2>1, RunSet
  <2> QED BY <2>2 DEF x
<1>8. Run([b EXCEPT !.waiting = waiting, !.asked = asked])
  <2> DEFINE x == [b EXCEPT !.waiting = waiting, !.asked = asked]
  <2>1. x \in [pc : {b.pc}, pending : {b.pending}, cues : {b.cues}, targets : {b.targets}, revs : {b.revs},
            waiting : {waiting}, asked : {asked}, failed : {b.failed}, touched : {b.touched}]
    BY <1>5
  <2> HIDE DEF x
  <2>2. Run(x)
    BY <1>2, <2>1, RunSet DEF P
  <2> QED BY <2>2 DEF x
<1>9. Run([b EXCEPT !.asked = asked])
  <2> DEFINE x == [b EXCEPT !.asked = asked]
  <2>1. x \in [pc : {b.pc}, pending : {b.pending}, cues : {b.cues}, targets : {b.targets}, revs : {b.revs},
            waiting : {b.waiting}, asked : {asked}, failed : {b.failed}, touched : {b.touched}]
    BY <1>5
  <2> HIDE DEF x
  <2>2. Run(x)
    BY <1>2, <2>1, RunSet DEF P
  <2> QED BY <2>2 DEF x
<1>10. Run([b EXCEPT !.asked = asked, !.failed = failed])
  <2> DEFINE x == [b EXCEPT !.asked = asked, !.failed = failed]
  <2>1. x \in [pc : {b.pc}, pending : {b.pending}, cues : {b.cues}, targets : {b.targets}, revs : {b.revs},
            waiting : {b.waiting}, asked : {asked}, failed : {failed}, touched : {b.touched}]
    BY <1>5
  <2> HIDE DEF x
  <2>2. Run(x)
    BY <1>2, <2>1, RunSet DEF P
  <2> QED BY <2>2 DEF x
<1> QED BY <1>6, <1>7, <1>8, <1>9, <1>10 DEF b

\* Asks of which one is replaced by at most one other.
LEMMA AsksBound ==
  ASSUME NEW asked, IsFiniteSet(asked), Cardinality(asked) <= Concurrency, NEW ask \in asked, NEW x
  PROVE  /\ IsFiniteSet(asked \ {ask}) /\ Cardinality(asked \ {ask}) <= Concurrency
         /\ IsFiniteSet((asked \ {ask}) \cup {x}) /\ Cardinality((asked \ {ask}) \cup {x}) <= Concurrency
<1>1. /\ IsFiniteSet(asked \ {ask}) /\ Cardinality(asked \ {ask}) = Cardinality(asked) - 1
      /\ Cardinality(asked) \in Nat /\ Concurrency \in Nat
  BY FS_RemoveElement, FS_CardinalityType, BoundsAssumption
<1>2. /\ IsFiniteSet((asked \ {ask}) \cup {x})
      /\ Cardinality((asked \ {ask}) \cup {x}) <= Cardinality(asked \ {ask}) + 1
  <2>1. Cardinality((asked \ {ask}) \cup {x}) \in
          {Cardinality(asked \ {ask}), Cardinality(asked \ {ask}) + 1}
    BY <1>1, FS_AddElement
  <2>2. Cardinality(asked \ {ask}) \in Nat
    BY <1>1, FS_CardinalityType
  <2> QED BY <1>1, <2>1, <2>2, FS_AddElement
<1>3. Cardinality((asked \ {ask}) \cup {x}) \in Nat /\ Cardinality(asked \ {ask}) \in Nat
  BY <1>1, <1>2, FS_CardinalityType
<1> QED BY <1>1, <1>2, <1>3

\* A batch reads which cues need a translation.
LEMMA ReadStaleKeeps == Inv /\ ReadStale => StepKeeps
<1> SUFFICES ASSUME Inv, ReadStale PROVE StepKeeps
  OBVIOUS
<1> DEFINE need == {c.id : c \in {d \in ToSet(batch.cues) : Needs(d, store.prov)}}
           targets == IF batch.pending THEN need ELSE batch.targets
           b == [batch EXCEPT !.pc = "planned", !.targets = targets]
<1>1. /\ batch' = Idle \/ batch' = b
      /\ UNCHANGED <<store, settled, frozen, editor, export, unlinked, left>>
  BY Zenon DEF ReadStale
<1> HIDE DEF targets
<1>2. Run(b)
  <2> DEFINE pc == "planned"
  <2>1. pc \in {"idle", "listed", "planned", "running"} /\ BatchInv
        /\ IsFiniteSet({}) /\ Cardinality({}) <= Concurrency
    BY NothingAsked DEF Inv
  <2> HIDE DEF pc
  <2>2. Run([batch EXCEPT !.pc = pc, !.targets = targets])
    BY <2>1, RunMoves
  <2> QED BY <2>2 DEF pc
<1> HIDE DEF b
<1>3. BatchInv'
  BY <1>1, <1>2, IdleRun DEF Run, BatchInv
<1> QED BY <1>1, <1>3, RunStep

\* A run reads the revisions its answers will be checked against.
LEMMA ReadRevisionsKeeps == Inv /\ ReadRevisions => StepKeeps
<1> SUFFICES ASSUME Inv, ReadRevisions PROVE StepKeeps
  OBVIOUS
<1> DEFINE revs == [i \in DOMAIN store.prov |->
                      [src |-> store.prov[i].srcRev, tr |-> store.prov[i].trRev]]
           touched == [i \in DOMAIN store.prov |-> FALSE]
           pc == "running"
<1>1. UNCHANGED <<store, settled, frozen, editor, export, unlinked, left>>
  BY DEF ReadRevisions
<1>2. PICK plan \in Plans(batch.targets) :
         batch' = [batch EXCEPT !.pc = pc, !.waiting = plan, !.revs = revs, !.touched = touched]
  BY DEF ReadRevisions
<1>3. pc \in {"idle", "listed", "planned", "running"} /\ BatchInv
      /\ IsFiniteSet({}) /\ Cardinality({}) <= Concurrency
  BY NothingAsked DEF Inv
<1> HIDE DEF pc, revs, touched
<1> DEFINE b == [batch EXCEPT !.pc = pc, !.waiting = plan, !.revs = revs, !.touched = touched]
<1>4. Run(b)
  BY <1>3, RunMoves
<1>5. batch' = b
  BY <1>2
<1> HIDE DEF b
<1>6. BatchInv'
  BY <1>4, <1>5 DEF Run, BatchInv
<1> QED BY <1>1, <1>6, RunStep

\* A group is sent while fewer than the limit are out.
LEMMA DispatchKeeps == Inv /\ Dispatch => StepKeeps
<1> SUFFICES ASSUME Inv, Dispatch PROVE StepKeeps
  OBVIOUS
<1> DEFINE g == First(batch.waiting)
           ask == [ids |-> g, retry |-> FALSE, broken |-> ~ (Ids(batch.cues) \subseteq DOMAIN batch.revs)]
           waiting == batch.waiting \ {g}
           asked == batch.asked \cup {ask}
           b == [batch EXCEPT !.waiting = waiting, !.asked = asked]
<1>1. /\ batch' = b /\ Cardinality(batch.asked) < Concurrency
      /\ UNCHANGED <<store, settled, frozen, editor, export, unlinked, left>>
  BY Zenon DEF Dispatch
<1>2. BatchInv /\ IsFiniteSet(batch.asked)
  BY DEF Inv, BatchInv
<1> HIDE DEF ask, waiting
<1>3. IsFiniteSet(asked) /\ Cardinality(asked) <= Concurrency
  <2>1. /\ IsFiniteSet(asked)
        /\ Cardinality(asked) = (IF ask \in batch.asked THEN Cardinality(batch.asked)
                                 ELSE Cardinality(batch.asked) + 1)
    BY <1>2, FS_AddElement
  <2>2. Cardinality(batch.asked) \in Nat /\ Concurrency \in Nat
    BY <1>2, FS_CardinalityType, BoundsAssumption
  <2> HIDE DEF asked
  <2> QED BY <1>1, <2>1, <2>2
<1> HIDE DEF asked
<1>4. Run(b)
  <2>1. batch.pc \in {"idle", "listed", "planned", "running"}
    BY <1>2 DEF BatchInv
  <2> QED BY <1>2, <1>3, <2>1, RunMoves
<1> HIDE DEF b
<1>5. BatchInv'
  BY <1>1, <1>4 DEF Run, BatchInv
<1> QED BY <1>1, <1>5, RunStep

\* A run that asks for as much as before, or less.
LEMMA AskedRun ==
  ASSUME BatchInv, NEW ask \in batch.asked, NEW x, NEW failed
  PROVE  /\ Run([batch EXCEPT !.asked = (batch.asked \ {ask}) \cup {x}])
         /\ Run([batch EXCEPT !.asked = batch.asked \ {ask}])
         /\ Run([batch EXCEPT !.asked = batch.asked \ {ask}, !.failed = failed])
<1> DEFINE more == (batch.asked \ {ask}) \cup {x}
           less == batch.asked \ {ask}
<1>1. /\ IsFiniteSet(less) /\ Cardinality(less) <= Concurrency
      /\ IsFiniteSet(more) /\ Cardinality(more) <= Concurrency
  BY AsksBound DEF BatchInv
<1>2. batch.pc \in {"idle", "listed", "planned", "running"}
  BY DEF BatchInv
<1> HIDE DEF more, less
<1>3. Run([batch EXCEPT !.asked = more])
  BY <1>1, <1>2, RunMoves
<1>4. Run([batch EXCEPT !.asked = less]) /\ Run([batch EXCEPT !.asked = less, !.failed = failed])
  BY <1>1, <1>2, RunMoves
<1> QED BY <1>3, <1>4 DEF more, less

\* The provider fails a group.
LEMMA FailsKeeps == Inv /\ ProviderFails => StepKeeps
<1> SUFFICES ASSUME Inv, ProviderFails PROVE StepKeeps
  OBVIOUS
<1>1. UNCHANGED <<store, settled, frozen, editor, export, unlinked, left>>
  BY DEF ProviderFails
<1>2. PICK ask \in Open :
        batch' = [batch EXCEPT !.asked = (batch.asked \ {ask}) \cup {[ask EXCEPT !.broken = TRUE]}]
  BY DEF ProviderFails
<1> DEFINE x == [ask EXCEPT !.broken = TRUE]
           b == [batch EXCEPT !.asked = (batch.asked \ {ask}) \cup {x}]
<1>3. ask \in batch.asked /\ BatchInv
  BY DEF Open, Inv
<1>4. batch' = b
  BY <1>2
<1> HIDE DEF x
<1>5. Run(b)
  BY <1>3, AskedRun
<1> HIDE DEF b
<1>6. BatchInv'
  BY <1>4, <1>5 DEF Run, BatchInv
<1> QED BY <1>1, <1>6, RunStep

\* The run learns of it.
LEMMA JoinsKeeps == Inv /\ JoinsFailed => StepKeeps
<1> SUFFICES ASSUME Inv, JoinsFailed PROVE StepKeeps
  OBVIOUS
<1>1. UNCHANGED <<store, settled, frozen, editor, export, unlinked, left>>
  BY DEF JoinsFailed
<1> DEFINE failed == TRUE
<1>2. PICK ask \in batch.asked \ Open :
        batch' = [batch EXCEPT !.asked = batch.asked \ {ask}, !.failed = failed]
  BY DEF JoinsFailed
<1> HIDE DEF failed
<1> DEFINE b == [batch EXCEPT !.asked = batch.asked \ {ask}, !.failed = failed]
<1>3. ask \in batch.asked /\ BatchInv /\ batch' = b
  BY <1>2 DEF Inv
<1>4. Run(b)
  BY <1>3, AskedRun
<1> HIDE DEF b
<1>5. BatchInv'
  BY <1>3, <1>4 DEF Run, BatchInv
<1> QED BY <1>1, <1>5, RunStep

\* The run returns.
LEMMA ReturnsKeeps == Inv /\ BatchReturns => StepKeeps
<1> SUFFICES ASSUME Inv, BatchReturns PROVE StepKeeps
  OBVIOUS
<1>1. batch' = Idle /\ UNCHANGED <<store, settled, frozen, editor, export, unlinked, left>>
  BY DEF BatchReturns
<1>2. BatchInv'
  BY <1>1, IdleRun DEF Run, BatchInv
<1> QED BY <1>1, <1>2, RunStep

\* The export reads the cues.
LEMMA ExportListsKeeps == Inv /\ ExportLists => StepKeeps
<1> SUFFICES ASSUME Inv, ExportLists PROVE StepKeeps
  OBVIOUS
<1>1. /\ export.pc # "listed" /\ left' = [left EXCEPT !.others = @ - 1]
      /\ export' = [NoExport EXCEPT !.pc = "listed", !.cues = store.cues]
      /\ UNCHANGED <<store, settled, frozen, editor, batch, unlinked>>
  BY DEF ExportLists
<1>2. export' \in [pc : {"listed"}, cues : {store.cues}, crossed : {FALSE}, fresh : {TRUE}]
  BY <1>1, Zenon DEF NoExport
<1>3. ExportInv' /\ export'.pc # export.pc
  <2> HIDE <1>1
  <2>1. export'.pc = "listed" /\ export'.cues = store.cues /\ store' = store /\ export.pc # "listed"
    BY <1>1, <1>2
  <2>2. export' \in [pc : {"none", "listed", "exported", "refused"}, cues : {export'.cues},
                     crossed : BOOLEAN, fresh : {export'.fresh}]
    BY <1>2
  <2> QED BY <2>1, <2>2 DEF ExportInv
<1>4. left'.ids = left.ids /\ left' \in [edits : Int, batches : Int, others : Int, ids : SUBSET NewIds]
  BY <1>1, LeftMoves DEF Inv
<1>5. UNCHANGED <<store, settled, frozen, view, saved, history, batch, unlinked>>
  BY <1>1 DEF editor
<1> HIDE <1>1
<1>6. StoreInv' /\ EditorInv' /\ HistoryInv' /\ LeftInv' /\ BatchInv'
  BY <1>4, <1>5 DEF Inv, StoreInv, EditorInv, HistoryInv, LeftInv, Unused, BatchInv
<1>7. Grown(store, store') /\ WorkKept
  BY <1>3, <1>5, SameGrown DEF Inv, StoreInv, Intact, Good, WorkKept
<1> QED BY <1>3, <1>6, <1>7 DEF StepKeeps, Inv

\* The export reads the provenance, and refuses or is up to date.
LEMMA ExportChecksKeeps == Inv /\ ExportChecks => StepKeeps
<1> SUFFICES ASSUME Inv, ExportChecks PROVE StepKeeps
  OBVIOUS
<1> DEFINE refused == \/ export.cues = <<>>
                      \/ \E c \in ToSet(export.cues) : c.stale \/ c.tr = None
                      \/ \E i \in DOMAIN store.prov : store.prov[i].depStale
           pc == IF refused THEN "refused" ELSE "exported"
           fresh == refused \/ UpToDate(export.cues)
           crossed == export.crossed
<1>1. /\ export.pc = "listed"
      /\ export' = [NoExport EXCEPT !.pc = pc, !.crossed = crossed, !.fresh = fresh]
      /\ UNCHANGED <<store, settled, frozen, editor, batch, unlinked, left>>
  BY Zenon DEF ExportChecks
<1>2. crossed \in BOOLEAN /\ (~crossed => export.cues = store.cues)
  BY <1>1 DEF Inv, ExportInv
<1>3. pc \in {"refused", "exported"} /\ (pc = "exported" => ~refused)
  BY Zenon
<1>4. ~crossed /\ ~refused => fresh
  <2> SUFFICES ASSUME ~crossed, ~refused PROVE fresh
    OBVIOUS
  <2>1. export.cues = store.cues
    BY <1>2
  <2>2. \A c \in ToSet(store.cues) : ~c.stale /\ c.tr # None
    BY <2>1
  <2>3. \A i \in DOMAIN store.prov : ~store.prov[i].depStale
    OBVIOUS
  <2>4. UpToDate(store.cues)
    BY <2>2, <2>3, InvUpToDate
  <2> QED BY <2>1, <2>4
<1> HIDE DEF refused, fresh, crossed, pc
<1>5. export' \in [pc : {pc}, cues : {<<>>}, crossed : {crossed}, fresh : {fresh}]
  BY <1>1, Zenon DEF NoExport
<1>6. UNCHANGED <<store, settled, frozen, view, saved, history, batch, unlinked, left>>
  BY <1>1 DEF editor
<1> HIDE <1>1
<1>7. ExportInv'
  <2>1. export'.pc = pc /\ export'.crossed = crossed /\ export'.fresh = fresh
    BY <1>5
  <2>2. export' \in [pc : {"none", "listed", "exported", "refused"}, cues : {export'.cues},
                     crossed : BOOLEAN, fresh : {export'.fresh}]
    BY <1>2, <1>3, <1>5
  <2>3. pc # "listed"
    BY <1>3
  <2>4. pc = "exported" /\ ~crossed => fresh
    BY <1>3, <1>4
  <2> QED BY <2>1, <2>2, <2>3, <2>4 DEF ExportInv
<1>8. StoreInv' /\ EditorInv' /\ HistoryInv' /\ LeftInv' /\ BatchInv'
  BY <1>6 DEF Inv, StoreInv, EditorInv, HistoryInv, LeftInv, Unused, BatchInv
<1>9. Grown(store, store') /\ WorkKept
  BY <1>6, SameGrown DEF Inv, StoreInv, Intact, Good, WorkKept
<1> QED BY <1>7, <1>8, <1>9 DEF StepKeeps, Inv

\* What a run sends back for a group, and what it read that for.
UpdatesOf(ids, ctx) == {Update(id, ctx) : id \in ids}
DependsOf(ids) ==
    {[id |-> c, src |-> Read(c).src, rev |-> batch.revs[c].src] : c \in Context(ids)}

\* Updates of one answer are a group: each was made from its own source and from
\* context cues that the answer depends on.
LEMMA AnswerGroup ==
  ASSUME NEW ids, NEW ctx, ctx \in {{}, Context(ids)}, NEW some, some \subseteq ids
  PROVE  Group(UpdatesOf(some, ctx), DependsOf(ids))
<1> DEFINE updates == UpdatesOf(some, ctx)
           depends == DependsOf(ids)
<1>1. ASSUME NEW id
      PROVE  /\ Update(id, ctx).id = id /\ Update(id, ctx).src = Read(id).src
             /\ Update(id, ctx).text
                  = <<[of |-> Read(id).src, ctx |-> {<<c, Read(c).src>> : c \in ctx}]>>
  BY DEF Update
<1>2. ASSUME NEW u \in updates
      PROVE  /\ u.id \in ids /\ u = Update(u.id, ctx)
             /\ u.text = <<[of |-> u.src, ctx |-> {<<c, Read(c).src>> : c \in ctx}]>>
  <2>1. PICK id \in some : u = Update(id, ctx)
    BY DEF UpdatesOf
  <2>2. u.id = id /\ u.src = Read(id).src
        /\ u.text = <<[of |-> Read(id).src, ctx |-> {<<c, Read(c).src>> : c \in ctx}]>>
    BY <1>1, <2>1, Zenon
  <2> QED BY <2>1, <2>2, Zenon
<1>3. ASSUME NEW c \in Context(ids)
      PROVE  \E d \in depends : d.id = c /\ d.src = Read(c).src
  <2> DEFINE d == [id |-> c, src |-> Read(c).src, rev |-> batch.revs[c].src]
  <2>1. d.id = c /\ d.src = Read(c).src
    OBVIOUS
  <2>2. d \in depends
    BY Zenon DEF DependsOf
  <2> HIDE DEF d
  <2> QED BY <2>1, <2>2, Zenon
<1>4. \A d \in depends : d.id \in Context(ids)
  BY DEF DependsOf
<1> HIDE DEF updates, depends
<1>5. \A u, w \in updates : u.id = w.id => u = w
  BY <1>2
<1>6. \A u \in updates : \A d \in depends : d.id # u.id
  BY <1>2, <1>4 DEF Context
<1>7. ASSUME NEW u \in updates, NEW piece \in ToSet(u.text)
      PROVE  /\ piece.of = u.src
             /\ \A used \in piece.ctx : \E d \in depends : d.id = used[1] /\ d.src = used[2]
  <2> DEFINE x == [of |-> u.src, ctx |-> {<<c, Read(c).src>> : c \in ctx}]
  <2>1. u.text = <<x>>
    BY <1>2
  <2>2. x.of = u.src /\ x.ctx = {<<c, Read(c).src>> : c \in ctx}
    OBVIOUS
  <2> HIDE DEF x
  <2>3. piece = x
    BY <2>1, OneElement
  <2>4. ASSUME NEW used \in x.ctx
        PROVE  \E d \in depends : d.id = used[1] /\ d.src = used[2]
    <3>1. PICK c \in ctx : used = <<c, Read(c).src>>
      BY <2>2
    <3>2. c \in Context(ids) /\ used[1] = c /\ used[2] = Read(c).src
      BY <3>1
    <3> QED BY <1>3, <3>2
  <2> QED BY <2>2, <2>3, <2>4
<1>8. Group(updates, depends)
  BY <1>5, <1>6, <1>7 DEF Group
<1> QED BY <1>8 DEF updates, depends

\* A group that is applied leaves sources, times and edits as they are.
LEMMA ApplyPristine ==
  ASSUME NEW s, NEW t, NEW updates, NEW depends, Rows(s.cues), AppliesTo(s, updates, depends, t),
         Pristine(s, Published), DOMAIN Published = 1..Len(Published)
  PROVE  Pristine(t, Published)
<1>1. Rows(t.cues)
  BY SoundParts DEF AppliesTo
<1>2. /\ DOMAIN t.cues = DOMAIN s.cues /\ DOMAIN s.cues = 1..Len(s.cues)
      /\ DOMAIN t.cues = 1..Len(t.cues) /\ Len(s.cues) \in Nat /\ Len(t.cues) \in Nat
      /\ Len(s.cues) = Len(Published)
  BY <1>1, ListSeq DEF AppliesTo, Rows, List, Pristine
<1>3. Len(t.cues) = Len(Published)
  BY <1>2
<1>4. ASSUME NEW i \in DOMAIN t.cues
      PROVE  Original(t.cues[i], Published[i])
  <2>1. /\ t.cues[i].id = s.cues[i].id /\ Original(s.cues[i], Published[i]) /\ i \in DOMAIN Published
    BY <1>2 DEF AppliesTo, Pristine
  <2>2. CueOf(t, t.cues[i].id) = t.cues[i] /\ CueOf(s, s.cues[i].id) = s.cues[i]
        /\ s.cues[i].id \in Ids(s.cues)
    BY <1>1, <1>2, Found DEF Has
  <2>3. /\ t.cues[i].src = s.cues[i].src /\ t.cues[i].start = s.cues[i].start
        /\ t.cues[i].end = s.cues[i].end /\ t.cues[i].srcEdited = s.cues[i].srcEdited
        /\ t.cues[i].timeEdited = s.cues[i].timeEdited
    <3> DEFINE id == s.cues[i].id
    <3>1. /\ CueOf(t, id).src = CueOf(s, id).src /\ CueOf(t, id).start = CueOf(s, id).start
          /\ CueOf(t, id).end = CueOf(s, id).end /\ CueOf(t, id).srcEdited = CueOf(s, id).srcEdited
          /\ CueOf(t, id).timeEdited = CueOf(s, id).timeEdited
      BY <2>2 DEF AppliesTo
    <3>2. CueOf(t, id) = t.cues[i] /\ CueOf(s, id) = s.cues[i]
      BY <2>1, <2>2
    <3> HIDE DEF id
    <3> QED BY <3>1, <3>2
  <2> QED BY <2>1, <2>3 DEF Original
<1> QED BY <1>3, <1>4 DEF Pristine

\* An answer is applied, or refused and its group broken.
LEMMA AnswerKeeps ==
  ASSUME Inv, NEW ask \in Open, NEW ctx \in {{}, Context(ask.ids)}, NEW empty, Answer(ask, ctx, empty)
  PROVE  StepKeeps
<1> DEFINE updates == {Update(id, ctx) : id \in ask.ids \ empty}
           depends == {[id |-> c, src |-> Read(c).src, rev |-> batch.revs[c].src] :
                          c \in Context(ask.ids)}
           others == batch.asked \ {ask}
           retry == [ids |-> empty, retry |-> TRUE, broken |-> FALSE]
           again == IF empty = {} \/ ask.retry THEN {} ELSE {retry}
           broken == [ask EXCEPT !.broken = TRUE]
           s == IF updates = {} THEN store ELSE ApplyGroup(store, updates, depends)
           after == unlinked \ Differing(store, updates)
<1>1. Group(updates, depends)
      /\ {u.id : u \in {v \in updates : CueOf(store, v.id).tr # v.text}} = Differing(store, updates)
  <2>1. PICK ids : ids = ask.ids
    OBVIOUS
  <2>2. Group(updates, depends)
    <3>1. ctx \in {{}, Context(ids)} /\ ids \ empty \subseteq ids
      BY <2>1
    <3>2. updates = UpdatesOf(ids \ empty, ctx) /\ depends = DependsOf(ids)
      BY <2>1, Zenon DEF UpdatesOf, DependsOf
    <3> HIDE DEF updates, depends
    <3>3. Group(UpdatesOf(ids \ empty, ctx), DependsOf(ids))
      BY <3>1, AnswerGroup, Zenon
    <3> QED BY <3>2, <3>3
  <2>3. {u.id : u \in {v \in updates : CueOf(store, v.id).tr # v.text}} = Differing(store, updates)
    BY Zenon DEF Differing
  <2> QED BY <2>2, <2>3
<1>2. /\ \/ /\ updates = {} \/ CanApply(store, updates)
            /\ Writes(s) /\ batch' = [batch EXCEPT !.asked = others \cup again]
            /\ unlinked' = after
         \/ /\ batch' = [batch EXCEPT !.asked = others \cup {broken}]
            /\ UNCHANGED <<store, export, unlinked>>
      /\ UNCHANGED <<settled, frozen, editor, left>>
  BY <1>1, Zenon DEF Answer
<1>3. ask \in batch.asked /\ BatchInv
  BY DEF Open, Inv
<1> HIDE DEF updates, depends, retry, broken
<1>4. BatchInv'
  <2>1. /\ Run([batch EXCEPT !.asked = others \cup {broken}])
        /\ Run([batch EXCEPT !.asked = others \cup {retry}])
        /\ Run([batch EXCEPT !.asked = others])
    BY <1>3, AskedRun
  <2>2. others \cup {} = others
    OBVIOUS
  <2>3. /\ Run([batch EXCEPT !.asked = others \cup again])
    <3>1. CASE again = {}
      BY <2>1, <2>2, <3>1
    <3>2. CASE again = {retry}
      BY <2>1, <3>2
    <3> QED BY <3>1, <3>2
  <2> DEFINE a == [batch EXCEPT !.asked = others \cup again]
             b == [batch EXCEPT !.asked = others \cup {broken}]
  <2>4. Run(a) /\ Run(b)
    BY <2>1, <2>3
  <2>5. batch' = a \/ batch' = b
    BY <1>2
  <2> HIDE DEF a, b
  <2> QED BY <2>4, <2>5 DEF Run, BatchInv
<1> HIDE DEF s, after, again, others
<1>5. CASE /\ updates = {} \/ CanApply(store, updates)
           /\ Writes(s) /\ unlinked' = after
  <2>1. store' = s /\ ExportInv' /\ export'.pc = export.pc
    BY <1>5, WritesExport
  <2>2. Good(store, unlinked) /\ Sound(store) /\ Rows(store.cues)
    BY SoundParts DEF Inv, StoreInv, Intact, Good
  <2>3. Eases(store, s, unlinked, after) /\ (~frozen => Pristine(s, Published))
    <3>1. CASE updates = {}
      <4>1. s = store /\ after = unlinked
        BY <3>1 DEF s, after, Differing
      <4> QED BY <2>2, <4>1, SameEases DEF Inv, StoreInv, Intact
    <3>2. CASE updates # {}
      <4>1. CanApply(store, updates) /\ s = ApplyGroup(store, updates, depends)
        BY <1>5, <3>2 DEF s
      <4>2. AppliesTo(store, updates, depends, s)
        BY <1>1, <2>2, <4>1, ApplyDoes
      <4>3. unlinked \ Differing(store, updates) \subseteq after
        BY DEF after
      <4>4. Good(s, after) /\ \A v : v.id \in Ids(store.cues) /\ Lag(store, v) => Lag(s, v)
        BY <1>1, <2>2, <4>1, <4>2, <4>3, ApplyKeeps
      <4>5. Grown(store, s)
        BY <2>2, <4>1, <4>2, ApplyGrown
      <4>6. unlinked \subseteq after \/ s.rev > store.rev
        BY <4>2 DEF AppliesTo, after
      <4>7. Eases(store, s, unlinked, after)
        BY <4>2, <4>4, <4>5, <4>6 DEF Eases, AppliesTo
      <4>8. ~frozen => Pristine(s, Published)
        BY <2>2, <4>2, ApplyPristine, PublishedRows DEF Inv, StoreInv, Intact
      <4> QED BY <4>7, <4>8
    <3> QED BY <3>1, <3>2
  <2>4. UNCHANGED <<settled, frozen, view, saved, history, left>>
    BY <1>2 DEF editor
  <2>5. left' = left /\ left \in [edits : Int, batches : Int, others : Int, ids : SUBSET NewIds]
    BY <2>4 DEF Inv, LeftInv
  <2>6. /\ StoreInv' /\ HistoryInv' /\ LeftInv'
        /\ \A v : Harmless(store, frozen, v) => Harmless(store', frozen', v)
    <3>1. Eases(store, store', unlinked, unlinked') /\ (~frozen => Pristine(store', Published))
      BY <1>5, <2>1, <2>3
    <3>2. settled' \in BOOLEAN
      BY <2>4 DEF Inv, StoreInv
    <3> QED BY <2>4, <2>5, <3>1, <3>2, EasesKeeps
  <2>7. EditorInv'
    BY <2>4, <2>6 DEF Inv, EditorInv, Held
  <2>8. Grown(store, store') /\ WorkKept
    BY <2>1, <2>3, <2>5 DEF Eases, WorkKept
  <2> QED BY <1>4, <2>1, <2>6, <2>7, <2>8 DEF StepKeeps, Inv
<1>6. CASE UNCHANGED <<store, export, unlinked>>
  BY <1>2, <1>4, <1>6, RunStep
<1> QED BY <1>2, <1>5, <1>6

\* So every answer keeps the invariant.
LEMMA AnswersKeeps == Inv /\ Answers => StepKeeps
BY AnswerKeeps DEF Answers

-----------------------------------------------------------------------------
(* The workspace *)

\* Every step keeps the invariant, lets revisions only grow and keeps the work of the user.
LEMMA NextKeeps == Inv /\ [Next]_vars => StepKeeps
<1> SUFFICES ASSUME Inv, [Next]_vars PROVE StepKeeps
  OBVIOUS
<1>1. CASE Saves
  BY <1>1, SaveKeeps DEF Saves
<1>2. CASE UndoesText
  BY <1>2, UndoTextKeeps DEF UndoesText
<1>3. CASE Removes
  BY <1>3, RemoveKeeps DEF Removes
<1>4. CASE Inserts
  BY <1>4, InsertKeeps DEF Inserts
<1>5. CASE MovesTime
  BY <1>5, TimingKeeps DEF MovesTime
<1>6. CASE Cuts
  BY <1>6, CutKeeps DEF Cuts
<1>7. CASE Joins
  BY <1>7, JoinKeeps DEF Joins
<1>8. CASE AdoptCandidate \/ UndoStructure \/ OpenDetail
  BY <1>8, AdoptKeeps, UndoKeepsInv, OpenKeeps
<1>9. CASE Translates
  BY <1>9, ListsKeeps, TranslateOneKeeps DEF Translates
<1>10. CASE Translation
  BY <1>10, ReadStaleKeeps, ReadRevisionsKeeps, DispatchKeeps, AnswersKeeps, FailsKeeps, JoinsKeeps,
     ReturnsKeeps DEF Translation
<1>11. CASE SyncSnapshot \/ RecoverEvidence
  BY <1>11, SyncKeeps, RecoverKeeps
<1>12. CASE EvictOldest \/ ExportLists \/ ExportChecks
  BY <1>12, EvictKeeps, ExportListsKeeps, ExportChecksKeeps
<1>13. CASE UNCHANGED vars
  <2>1. UNCHANGED <<store, settled, frozen, view, saved, history, batch, export, unlinked, left>>
    BY <1>13 DEF vars
  <2>2. StoreInv' /\ EditorInv' /\ HistoryInv' /\ LeftInv' /\ BatchInv' /\ ExportInv'
    BY <2>1 DEF Inv, StoreInv, EditorInv, HistoryInv, LeftInv, BatchInv, ExportInv
  <2>3. Grown(store, store') /\ WorkKept
    BY <2>1, SameGrown DEF Inv, StoreInv, Intact, Good, WorkKept
  <2> QED BY <2>2, <2>3 DEF StepKeeps, Inv
<1> QED BY <1>1, <1>2, <1>3, <1>4, <1>5, <1>6, <1>7, <1>8, <1>9, <1>10, <1>11, <1>12, <1>13
      DEF Next, User

\* The tables, the history and the run stay within their types and bounds.
THEOREM WorkspaceTyped == Spec => []TypeOK
<1>1. Inv /\ [Next]_vars => Inv'
  BY NextKeeps DEF StepKeeps
<1> QED BY <1>1, InitInv, InvTypeOK, PTL DEF Spec

\* An unflagged machine translation was made from the source its cue has now, and from
\* the sources its context cues have now, for every transcript, candidate and bound.
THEOREM FreshTranslations == Spec => []FreshTranslation
<1>1. Inv /\ [Next]_vars => Inv'
  BY NextKeeps DEF StepKeeps
<1> QED BY <1>1, InitInv, InvFreshTranslation, PTL DEF Spec

\* An edge whose context has moved on belongs to a translation that is flagged.
THEOREM MovedContextIsFlagged == Spec => []MovedContextFlagged
<1>1. Inv /\ [Next]_vars => Inv'
  BY NextKeeps DEF StepKeeps
<1> QED BY <1>1, InitInv, InvMovedContextFlagged, PTL DEF Spec

\* An export that no write crossed is made from the sources exported beside it.
THEOREM ExportIsFresh == Spec => []ExportFresh
<1>1. Inv /\ [Next]_vars => Inv'
  BY NextKeeps DEF StepKeeps
<1> QED BY <1>1, InitInv, InvExportFresh, PTL DEF Spec

\* The revision of the workspace and those of every cue that stays only grow, and grow
\* with what they count.
THEOREM RevisionsOnlyAdvance == Spec => RevisionsAdvance
<1>1. Inv /\ [Next]_vars => Inv'
  BY NextKeeps DEF StepKeeps
<1>2. Inv /\ [Next]_vars => Grown(store, store')
  BY NextKeeps DEF StepKeeps
<1> QED BY <1>1, <1>2, InitInv, PTL DEF Spec, RevisionsAdvance, Grown

\* A refresh that writes the transcript again keeps every edit and every translation.
THEOREM RefreshKeepsTheWork == Spec => RefreshKeepsWork
<1>1. Inv /\ [Next]_vars => Inv'
  BY NextKeeps DEF StepKeeps
<1>2. Inv /\ [Next]_vars => WorkKept
  BY NextKeeps DEF StepKeeps
<1> QED BY <1>1, <1>2, InitInv, PTL DEF Spec, RefreshKeepsWork, WorkKept

-----------------------------------------------------------------------------
(* Late answers and the work of the user *)

\* The revisions a run has read are not ahead of those of the cues that stayed, and are
\* behind those of the cues the user has changed since.
Aged(b, s) ==
    \A id \in DOMAIN b.touched :
        /\ Has(s, id) /\ b.revs[id].src \in Int /\ b.revs[id].tr \in Int
        /\ s.prov[id].srcRev >= b.revs[id].src /\ s.prov[id].trRev >= b.revs[id].tr
        /\ b.touched[id] => \/ s.prov[id].srcRev > b.revs[id].src
                            \/ s.prov[id].trRev > b.revs[id].tr
WorkInv ==
    /\ batch.asked # {} => batch.pc = "running"
    /\ batch.pc = "running" => Aged(batch, store)

\* The run goes on with the revisions it has read.
Continues(b) == b.pc = batch.pc /\ b.revs = batch.revs /\ b.touched = batch.touched

\* What KeepsUserWork says of a step.
Spared ==
    \A id \in DOMAIN batch.touched : \A ask \in batch.asked :
        batch.touched[id] /\ ask \notin batch'.asked /\ batch' # Idle =>
            Has(store, id) /\ Has(store', id) /\ CueOf(store', id) = CueOf(store, id)

\* The parts a step of a run leaves alone.
LEMMA RunStays ==
  ASSUME BatchInv, NEW waiting, NEW asked, NEW failed, NEW touched
  PROVE  /\ Continues([batch EXCEPT !.waiting = waiting, !.asked = asked])
         /\ Continues([batch EXCEPT !.asked = asked])
         /\ Continues([batch EXCEPT !.asked = asked, !.failed = failed])
         /\ LET b == [batch EXCEPT !.touched = touched] IN
            b.pc = batch.pc /\ b.revs = batch.revs /\ b.touched = touched /\ b.asked = batch.asked
<1> DEFINE o == batch
           W == [pc : {o.pc}, pending : {o.pending}, cues : {o.cues}, targets : {o.targets},
                 revs : {o.revs}, waiting : {waiting}, asked : {asked}, failed : {o.failed},
                 touched : {o.touched}]
           A == [pc : {o.pc}, pending : {o.pending}, cues : {o.cues}, targets : {o.targets},
                 revs : {o.revs}, waiting : {o.waiting}, asked : {asked}, failed : {o.failed},
                 touched : {o.touched}]
           F == [pc : {o.pc}, pending : {o.pending}, cues : {o.cues}, targets : {o.targets},
                 revs : {o.revs}, waiting : {o.waiting}, asked : {asked}, failed : {failed},
                 touched : {o.touched}]
           T == [pc : {o.pc}, pending : {o.pending}, cues : {o.cues}, targets : {o.targets},
                 revs : {o.revs}, waiting : {o.waiting}, asked : {o.asked}, failed : {o.failed},
                 touched : {touched}]
           w == [o EXCEPT !.waiting = waiting, !.asked = asked]
           a == [o EXCEPT !.asked = asked]
           f == [o EXCEPT !.asked = asked, !.failed = failed]
           t == [o EXCEPT !.touched = touched]
<1>1. o \in [pc : {o.pc}, pending : {o.pending}, cues : {o.cues}, targets : {o.targets},
             revs : {o.revs}, waiting : {o.waiting}, asked : {o.asked}, failed : {o.failed},
             touched : {o.touched}]
  BY DEF BatchInv
<1> HIDE DEF o
<1>2. w \in W /\ a \in A /\ f \in F /\ t \in T
  BY <1>1, Zenon
<1> HIDE DEF w, a, f, t
<1>3. /\ w.pc = o.pc /\ w.revs = o.revs /\ w.touched = o.touched
      /\ a.pc = o.pc /\ a.revs = o.revs /\ a.touched = o.touched
      /\ f.pc = o.pc /\ f.revs = o.revs /\ f.touched = o.touched
      /\ t.pc = o.pc /\ t.revs = o.revs /\ t.touched = touched /\ t.asked = o.asked
  BY <1>2
<1> HIDE DEF W, A, F, T
<1> QED BY <1>3, Zenon DEF Continues, o, w, a, f, t

\* Revisions that only grow stay ahead of those a run has read.
LEMMA AgedStays ==
  ASSUME Inv, WorkInv, Grown(store, store'), Continues(batch'), batch.pc = "running",
         Ids(store.cues) \subseteq Ids(store'.cues), Sound(store')
  PROVE  Aged(batch', store')
<1>1. Aged(batch, store) /\ Sound(store)
  BY DEF WorkInv, Inv, StoreInv, Intact, Good
<1>2. ASSUME NEW id \in DOMAIN batch.touched
      PROVE  /\ Has(store', id) /\ batch.revs[id].src \in Int /\ batch.revs[id].tr \in Int
             /\ store'.prov[id].srcRev >= batch.revs[id].src
             /\ store'.prov[id].trRev >= batch.revs[id].tr
             /\ batch.touched[id] => \/ store'.prov[id].srcRev > batch.revs[id].src
                                     \/ store'.prov[id].trRev > batch.revs[id].tr
  <2>1. id \in Ids(store.cues) /\ id \in Ids(store'.cues)
    BY <1>1 DEF Aged, Has
  <2>2. /\ store.prov[id].srcRev \in Nat /\ store.prov[id].trRev \in Nat
        /\ store'.prov[id].srcRev \in Nat /\ store'.prov[id].trRev \in Nat
    BY <1>1, <2>1, SoundParts, Parts
  <2>3. /\ store'.prov[id].srcRev >= store.prov[id].srcRev
        /\ store'.prov[id].trRev >= store.prov[id].trRev
    BY <2>1 DEF Grown
  <2> QED BY <1>1, <2>1, <2>2, <2>3 DEF Aged, Has
<1> QED BY <1>2 DEF Aged, Continues

\* What the user writes beside a run puts the revisions of what they change ahead.
LEMMA UserAges ==
  ASSUME Inv, WorkInv, UserWrites(store'), Grown(store, store'), Sound(store')
  PROVE  WorkInv' /\ batch'.asked = batch.asked
<1>1. Sound(store) /\ BatchInv
  BY DEF Inv, StoreInv, Intact, Good
<1>2. CASE batch.pc # "running"
  <2>1. batch' = batch
    BY <1>2 DEF UserWrites
  <2> QED BY <1>2, <2>1 DEF WorkInv
<1>3. CASE batch.pc = "running"
  <2> DEFINE touched == [id \in DOMAIN batch.touched \cap Ids(store'.cues) |->
                           batch.touched[id] \/ Rewritten(CueOf(store, id), CueOf(store', id))]
             b == [batch EXCEPT !.touched = touched]
  <2>1. batch' = b
    BY <1>3 DEF UserWrites
  <2>2. /\ DOMAIN touched = DOMAIN batch.touched \cap Ids(store'.cues)
        /\ \A id \in DOMAIN touched :
             touched[id] = (batch.touched[id] \/ Rewritten(CueOf(store, id), CueOf(store', id)))
    OBVIOUS
  <2> HIDE DEF touched
  <2>3. b.pc = batch.pc /\ b.revs = batch.revs /\ b.touched = touched /\ b.asked = batch.asked
    BY <1>1, RunStays, Zenon
  <2> HIDE DEF b
  <2>4. batch'.pc = batch.pc /\ batch'.revs = batch.revs /\ batch'.touched = touched
        /\ batch'.asked = batch.asked
    BY <2>1, <2>3
  <2>5. Aged(batch, store)
    BY <1>3 DEF WorkInv
  <2>6. ASSUME NEW id \in DOMAIN touched
        PROVE  /\ Has(store', id) /\ batch.revs[id].src \in Int /\ batch.revs[id].tr \in Int
               /\ store'.prov[id].srcRev >= batch.revs[id].src
               /\ store'.prov[id].trRev >= batch.revs[id].tr
               /\ touched[id] => \/ store'.prov[id].srcRev > batch.revs[id].src
                                 \/ store'.prov[id].trRev > batch.revs[id].tr
    <3>1. id \in DOMAIN batch.touched /\ id \in Ids(store.cues) /\ id \in Ids(store'.cues)
      BY <2>2, <2>5 DEF Aged, Has
    <3>2. /\ store.prov[id].srcRev \in Nat /\ store.prov[id].trRev \in Nat
          /\ store'.prov[id].srcRev \in Nat /\ store'.prov[id].trRev \in Nat
      BY <1>1, <3>1, SoundParts, Parts
    <3>3. /\ store'.prov[id].srcRev >= store.prov[id].srcRev
          /\ store'.prov[id].trRev >= store.prov[id].trRev
          /\ Rewritten(CueOf(store, id), CueOf(store', id)) =>
               \/ store'.prov[id].srcRev > store.prov[id].srcRev
               \/ store'.prov[id].trRev > store.prov[id].trRev
      BY <3>1 DEF Grown, Rewritten
    <3>4. /\ batch.revs[id].src \in Int /\ batch.revs[id].tr \in Int
          /\ store.prov[id].srcRev >= batch.revs[id].src
          /\ store.prov[id].trRev >= batch.revs[id].tr
          /\ batch.touched[id] => \/ store.prov[id].srcRev > batch.revs[id].src
                                  \/ store.prov[id].trRev > batch.revs[id].tr
      BY <2>5, <3>1 DEF Aged
    <3>5. touched[id] => batch.touched[id] \/ Rewritten(CueOf(store, id), CueOf(store', id))
      BY <2>2
    <3> HIDE DEF Rewritten
    <3> QED BY <3>1, <3>2, <3>3, <3>4, <3>5 DEF Has
  <2>7. Aged(batch', store')
    BY <2>4, <2>6 DEF Aged
  <2> QED BY <1>3, <2>4, <2>7 DEF WorkInv
<1> QED BY <1>2, <1>3

\* A write that is the refresh's leaves the run as it was, and every cue in place.
LEMMA RefreshStays ==
  ASSUME Inv, SyncSnapshot \/ RecoverEvidence
  PROVE  batch' = batch /\ Ids(store.cues) \subseteq Ids(store'.cues)
<1>1. StepKeeps
  BY SyncKeeps, RecoverKeeps
<1>2. PICK s : Writes(s)
  BY DEF SyncSnapshot, RecoverEvidence
<1>3. export'.pc = export.pc
  BY <1>2, WritesExport
<1>4. left' = [left EXCEPT !.others = @ - 1]
  BY DEF SyncSnapshot, RecoverEvidence
<1>5. left'.others # left.others
  <2>1. left \in [edits : Int, batches : Int, others : Int, ids : SUBSET NewIds]
    BY DEF Inv, LeftInv
  <2> QED BY <1>4, <2>1
<1>6. \A c \in ToSet(store.cues) : Has(store', c.id)
  BY <1>1, <1>3, <1>5 DEF StepKeeps, WorkKept
<1>7. Ids(store.cues) \subseteq Ids(store'.cues)
  BY <1>6 DEF Has, Ids
<1> QED BY <1>7 DEF SyncSnapshot, RecoverEvidence

\* An answer is written over what the run read, or not at all.
LEMMA AnswerSpares ==
  ASSUME Inv, WorkInv, NEW ask \in Open, NEW ctx \in {{}, Context(ask.ids)}, NEW empty,
         Answer(ask, ctx, empty)
  PROVE  /\ batch.pc = "running" /\ Continues(batch') /\ Ids(store'.cues) = Ids(store.cues)
         /\ \A id \in DOMAIN batch.touched : batch.touched[id] => CueOf(store', id) = CueOf(store, id)
<1> DEFINE updates == {Update(id, ctx) : id \in ask.ids \ empty}
           depends == {[id |-> c, src |-> Read(c).src, rev |-> batch.revs[c].src] :
                          c \in Context(ask.ids)}
           others == batch.asked \ {ask}
           again == IF empty = {} \/ ask.retry THEN {} ELSE {[ids |-> empty, retry |-> TRUE, broken |-> FALSE]}
           more == others \cup again
           fewer == others \cup {[ask EXCEPT !.broken = TRUE]}
           s == IF updates = {} THEN store ELSE ApplyGroup(store, updates, depends)
<1>1. batch.pc = "running" /\ Aged(batch, store) /\ BatchInv /\ Sound(store)
  BY DEF Open, WorkInv, Inv, StoreInv, Intact, Good
<1>2. \/ /\ updates = {} \/ CanApply(store, updates)
         /\ store' = s /\ batch' = [batch EXCEPT !.asked = more]
      \/ batch' = [batch EXCEPT !.asked = fewer] /\ store' = store
  BY Zenon DEF Answer, Writes
<1>3. \A u \in updates : /\ u.srcRev = batch.revs[u.id].src
                         /\ u.trRev = batch.revs[u.id].tr
  <2> SUFFICES ASSUME NEW id \in ask.ids \ empty, NEW u, u = Update(id, ctx)
               PROVE  u.srcRev = batch.revs[u.id].src /\ u.trRev = batch.revs[u.id].tr
    BY Zenon
  <2>1. u.id = id /\ u.srcRev = batch.revs[id].src /\ u.trRev = batch.revs[id].tr
    BY DEF Update
  <2> QED BY <2>1
<1>4. Group(updates, depends)
  <2>1. PICK ids : ids = ask.ids
    OBVIOUS
  <2>2. ctx \in {{}, Context(ids)} /\ ids \ empty \subseteq ids
    BY <2>1
  <2>3. updates = UpdatesOf(ids \ empty, ctx) /\ depends = DependsOf(ids)
    BY <2>1, Zenon DEF UpdatesOf, DependsOf
  <2> HIDE DEF updates, depends
  <2>4. Group(UpdatesOf(ids \ empty, ctx), DependsOf(ids))
    BY <2>2, AnswerGroup, Zenon
  <2> QED BY <2>3, <2>4
<1> HIDE DEF updates, depends, more, fewer
<1>5. Continues(batch')
  BY <1>1, <1>2, RunStays
<1>6. CASE store' = store
  BY <1>1, <1>5, <1>6
<1>7. CASE updates # {} /\ CanApply(store, updates) /\ store' = s
  <2>1. s = ApplyGroup(store, updates, depends)
    BY <1>7
  <2>2. AppliesTo(store, updates, depends, s)
    BY <1>1, <1>4, <1>7, <2>1, ApplyDoes DEF Inv, StoreInv, Intact
  <2> HIDE DEF s
  <2>3. ASSUME NEW id \in DOMAIN batch.touched, batch.touched[id]
        PROVE  CueOf(store', id) = CueOf(store, id)
    <3>1. /\ id \in Ids(store.cues)
          /\ batch.revs[id].src \in Int /\ batch.revs[id].tr \in Int
          /\ \/ store.prov[id].srcRev > batch.revs[id].src
             \/ store.prov[id].trRev > batch.revs[id].tr
      BY <1>1, <2>3 DEF Aged, Has
    <3>2. store.prov[id].srcRev \in Nat /\ store.prov[id].trRev \in Nat
      BY <1>1, <3>1, SoundParts, Parts
    <3>3. ASSUME NEW u \in updates, u.id = id
          PROVE  FALSE
      <4>1. store.prov[id].srcRev = batch.revs[id].src /\ store.prov[id].trRev = batch.revs[id].tr
        BY <1>3, <1>7, <3>3 DEF CanApply
      <4> QED BY <3>1, <3>2, <4>1
    <3> QED BY <1>7, <2>2, <3>1, <3>3 DEF AppliesTo
  <2>4. Ids(store'.cues) = Ids(store.cues)
    BY <1>7, <2>2 DEF AppliesTo
  <2> QED BY <1>1, <1>5, <2>3, <2>4
<1> QED BY <1>2, <1>6, <1>7

\* A step that starts a run, or ends it, asks for nothing.
LEMMA RunStarts ==
  ASSUME Inv, WorkInv, Translates \/ ReadStale \/ BatchReturns
  PROVE  /\ batch'.asked = {} /\ batch'.pc # "running" /\ store' = store
         /\ batch.asked # {} => batch' = Idle
<1>1. store' = store
  BY DEF Translates, Lists, TranslateSegment, ReadStale, BatchReturns
<1>2. Idle.asked = {} /\ Idle.pc # "running"
  BY DEF Idle
<1>3. CASE Translates
  <2>1. batch.pc = "idle"
    BY <1>3 DEF Translates, Lists, TranslateSegment
  <2>2. batch.asked = {}
    BY <2>1 DEF WorkInv
  <2>3. batch'.asked = {} /\ batch'.pc # "running"
    <3>1. CASE \E pending \in BOOLEAN : Lists(pending)
      <4>1. PICK pending \in BOOLEAN :
              batch' = [Idle EXCEPT !.pc = "listed", !.pending = pending,
                                    !.cues = store.cues, !.targets = Ids(store.cues)]
        BY <3>1, Zenon DEF Lists
      <4>2. batch' \in [pc : {"listed"}, pending : {pending}, cues : {store.cues},
                        targets : {Ids(store.cues)}, revs : {<<>>}, waiting : {{}}, asked : {{}},
                        failed : {FALSE}, touched : {<<>>}]
        BY <4>1, Zenon DEF Idle
      <4> QED BY <4>2
    <3>2. CASE \E id \in Ids(store.cues) : TranslateSegment(id)
      <4>1. PICK id : batch' = [Idle EXCEPT !.pc = "planned", !.cues = store.cues, !.targets = {id}]
        BY <3>2, Zenon DEF TranslateSegment
      <4>2. batch' \in [pc : {"planned"}, pending : {FALSE}, cues : {store.cues}, targets : {{id}},
                        revs : {<<>>}, waiting : {{}}, asked : {{}}, failed : {FALSE},
                        touched : {<<>>}]
        BY <4>1, Zenon DEF Idle
      <4> QED BY <4>2
    <3> QED BY <1>3, <3>1, <3>2 DEF Translates
  <2> QED BY <1>1, <2>2, <2>3
<1>4. CASE ReadStale
  <2>1. PICK targets : batch' = Idle \/ batch' = [batch EXCEPT !.pc = "planned", !.targets = targets]
    BY <1>4, Zenon DEF ReadStale
  <2>2. batch.asked = {} /\ BatchInv
    BY <1>4 DEF ReadStale, WorkInv, Inv
  <2>3. CASE batch' = [batch EXCEPT !.pc = "planned", !.targets = targets]
    <3>1. batch' \in [pc : {"planned"}, pending : {batch.pending}, cues : {batch.cues},
                      targets : {targets}, revs : {batch.revs}, waiting : {batch.waiting},
                      asked : {batch.asked}, failed : {batch.failed}, touched : {batch.touched}]
      BY <2>2, <2>3, Zenon DEF BatchInv
    <3>2. batch'.asked = batch.asked /\ batch'.pc = "planned"
      BY <3>1
    <3> QED BY <1>1, <2>2, <3>2
  <2> QED BY <1>1, <1>2, <2>1, <2>2, <2>3
<1>5. CASE BatchReturns
  BY <1>1, <1>2, <1>5 DEF BatchReturns
<1> QED BY <1>3, <1>4, <1>5

\* A run that reads the revisions is behind none of them.
LEMMA RevisionsAged ==
  ASSUME Inv, WorkInv, ReadRevisions
  PROVE  WorkInv' /\ batch.asked = {}
<1> DEFINE revs == [i \in DOMAIN store.prov |->
                      [src |-> store.prov[i].srcRev, tr |-> store.prov[i].trRev]]
           touched == [i \in DOMAIN store.prov |-> FALSE]
<1>1. batch.asked = {} /\ BatchInv /\ store' = store /\ Sound(store)
  BY DEF ReadRevisions, WorkInv, Inv, StoreInv, Intact, Good
<1>2. PICK plan : batch' = [batch EXCEPT !.pc = "running", !.waiting = plan, !.revs = revs,
                                         !.touched = touched]
  BY Zenon DEF ReadRevisions
<1>3. /\ DOMAIN touched = Ids(store.cues)
      /\ \A id \in Ids(store.cues) :
           ~touched[id] /\ revs[id].src = store.prov[id].srcRev /\ revs[id].tr = store.prov[id].trRev
  BY <1>1, SoundParts
<1> HIDE DEF revs, touched
<1>4. batch' \in [pc : {"running"}, pending : {batch.pending}, cues : {batch.cues},
                  targets : {batch.targets}, revs : {revs}, waiting : {plan},
                  asked : {batch.asked}, failed : {batch.failed}, touched : {touched}]
  BY <1>1, <1>2, Zenon DEF BatchInv
<1>5. batch'.revs = revs /\ batch'.touched = touched /\ batch'.asked = batch.asked
      /\ batch'.pc = "running"
  BY <1>4
<1>6. \A id \in Ids(store.cues) : store.prov[id].srcRev \in Nat /\ store.prov[id].trRev \in Nat
  BY <1>1, SoundParts, Parts
<1>7. Aged(batch', store')
  BY <1>1, <1>3, <1>5, <1>6 DEF Aged, Has
<1> QED BY <1>1, <1>5, <1>7 DEF WorkInv

\* A step of the run that asks, or learns of an end.
LEMMA RunGoesOn ==
  ASSUME Inv, WorkInv, Dispatch \/ ProviderFails \/ JoinsFailed
  PROVE  batch.pc = "running" /\ Continues(batch') /\ store' = store
<1>1. store' = store /\ BatchInv
  BY DEF Dispatch, ProviderFails, JoinsFailed, Inv
<1>2. batch.pc = "running"
  BY DEF Dispatch, ProviderFails, JoinsFailed, Open, WorkInv
<1>3. CASE Dispatch
  <2> DEFINE g == First(batch.waiting)
             ask == [ids |-> g, retry |-> FALSE, broken |-> ~ (Ids(batch.cues) \subseteq DOMAIN batch.revs)]
             waiting == batch.waiting \ {g}
             asked == batch.asked \cup {ask}
             b == [batch EXCEPT !.waiting = waiting, !.asked = asked]
  <2>1. batch' = b
    BY <1>3, Zenon DEF Dispatch
  <2> HIDE DEF waiting, asked
  <2>2. Continues(b)
    BY <1>1, RunStays, Zenon
  <2> HIDE DEF b
  <2> QED BY <1>1, <1>2, <2>1, <2>2, Zenon
<1>4. CASE ProviderFails
  <2>1. PICK asked : batch' = [batch EXCEPT !.asked = asked]
    BY <1>4, Zenon DEF ProviderFails
  <2> DEFINE b == [batch EXCEPT !.asked = asked]
  <2>2. Continues(b) /\ batch' = b
    BY <1>1, <2>1, RunStays, Zenon
  <2> HIDE DEF b
  <2> QED BY <1>1, <1>2, <2>2, Zenon
<1>5. CASE JoinsFailed
  <2> DEFINE failed == TRUE
  <2>1. PICK ask \in batch.asked \ Open :
          batch' = [batch EXCEPT !.asked = batch.asked \ {ask}, !.failed = failed]
    BY <1>5 DEF JoinsFailed
  <2> DEFINE asked == batch.asked \ {ask}
             b == [batch EXCEPT !.asked = asked, !.failed = failed]
  <2> HIDE DEF failed
  <2>2. Continues(b) /\ batch' = b
    BY <1>1, <2>1, RunStays, Zenon
  <2> HIDE DEF b
  <2> QED BY <1>1, <1>2, <2>2, Zenon
<1> QED BY <1>3, <1>4, <1>5

\* Every step keeps the revisions of what the user changed ahead, and no late answer
\* is written over it.
LEMMA WorkStep == Inv /\ WorkInv /\ [Next]_vars => WorkInv' /\ Spared
<1> SUFFICES ASSUME Inv, WorkInv, [Next]_vars PROVE WorkInv' /\ Spared
  OBVIOUS
<1>1. Inv' /\ Grown(store, store')
  BY NextKeeps DEF StepKeeps
<1>2. Sound(store')
  BY <1>1 DEF Inv, StoreInv, Intact, Good
\* The user writes.
<1>3. CASE UserWrites(store')
  BY <1>1, <1>2, <1>3, UserAges DEF Spared
\* Nothing of the run moves.
<1>4. CASE batch' = batch /\ Ids(store.cues) \subseteq Ids(store'.cues)
  <2>1. Continues(batch')
    BY <1>4 DEF Continues
  <2>2. batch.pc = "running" => Aged(batch', store')
    BY <1>1, <1>2, <1>4, <2>1, AgedStays
  <2> QED BY <1>4, <2>2 DEF WorkInv, Spared
\* Nothing of the tables moves, and the run goes on.
<1>5. CASE batch.pc = "running" /\ Continues(batch') /\ store' = store
  <2>1. Aged(batch', store') /\ Aged(batch, store)
    BY <1>1, <1>2, <1>5, AgedStays DEF WorkInv
  <2>2. WorkInv'
    BY <1>5, <2>1 DEF WorkInv, Continues
  <2> QED BY <1>5, <2>1, <2>2 DEF Spared, Aged
<1>6. CASE Answers
  <2>1. PICK ask \in Open : \E empty \in SUBSET ask.ids : \E ctx \in {{}, Context(ask.ids)} :
          Answer(ask, ctx, empty)
    BY <1>6 DEF Answers
  <2>2. /\ batch.pc = "running" /\ Continues(batch') /\ Ids(store'.cues) = Ids(store.cues)
        /\ \A id \in DOMAIN batch.touched : batch.touched[id] => CueOf(store', id) = CueOf(store, id)
    BY <2>1, AnswerSpares
  <2>3. Aged(batch', store') /\ Aged(batch, store)
    BY <1>1, <1>2, <2>2, AgedStays DEF WorkInv
  <2>4. WorkInv'
    BY <2>2, <2>3 DEF WorkInv, Continues
  <2> QED BY <2>2, <2>3, <2>4 DEF Spared, Aged, Has
<1>7. CASE Translates \/ ReadStale \/ BatchReturns
  <2>1. /\ batch'.asked = {} /\ batch'.pc # "running"
        /\ batch.asked # {} => batch' = Idle
    BY <1>7, RunStarts
  <2> QED BY <2>1 DEF WorkInv, Spared
<1>8. CASE ReadRevisions
  BY <1>8, RevisionsAged DEF Spared
<1>9. CASE User
  <2>1. CASE OpenDetail
    BY <1>4, <2>1 DEF OpenDetail
  <2>2. CASE ~OpenDetail
    <3>1. \E s : UserWrites(s)
      BY <1>9, <2>2 DEF User, Saves, UndoesText, Removes, Inserts, MovesTime, Cuts, Joins, SaveText,
         UndoText, RemoveBlock, InsertBlock, SaveTiming, Cut, Join, AdoptCandidate, UndoStructure,
         Recorded
    <3>2. UserWrites(store')
      BY <3>1 DEF UserWrites, Writes
    <3> QED BY <1>3, <3>2
  <2> QED BY <2>1, <2>2
<1>10. CASE SyncSnapshot \/ RecoverEvidence
  BY <1>4, <1>10, RefreshStays
<1>11. CASE EvictOldest \/ ExportLists \/ ExportChecks \/ UNCHANGED vars
  BY <1>4, <1>11 DEF EvictOldest, ExportLists, ExportChecks, vars
<1>12. CASE Dispatch \/ ProviderFails \/ JoinsFailed
  BY <1>5, <1>12, RunGoesOn
<1> QED BY <1>6, <1>7, <1>8, <1>9, <1>10, <1>11, <1>12 DEF Next, Translation

\* A late answer never replaces what the user changed after the run read the revisions,
\* for every transcript, candidate and bound, and whatever was undone in between.
THEOREM UserWorkIsKept == Spec => KeepsUserWork
<1>1. Init => WorkInv
  BY DEF Init, WorkInv, Idle
<1>2. Inv /\ [Next]_vars => Inv'
  BY NextKeeps DEF StepKeeps
<1>3. Inv /\ WorkInv /\ [Next]_vars => WorkInv'
  BY WorkStep
<1>4. Inv /\ WorkInv /\ [Next]_vars => Spared
  BY WorkStep
<1> QED BY <1>1, <1>2, <1>3, <1>4, InitInv, PTL DEF Spec, KeepsUserWork, Spared

-----------------------------------------------------------------------------
(* The history keeps the promise of UndoPromise *)

\* What the promise sees of the history: the documents, and whether an undo is possible.
Documents(r) == [before |-> r.before.cues, after |-> r.after.cues]
Stack(h) == [i \in DOMAIN h |-> Documents(h[i])]
Live(h, s) == h # <<>> /\ s = Last(h).after

\* Lists with the same elements are the same.
LEMMA SameList ==
  ASSUME NEW a, NEW b, List(a), List(b), Len(a) = Len(b), \A i \in 1..Len(a) : a[i] = b[i]
  PROVE  a = b
BY DEF List

\* The stack follows the history when an end of it is added to or taken off.
LEMMA StackEnds ==
  ASSUME NEW h, List(h), NEW r
  PROVE  /\ List(Stack(h)) /\ Len(Stack(h)) = Len(h) /\ DOMAIN Stack(h) = 1..Len(h)
         /\ \A i \in 1..Len(h) : Stack(h)[i] = Documents(h[i])
         /\ Stack(h) = <<>> <=> h = <<>>
         /\ Stack(Append(h, r)) = Append(Stack(h), Documents(r))
         /\ h # <<>> => /\ Last(Stack(h)) = Documents(Last(h))
                        /\ Stack(Tail(h)) = Tail(Stack(h))
                        /\ Stack(Front(h)) = Front(Stack(h))
<1>1. \A l : List(l) => /\ List(Stack(l)) /\ Len(Stack(l)) = Len(l) /\ DOMAIN Stack(l) = 1..Len(l)
                        /\ \A i \in 1..Len(l) : Stack(l)[i] = Documents(l[i])
  <2> SUFFICES ASSUME NEW l, List(l)
               PROVE  /\ List(Stack(l)) /\ Len(Stack(l)) = Len(l) /\ DOMAIN Stack(l) = 1..Len(l)
                      /\ \A i \in 1..Len(l) : Stack(l)[i] = Documents(l[i])
    OBVIOUS
  <2>1. DOMAIN l = 1..Len(l) /\ Len(l) \in Nat
    BY ListSeq DEF List
  <2>2. /\ DOMAIN Stack(l) = 1..Len(l) /\ \A i \in 1..Len(l) : Stack(l)[i] = Documents(l[i])
        /\ Stack(l) = [i \in 1..Len(l) |-> Stack(l)[i]]
    BY <2>1 DEF Stack
  <2> QED BY <2>1, <2>2, MapList
<1> HIDE DEF Stack
<1> DEFINE d == Stack(h)
           x == Documents(r)
<1>2. List(d) /\ Len(d) = Len(h) /\ DOMAIN d = 1..Len(h) /\ DOMAIN h = 1..Len(h) /\ Len(h) \in Nat
      /\ \A i \in 1..Len(h) : d[i] = Documents(h[i])
  BY <1>1, ListSeq DEF List
<1> HIDE DEF d, x
<1>3. d = <<>> <=> h = <<>>
  <2>1. h = <<>> <=> Len(h) = 0
    BY DEF List
  <2>2. d = <<>> <=> Len(d) = 0
    BY <1>2 DEF List
  <2> QED BY <1>2, <2>1, <2>2
<1>4. Stack(Append(h, r)) = Append(d, x)
  <2> DEFINE a == Append(h, r)
             b == Append(d, x)
  <2>1. /\ List(a) /\ Len(a) = Len(h) + 1 /\ a[Len(h) + 1] = r
        /\ \A i \in DOMAIN h : a[i] = h[i]
    BY ListEnds
  <2>2. /\ List(b) /\ Len(b) = Len(d) + 1 /\ b[Len(d) + 1] = x
        /\ \A i \in DOMAIN d : b[i] = d[i]
    BY <1>2, ListEnds
  <2> HIDE DEF a, b
  <2>3. List(Stack(a)) /\ Len(Stack(a)) = Len(a) /\ \A i \in 1..Len(a) : Stack(a)[i] = Documents(a[i])
    BY <1>1, <2>1
  <2>4. \A i \in 1..Len(a) : Stack(a)[i] = b[i]
    BY <1>2, <2>1, <2>2, <2>3 DEF x
  <2>5. Stack(a) = b
    BY <1>2, <2>1, <2>2, <2>3, <2>4, SameList
  <2> QED BY <2>5 DEF a, b
<1>5. ASSUME h # <<>>
      PROVE  Last(d) = Documents(Last(h)) /\ Stack(Tail(h)) = Tail(d) /\ Stack(Front(h)) = Front(d)
  <2> DEFINE ht == Tail(h)
             hf == Front(h)
             dt == Tail(d)
             df == Front(d)
  <2>1. /\ Len(h) \in 1..Len(h) /\ Last(h) = h[Len(h)]
        /\ List(ht) /\ Len(ht) = Len(h) - 1
        /\ \A i \in DOMAIN ht : i + 1 \in DOMAIN h /\ ht[i] = h[i + 1]
        /\ List(hf) /\ Len(hf) = Len(h) - 1
        /\ \A i \in DOMAIN hf : i \in DOMAIN h /\ hf[i] = h[i]
    BY <1>5, ListEnds
  <2>2. /\ Last(d) = d[Len(d)]
        /\ List(dt) /\ Len(dt) = Len(d) - 1
        /\ \A i \in DOMAIN dt : i + 1 \in DOMAIN d /\ dt[i] = d[i + 1]
        /\ List(df) /\ Len(df) = Len(d) - 1
        /\ \A i \in DOMAIN df : i \in DOMAIN d /\ df[i] = d[i]
    BY <1>2, <1>3, <1>5, ListEnds
  <2> HIDE DEF ht, hf, dt, df
  <2>3. /\ DOMAIN ht = 1..Len(ht) /\ DOMAIN hf = 1..Len(hf) /\ DOMAIN dt = 1..Len(dt)
        /\ DOMAIN df = 1..Len(df)
    BY <2>1, <2>2, ListSeq
  <2>4. Last(d) = Documents(Last(h))
    BY <1>2, <2>1, <2>2
  <2>5. Stack(ht) = dt
    <3>1. /\ List(Stack(ht)) /\ Len(Stack(ht)) = Len(ht)
          /\ \A i \in 1..Len(ht) : Stack(ht)[i] = Documents(ht[i])
      BY <1>1, <2>1
    <3>2. \A i \in 1..Len(ht) : Documents(ht[i]) = dt[i]
      BY <1>2, <2>1, <2>2, <2>3
    <3> QED BY <1>2, <2>1, <2>2, <3>1, <3>2, SameList
  <2>6. Stack(hf) = df
    <3>1. /\ List(Stack(hf)) /\ Len(Stack(hf)) = Len(hf)
          /\ \A i \in 1..Len(hf) : Stack(hf)[i] = Documents(hf[i])
      BY <1>1, <2>1
    <3>2. \A i \in 1..Len(hf) : Documents(hf[i]) = df[i]
      BY <1>2, <2>1, <2>2, <2>3
    <3> QED BY <1>2, <2>1, <2>2, <3>1, <3>2, SameList
  <2> QED BY <2>4, <2>5, <2>6 DEF ht, hf, dt, df
<1> QED BY <1>2, <1>3, <1>4, <1>5 DEF d, x

\* A recorded edit extends a live stack and replaces one that is not.
LEMMA StackPush ==
  ASSUME NEW h, NEW s, NEW t, List(h)
  PROVE  LET edit == [before |-> s.cues, after |-> t.cues]
             full == IF Live(h, s) THEN Append(Stack(h), edit) ELSE <<edit>> IN
         Stack(Push(h, [before |-> s, after |-> t])) = IF Len(full) > Limit THEN Tail(full) ELSE full
<1> DEFINE r == [before |-> s, after |-> t]
           kept == IF h # <<>> /\ Last(h).after # s THEN <<>> ELSE h
           all == Append(kept, r)
           edit == [before |-> s.cues, after |-> t.cues]
           full == IF Live(h, s) THEN Append(Stack(h), edit) ELSE <<edit>>
<1>1. Documents(r) = edit /\ r.before = s
  BY DEF Documents
<1>2. Push(h, r) = IF Len(all) > Limit THEN Tail(all) ELSE all
  <2>1. r.before = s
    BY <1>1
  <2> HIDE DEF r
  <2> QED BY <2>1, Zenon DEF Push
<1>3. List(kept) /\ Append(<<>>, edit) = <<edit>>
  BY DEF List
<1> HIDE DEF r, edit
<1>4. Stack(all) = full /\ List(all) /\ Len(all) = Len(full) /\ all # <<>>
  <2>1. /\ List(all) /\ Len(all) = Len(kept) + 1 /\ all[Len(kept) + 1] = r
        /\ Stack(all) = Append(Stack(kept), edit)
    <3> HIDE DEF kept
    <3> QED BY <1>1, <1>3, ListEnds, StackEnds
  <2>2. Stack(kept) = IF Live(h, s) THEN Stack(h) ELSE <<>>
    <3>1. List(<<>>)
      BY DEF List
    <3>2. Stack(<<>>) = <<>>
      BY <3>1, StackEnds
    <3>3. kept = IF Live(h, s) THEN h ELSE <<>>
      BY Zenon DEF Live
    <3> HIDE DEF kept, Live
    <3> QED BY <3>2, <3>3
  <2>3. Stack(all) = full
    <3> HIDE DEF kept, all, Live
    <3> QED BY <1>3, <2>1, <2>2
  <2>4. Len(Stack(all)) = Len(all)
    <3> HIDE DEF all
    <3> QED BY <2>1, StackEnds
  <2>5. Len(all) # 0
    <3> HIDE DEF all
    <3> QED BY <1>3, <2>1 DEF List
  <2> QED BY <2>1, <2>3, <2>4, <2>5
<1> HIDE DEF all, full
<1>5. Stack(Push(h, r)) = IF Len(full) > Limit THEN Tail(full) ELSE full
  <2>1. CASE Len(all) > Limit
    <3>1. Stack(Tail(all)) = Tail(Stack(all))
      BY <1>4, StackEnds
    <3> QED BY <1>2, <1>4, <2>1, <3>1
  <2>2. CASE ~ (Len(all) > Limit)
    BY <1>2, <1>4, <2>2
  <2> QED BY <2>1, <2>2
<1> QED BY <1>5 DEF full, edit, r

\* An undo takes the newest edit off the stack.
LEMMA StackUndo ==
  ASSUME NEW h, NEW s, NEW t, NEW loose, Joined(h, s, loose), Live(h, s),
         t.rev \in Nat, t.cues = Last(h).before.cues
  PROVE  LET p == Rebased(Front(h), Last(h), t) IN
         /\ Stack(p) = Front(Stack(h))
         /\ Live(p, t) <=> Stack(p) # <<>>
<1> DEFINE p == Rebased(Front(h), Last(h), t)
           f == Front(h)
<1>1. h # <<>> /\ s = Last(h).after /\ List(h)
  BY DEF Live, Joined
<1>2. /\ Joined(p, t, loose)
      /\ \A i \in DOMAIN p : i \in DOMAIN h /\ p[i].before = h[i].before
      /\ Len(p) = Len(h) - 1 /\ (p # <<>> => Last(p).after = t)
      /\ \A i \in 1..(Len(h) - 2) : p[i] = h[i]
  BY <1>1, HistoryUndo
<1> HIDE DEF p
<1>3. List(p) /\ DOMAIN p = 1..Len(p) /\ Len(p) \in Nat
  BY <1>2, ListSeq DEF Joined, List
<1>4. /\ Len(h) \in 1..Len(h) /\ Last(h) = h[Len(h)]
      /\ List(f) /\ Len(f) = Len(h) - 1 /\ DOMAIN h = 1..Len(h)
      /\ \A i \in DOMAIN f : i \in DOMAIN h /\ f[i] = h[i]
  BY <1>1, ListEnds, ListSeq
<1> HIDE DEF f
<1>5. DOMAIN f = 1..Len(f)
  BY <1>4, ListSeq
<1>6. ASSUME NEW i \in 1..Len(p)
      PROVE  Documents(p[i]) = Documents(f[i])
  <2>1. p[i].before = h[i].before /\ f[i] = h[i]
    BY <1>2, <1>3, <1>4, <1>5
  <2>2. p[i].after.cues = h[i].after.cues
    <3>1. CASE i < Len(p)
      BY <1>2, <1>3, <1>4, <3>1
    <3>2. CASE i = Len(p)
      <4>1. p # <<>> /\ Last(p) = p[Len(p)]
        <5>1. p # <<>>
          BY <1>3
        <5> QED BY <1>3, <5>1, ListEnds
      <4>2. p[i].after = t
        BY <1>2, <3>2, <4>1
      <4>3. h[i].after = h[Len(h)].before
        <5>1. i \in DOMAIN h /\ i + 1 = Len(h) /\ i + 1 \in DOMAIN h
          BY <1>2, <1>3, <1>4, <3>2
        <5> QED BY <5>1 DEF Joined
      <4> QED BY <1>4, <4>2, <4>3
    <3>3. i < Len(p) \/ i = Len(p)
      <4>1. \A n \in Nat : \A j \in 1..n : j < n \/ j = n
        OBVIOUS
      <4> QED BY <1>3, <4>1, Zenon
    <3> QED BY <3>1, <3>2, <3>3, Zenon
  <2> QED BY <2>1, <2>2 DEF Documents
<1>7. Stack(p) = Stack(f)
  <2>1. /\ List(Stack(p)) /\ Len(Stack(p)) = Len(p)
        /\ \A i \in 1..Len(p) : Stack(p)[i] = Documents(p[i])
    BY <1>3, StackEnds
  <2>2. /\ List(Stack(f)) /\ Len(Stack(f)) = Len(f)
        /\ \A i \in 1..Len(f) : Stack(f)[i] = Documents(f[i])
    BY <1>4, StackEnds
  <2>3. Len(f) = Len(p)
    BY <1>2, <1>4
  <2> QED BY <1>6, <2>1, <2>2, <2>3, SameList
<1>8. Stack(f) = Front(Stack(h))
  BY <1>1, StackEnds DEF f
<1>9. Live(p, t) <=> Stack(p) # <<>>
  <2>1. Stack(p) = <<>> <=> p = <<>>
    BY <1>3, StackEnds
  <2> QED BY <1>2, <2>1 DEF Live
<1> QED BY <1>7, <1>8, <1>9 DEF p

\* A step keeps the history, records an edit, undoes one, or gives the oldest up.
LEMMA HistoryMoves ==
  ASSUME [Next]_vars
  PROVE  \/ history' = history
         \/ history' = Push(history, [before |-> store, after |-> store'])
         \/ UndoStructure
         \/ EvictOldest
<1>1. ASSUME NEW s, Recorded(s)
      PROVE  history' = Push(history, [before |-> store, after |-> store'])
  BY <1>1 DEF Recorded, UserWrites, Writes
<1>2. CASE Saves \/ UndoesText \/ OpenDetail \/ SyncSnapshot \/ RecoverEvidence
  BY <1>2 DEF Saves, UndoesText, SaveText, UndoText, OpenDetail, SyncSnapshot, RecoverEvidence, editor
<1>3. CASE Removes \/ Inserts \/ MovesTime
  BY <1>1, <1>3, Zenon DEF Removes, Inserts, MovesTime, RemoveBlock, InsertBlock, SaveTiming
<1>4. CASE Cuts \/ Joins \/ AdoptCandidate
  BY <1>1, <1>4, Zenon DEF Cuts, Joins, Cut, Join, AdoptCandidate
<1>5. CASE Translates \/ ExportLists \/ ExportChecks
  BY <1>5 DEF Translates, Lists, TranslateSegment, ExportLists, ExportChecks, editor
<1>6. CASE Translation
  BY <1>6 DEF Translation, ReadStale, ReadRevisions, Dispatch, Answers, Answer, ProviderFails,
     JoinsFailed, BatchReturns, editor
<1>7. CASE UNCHANGED vars
  BY <1>7 DEF vars
<1> QED BY <1>2, <1>3, <1>4, <1>5, <1>6, <1>7 DEF Next, User

\* Every step of the workspace is one that the promise allows.
LEMMA PromiseKept ==
  ASSUME Inv, Inv', [Next]_vars
  PROVE  [Promise!Next]_Promise!vars
<1>1. /\ Joined(history, store, unlinked) /\ List(history) /\ List(history')
      /\ Good(store, unlinked) /\ store.rev \in Nat /\ store'.rev \in Nat
  BY SoundParts DEF Inv, HistoryInv, Joined, StoreInv, Intact, Good
<1>2. CASE history' = history
  <2>1. Stack(history') = Stack(history)
    BY <1>2
  <2>2. Live(history', store') =>
          Stack(history) # <<>> /\ store'.cues = Last(Stack(history)).after
    <3>1. ASSUME Live(history', store')
          PROVE  Stack(history) # <<>> /\ store'.cues = Last(Stack(history)).after
      <4>1. history # <<>> /\ store' = Last(history).after
        BY <1>2, <3>1 DEF Live
      <4>2. Stack(history) # <<>> /\ Last(Stack(history)) = Documents(Last(history))
        BY <1>1, <4>1, StackEnds
      <4> QED BY <4>1, <4>2 DEF Documents
    <3> QED BY <3>1
  <2>3. Promise!Write
    <3> DEFINE stack == Stack(history)
               live == Live(history', store')
    <3>1. stack' = stack /\ (live => stack # <<>> /\ store'.cues = Last(stack).after)
      BY <2>1, <2>2
    <3>2. Promise!Write <=> stack' = stack /\ (live => stack # <<>> /\ store'.cues = Last(stack).after)
      BY Zenon DEF Promise!Write, Promise!Last, Last, Stack, Documents, Live
    <3> QED BY <3>1, <3>2
  <2> QED BY <2>3, Zenon DEF Promise!Next
<1>3. CASE history' = Push(history, [before |-> store, after |-> store'])
  <2> DEFINE edit == [before |-> store.cues, after |-> store'.cues]
             full == IF Live(history, store) THEN Append(Stack(history), edit) ELSE <<edit>>
  <2>1. Stack(history') = IF Len(full) > Limit THEN Tail(full) ELSE full
    <3> HIDE DEF Live
    <3> QED BY <1>1, <1>3, StackPush, Zenon
  <2>2. Live(history', store')
    <3>1. history' # <<>> /\ Last(history') = [before |-> store, after |-> store']
      BY <1>1, <1>3, HistoryPush
    <3> QED BY <3>1 DEF Live
  <2>3. Promise!Record
    BY <2>1, <2>2, Zenon DEF Promise!Record, Stack, Documents, Live
  <2> QED BY <2>3, Zenon DEF Promise!Next
<1>4. CASE UndoStructure
  <2> DEFINE undone == Last(history)
  <2>1. /\ history # <<>> /\ store = undone.after
        /\ store' = UndoRecorded(store, undone.before)
        /\ history' = Rebased(Front(history), undone, store')
    BY <1>4, Zenon DEF UndoStructure, UserWrites, Writes
  <2>2. Good(undone.before, unlinked)
    <3>1. Len(history) \in DOMAIN history /\ undone = history[Len(history)]
      BY <1>1, <2>1, ListEnds, ListSeq
    <3> QED BY <1>1, <2>1, <3>1 DEF Joined
  <2>3. store'.cues = undone.before.cues
    BY <1>1, <2>1, <2>2, UndoKeeps
  <2>4. Live(history, store)
    BY <2>1 DEF Live
  <2>5. /\ Stack(history') = Front(Stack(history))
        /\ Live(history', store') <=> Stack(history') # <<>>
    BY <1>1, <2>1, <2>3, <2>4, StackUndo
  <2>6. Last(Stack(history)) = Documents(undone)
    BY <1>1, <2>1, StackEnds
  <2>7. store.cues = Last(Stack(history)).after /\ store'.cues = Last(Stack(history)).before
    BY <2>1, <2>3, <2>6 DEF Documents
  <2>9. Live(history', store') = (Stack(history') # <<>>)
    BY <2>5 DEF Live
  <2>8. Promise!Undo
    BY <2>9, <2>4, <2>5, <2>7, Zenon DEF Promise!Undo, Promise!Last, Promise!Front, Last, Front, Stack, Documents, Live
  <2> QED BY <2>8, Zenon DEF Promise!Next
<1>5. CASE EvictOldest
  <2>1. history # <<>> /\ history' = Tail(history) /\ store' = store
    BY <1>5 DEF EvictOldest
  <2>2. Stack(history) # <<>> /\ Stack(history') = Tail(Stack(history))
    BY <1>1, <2>1, StackEnds
  <2>3. Stack(history') # <<>> <=> history' # <<>>
    BY <1>1, StackEnds
  <2>4. history' # <<>> => Last(history') = Last(history)
    <3>1. /\ Len(history) \in Nat /\ Last(history) = history[Len(history)]
          /\ Len(history') = Len(history) - 1
          /\ \A i \in DOMAIN history' : history'[i] = history[i + 1]
      BY <1>1, <2>1, ListEnds DEF List
    <3>2. ASSUME history' # <<>>
          PROVE  Last(history') = history'[Len(history')] /\ Len(history') \in DOMAIN history'
      BY <1>1, <3>2, ListEnds, ListSeq
    <3> QED BY <3>1, <3>2
  <2>5. Live(history', store') <=> Live(history, store) /\ Stack(history') # <<>>
    BY <2>1, <2>3, <2>4 DEF Live
  <2>6. Promise!Evict
    BY <2>1, <2>2, <2>5, Zenon DEF Promise!Evict, Stack, Documents, Live
  <2> QED BY <2>6, Zenon DEF Promise!Next
<1> QED BY <1>2, <1>3, <1>4, <1>5, HistoryMoves

\* The undo of structure edits keeps the promise of UndoPromise: it returns exactly the
\* document before the newest recorded edit, and only from the document that edit left,
\* whatever is saved, translated, refreshed, undone or given up for memory in between.
THEOREM UndoIsHonest == Spec => UndoHonest
<1>1. Inv /\ [Next]_vars => Inv'
  BY NextKeeps DEF StepKeeps
<1>2. Init => Promise!Init
  <2>1. ASSUME Init PROVE Promise!Init
    <3>1. history = <<>>
      BY <2>1 DEF Init
    <3>2. List(<<>>)
      BY DEF List
    <3>3. Stack(history) = <<>> /\ ~Live(history, store)
      BY <3>1, <3>2, StackEnds DEF Live
    <3> QED BY <3>3, Zenon DEF Promise!Init, Stack, Documents, Live
  <2> QED BY <2>1
<1>3. Inv /\ Inv' /\ [Next]_vars => [Promise!Next]_Promise!vars
  BY PromiseKept
<1> QED BY <1>1, <1>2, <1>3, InitInv, PTL DEF Spec, UndoHonest, Promise!Spec
=============================================================================
