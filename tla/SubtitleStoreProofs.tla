------------------------ MODULE SubtitleStoreProofs ------------------------
(***************************************************************************)
(* What the transactions of SubtitleStore do to the tables, cue by cue,    *)
(* for tables of any length: every transaction keeps the tables sound, no  *)
(* machine translation is left unflagged when its source or a context it   *)
(* was made from moves, and every revision grows with what it counts.      *)
(***************************************************************************)
EXTENDS SubtitleStore, SequenceTheorems, FiniteSetTheorems, TLAPS

-----------------------------------------------------------------------------
(* Lists of cues *)

List(s) == Len(s) \in Nat /\ s = [i \in 1..Len(s) |-> s[i]]

\* A cue as the tables hold it.
Row(c) ==
    /\ c \in [id : {c.id}, start : Int, end : Int, src : {c.src}, tr : {c.tr},
              srcEdited : BOOLEAN, trEdited : BOOLEAN, stale : BOOLEAN, timeEdited : BOOLEAN]
    /\ c.start < c.end

Distinct(cues) == \A i, j \in DOMAIN cues : cues[i].id = cues[j].id => i = j
Rows(cues) == List(cues) /\ Distinct(cues) /\ \A i \in DOMAIN cues : Row(cues[i])

\* A list is a sequence of what it holds.
LEMMA ListSeq ==
  ASSUME NEW s, List(s)
  PROVE  s \in Seq(ToSet(s)) /\ DOMAIN s = 1..Len(s)
<1>1. DOMAIN s = 1..Len(s)
  BY DEF List
<1>2. s \in [1..Len(s) -> ToSet(s)]
  BY <1>1 DEF List, ToSet
<1> QED BY <1>1, <1>2, IsASeq DEF List

\* A sequence is a list.
LEMMA SeqList ==
  ASSUME NEW S, NEW s \in Seq(S)
  PROVE  List(s) /\ \A i \in DOMAIN s : s[i] \in S
BY DEF List

\* A function on the first numbers is a list.
LEMMA MapList ==
  ASSUME NEW n \in Nat, NEW s, DOMAIN s = 1..n, s = [i \in 1..n |-> s[i]]
  PROVE  List(s) /\ Len(s) = n
<1>1. s \in [1..n -> ToSet(s)]
  BY DEF ToSet
<1>2. s \in Seq(ToSet(s))
  BY <1>1, IsASeq
<1>3. Len(s) = n
  BY <1>2, LenProperties
<1> QED BY <1>3 DEF List

\* A cue is found under its identity, and only there.
LEMMA Found ==
  ASSUME NEW s, Rows(s.cues)
  PROVE  /\ \A i \in DOMAIN s.cues :
              /\ Has(s, s.cues[i].id) /\ CueOf(s, s.cues[i].id) = s.cues[i]
              /\ Position(s.cues, s.cues[i].id) = i
         /\ \A c \in ToSet(s.cues) : Has(s, c.id) /\ CueOf(s, c.id) = c /\ Row(c)
         /\ \A id \in Ids(s.cues) :
              /\ Has(s, id) /\ CueOf(s, id) \in ToSet(s.cues) /\ CueOf(s, id).id = id
              /\ Row(CueOf(s, id)) /\ Position(s.cues, id) \in DOMAIN s.cues
              /\ s.cues[Position(s.cues, id)].id = id
              /\ CueOf(s, id) = s.cues[Position(s.cues, id)]
<1>1. ASSUME NEW i \in DOMAIN s.cues
      PROVE  Has(s, s.cues[i].id) /\ Position(s.cues, s.cues[i].id) = i
  BY DEF Rows, Distinct, Has, Ids, ToSet, Position
<1>2. \A c \in ToSet(s.cues) : \E i \in DOMAIN s.cues : c = s.cues[i]
  BY DEF ToSet
<1>3. \A id \in Ids(s.cues) : \E i \in DOMAIN s.cues : s.cues[i].id = id
  BY <1>2 DEF Ids
<1>4. \A i \in DOMAIN s.cues : Row(s.cues[i])
  BY DEF Rows
<1> HIDE DEF Row
<1> QED BY <1>1, <1>2, <1>3, <1>4 DEF CueOf, ToSet

\* A list with the identities of another one has its cues at the same places.
LEMMA SameIds ==
  ASSUME NEW s, NEW t, Rows(s.cues), List(t.cues), Len(t.cues) = Len(s.cues),
         \A i \in DOMAIN s.cues : t.cues[i].id = s.cues[i].id
  PROVE  /\ Distinct(t.cues) /\ Ids(t.cues) = Ids(s.cues) /\ DOMAIN t.cues = DOMAIN s.cues
         /\ \A id \in Ids(s.cues) : Position(t.cues, id) = Position(s.cues, id)
<1>1. DOMAIN t.cues = DOMAIN s.cues
  BY ListSeq DEF Rows
<1>2. Distinct(t.cues)
  BY <1>1 DEF Rows, Distinct
<1>3. Ids(t.cues) = Ids(s.cues)
  BY <1>1 DEF Ids, ToSet
<1>4. \A id \in Ids(s.cues) : Position(t.cues, id) = Position(s.cues, id)
  BY <1>1, <1>2, Found DEF Distinct, Position
<1> QED BY <1>1, <1>2, <1>3, <1>4

-----------------------------------------------------------------------------
(* The tables *)

Lineages == [kind : {"legacy", "structural", "asr", "manual"}, timing : {"legacy", "model", "manual"},
             align : {"unknown", "stale", "current"}, srcRev : Nat, trRev : Nat, depStale : BOOLEAN]

\* Every cue has a lineage, and the edges are between cues that are there.
Sound(s) ==
    /\ s \in [rev : Nat, cues : {s.cues}, prov : [Ids(s.cues) -> Lineages],
              edges : SUBSET [target : Ids(s.cues), context : Ids(s.cues), rev : Nat]]
    /\ Rows(s.cues)

\* The fields of sound tables.
LEMMA SoundParts ==
  ASSUME NEW s, Sound(s)
  PROVE  /\ s.rev \in Nat /\ Rows(s.cues) /\ DOMAIN s.prov = Ids(s.cues)
         /\ \A id \in Ids(s.cues) : s.prov[id] \in Lineages
         /\ \A e \in s.edges : e \in [target : Ids(s.cues), context : Ids(s.cues), rev : Nat]
BY DEF Sound

\* The fields of a lineage and of an edge.
LEMMA Parts ==
  /\ \A p \in Lineages : p.srcRev \in Nat /\ p.trRev \in Nat /\ p.depStale \in BOOLEAN
  /\ \A S : \A e \in [target : S, context : S, rev : Nat] :
       e.target \in S /\ e.context \in S /\ e.rev \in Nat
BY DEF Lineages

-----------------------------------------------------------------------------
(* Updates in place *)

Traced(old, new) == old.src # new.src \/ Retimed(old, new)
Hit(s, old, new) == IF Traced(old, new) THEN Consumers(s.edges, {new.id}) ELSE {}

\* A lineage whose translation is replaced or loses a context.
LEMMA RelinedLines ==
  ASSUME NEW m \in Lineages, NEW replaced \in BOOLEAN, NEW moved \in BOOLEAN
  PROVE  LET p == Relined(m, replaced, moved) IN
         /\ p \in Lineages /\ p.srcRev = m.srcRev
         /\ p.trRev = (IF replaced THEN m.trRev + 1 ELSE m.trRev)
         /\ p.depStale = ((m.depStale \/ moved) /\ ~replaced)
<1>1. (IF replaced THEN m.trRev + 1 ELSE m.trRev) \in Nat
  BY DEF Lineages
<1>2. ((m.depStale \/ moved) /\ ~replaced) \in BOOLEAN
  OBVIOUS
<1> QED BY <1>1, <1>2, Zenon DEF Relined, Lineages

\* A lineage whose text or times are typed over.
LEMMA MarkedLines ==
  ASSUME NEW m \in Lineages, NEW old, NEW new
  PROVE  LET p == Marked(m, old, new) IN
         /\ p \in Lineages
         /\ p.srcRev = (IF Traced(old, new) THEN m.srcRev + 1 ELSE m.srcRev)
         /\ p.trRev = m.trRev /\ p.depStale = m.depStale
<1>1. \A n \in Nat : n + 1 \in Nat
  OBVIOUS
<1>2. Marked(m, old, new) \in Lineages
  BY <1>1, Zenon DEF Lineages, Marked
<1>3. LET p == Marked(m, old, new) IN
      /\ p.srcRev = (IF Traced(old, new) THEN m.srcRev + 1 ELSE m.srcRev)
      /\ p.trRev = m.trRev /\ p.depStale = m.depStale
  BY Zenon DEF Lineages, Marked, Traced
<1> QED BY <1>2, <1>3, Zenon

\* The cues after an update of one of them.
LEMMA UpdatedCues ==
  ASSUME NEW s, NEW new, Rows(s.cues), Row(new), NEW t,
         t.cues = [i \in DOMAIN s.cues |-> IF s.cues[i].id = new.id THEN new ELSE s.cues[i]]
  PROVE  /\ Ids(t.cues) = Ids(s.cues) /\ DOMAIN t.cues = DOMAIN s.cues /\ Rows(t.cues)
         /\ \A i \in DOMAIN s.cues : t.cues[i].id = s.cues[i].id
         /\ \A id \in Ids(s.cues) : CueOf(t, id) = IF id = new.id THEN new ELSE CueOf(s, id)
<1>2. List(s.cues) /\ DOMAIN s.cues = 1..Len(s.cues)
  BY ListSeq DEF Rows
<1>3. List(t.cues) /\ Len(t.cues) = Len(s.cues)
  BY <1>2, MapList DEF List
<1>4. \A i \in DOMAIN s.cues : t.cues[i].id = s.cues[i].id
  OBVIOUS
<1>5. /\ Distinct(t.cues) /\ Ids(t.cues) = Ids(s.cues) /\ DOMAIN t.cues = DOMAIN s.cues
      /\ \A id \in Ids(s.cues) : Position(t.cues, id) = Position(s.cues, id)
  BY <1>3, <1>4, SameIds
<1>6. Rows(t.cues)
  BY <1>3, <1>5 DEF Rows
<1>7. \A id \in Ids(s.cues) : CueOf(t, id) = IF id = new.id THEN new ELSE CueOf(s, id)
  BY <1>5, Found DEF CueOf
<1> QED BY <1>4, <1>5, <1>6, <1>7

\* What an update of one cue does to the tables.
UpdatesTo(s, old, new, t) ==
    /\ Ids(t.cues) = Ids(s.cues) /\ DOMAIN t.cues = DOMAIN s.cues
    /\ \A i \in DOMAIN s.cues : t.cues[i].id = s.cues[i].id
    /\ \A id \in Ids(s.cues) : CueOf(t, id) = IF id = new.id THEN new ELSE CueOf(s, id)
    /\ \A id \in Ids(s.cues) :
         /\ t.prov[id].srcRev = IF id = new.id /\ Traced(old, new) THEN s.prov[id].srcRev + 1
                                ELSE s.prov[id].srcRev
         /\ t.prov[id].trRev = IF id = new.id /\ old.tr # new.tr THEN s.prov[id].trRev + 1
                               ELSE s.prov[id].trRev
         /\ t.prov[id].depStale = ((s.prov[id].depStale \/ id \in Hit(s, old, new))
                                     /\ ~ (id = new.id /\ old.tr # new.tr))
    /\ t.edges = IF old.tr # new.tr THEN {e \in s.edges : e.target # new.id} ELSE s.edges
    /\ t.rev = s.rev + (IF Traced(old, new) THEN 1 ELSE 0) + (IF old.tr # new.tr THEN 1 ELSE 0)

\* A write of one cue leaves the others, and marks what was made from the old one.
LEMMA UpdateRowDoes ==
  ASSUME NEW s, NEW new, Sound(s), Row(new), Has(s, new.id)
  PROVE  Sound(UpdateRow(s, new)) /\ UpdatesTo(s, CueOf(s, new.id), new, UpdateRow(s, new))
<1> DEFINE old == CueOf(s, new.id)
           t == UpdateRow(s, new)
           prov == [i \in DOMAIN s.prov |->
                      Relined(IF i = new.id THEN Marked(s.prov[i], old, new) ELSE s.prov[i],
                              i = new.id /\ old.tr # new.tr, i \in Hit(s, old, new))]
<1>1. /\ t.cues = [i \in DOMAIN s.cues |-> IF s.cues[i].id = new.id THEN new ELSE s.cues[i]]
      /\ t.rev = s.rev + (IF Traced(old, new) THEN 1 ELSE 0) + (IF old.tr # new.tr THEN 1 ELSE 0)
      /\ t.edges = IF old.tr # new.tr THEN {e \in s.edges : e.target # new.id} ELSE s.edges
      /\ t.prov = prov
      /\ t = [rev |-> t.rev, cues |-> t.cues, prov |-> t.prov, edges |-> t.edges]
  BY Zenon DEF UpdateRow, Traced, Hit
<1> HIDE DEF t, old
<1>2. s.rev \in Nat /\ Rows(s.cues) /\ DOMAIN s.prov = Ids(s.cues)
  BY SoundParts
<1>3. /\ Ids(t.cues) = Ids(s.cues) /\ DOMAIN t.cues = DOMAIN s.cues /\ Rows(t.cues)
      /\ \A i \in DOMAIN s.cues : t.cues[i].id = s.cues[i].id
      /\ \A id \in Ids(s.cues) : CueOf(t, id) = IF id = new.id THEN new ELSE CueOf(s, id)
  BY <1>1, <1>2, UpdatedCues
<1>4. ASSUME NEW id \in Ids(s.cues)
      PROVE  /\ t.prov[id] \in Lineages
             /\ t.prov[id].srcRev = IF id = new.id /\ Traced(old, new) THEN s.prov[id].srcRev + 1
                                    ELSE s.prov[id].srcRev
             /\ t.prov[id].trRev = IF id = new.id /\ old.tr # new.tr THEN s.prov[id].trRev + 1
                                   ELSE s.prov[id].trRev
             /\ t.prov[id].depStale = ((s.prov[id].depStale \/ id \in Hit(s, old, new))
                                         /\ ~ (id = new.id /\ old.tr # new.tr))
  <2> DEFINE m == IF id = new.id THEN Marked(s.prov[id], old, new) ELSE s.prov[id]
  <2>1. s.prov[id] \in Lineages /\ id \in DOMAIN s.prov
    BY <1>2, SoundParts
  <2>2. /\ m \in Lineages /\ m.trRev = s.prov[id].trRev /\ m.depStale = s.prov[id].depStale
        /\ m.srcRev = IF id = new.id /\ Traced(old, new) THEN s.prov[id].srcRev + 1
                      ELSE s.prov[id].srcRev
    <3>1. CASE id = new.id
      BY <2>1, <3>1, MarkedLines
    <3>2. CASE id # new.id
      BY <2>1, <3>2
    <3> QED BY <3>1, <3>2
  <2>3. t.prov[id] = Relined(m, id = new.id /\ old.tr # new.tr, id \in Hit(s, old, new))
    BY <1>1, <2>1, Zenon
  <2> HIDE DEF m, prov
  <2>4. /\ t.prov[id] \in Lineages /\ t.prov[id].srcRev = m.srcRev
        /\ t.prov[id].trRev = IF id = new.id /\ old.tr # new.tr THEN m.trRev + 1 ELSE m.trRev
        /\ t.prov[id].depStale = ((m.depStale \/ id \in Hit(s, old, new))
                                    /\ ~ (id = new.id /\ old.tr # new.tr))
    <3> DEFINE replaced == id = new.id /\ old.tr # new.tr
               moved == id \in Hit(s, old, new)
    <3>1. replaced \in BOOLEAN /\ moved \in BOOLEAN
      OBVIOUS
    <3>2. t.prov[id] = Relined(m, replaced, moved)
      BY <2>3
    <3> HIDE DEF replaced, moved
    <3>3. LET p == Relined(m, replaced, moved) IN
          /\ p \in Lineages /\ p.srcRev = m.srcRev
          /\ p.trRev = (IF replaced THEN m.trRev + 1 ELSE m.trRev)
          /\ p.depStale = ((m.depStale \/ moved) /\ ~replaced)
      BY <2>2, <3>1, RelinedLines
    <3> QED BY <3>2, <3>3, Zenon DEF replaced, moved
  <2> QED BY <2>2, <2>4, Zenon
<1>5. Sound(t)
  <2>1. t.rev \in Nat
    BY <1>1, <1>2
  <2>2. t.edges \subseteq s.edges
    BY <1>1
  <2>3. t.prov \in [Ids(s.cues) -> Lineages]
    BY <1>1, <1>2, <1>4
  <2> HIDE DEF prov
  <2> QED BY <1>1, <1>3, <2>1, <2>2, <2>3 DEF Sound
<1> QED BY <1>1, <1>3, <1>4, <1>5 DEF UpdatesTo, t, old

-----------------------------------------------------------------------------
(* What the tables say of their translations *)

Machine(c) == c.tr # None /\ ~c.trEdited

\* Only a translation is stale; a machine translation that is not is made from
\* the text of its cue ...
OwnSource(c) ==
    /\ c.stale => c.tr # None
    /\ Machine(c) /\ ~c.stale => \A piece \in ToSet(c.tr) : piece.of = c.src

\* ... and was made with the contexts that are there, to which edges lead.
Linked(s, id, context) == \E e \in s.edges : e.target = id /\ e.context = context
Contexts(s, c) ==
    \A piece \in ToSet(c.tr) : \A used \in piece.ctx :
        /\ Has(s, used[1]) /\ CueOf(s, used[1]).src = used[2]
        /\ Linked(s, c.id, used[1])

Current(s, loose) ==
    \A id \in Ids(s.cues) :
        /\ OwnSource(CueOf(s, id))
        /\ Machine(CueOf(s, id)) /\ id \notin loose /\ ~s.prov[id].depStale => Contexts(s, CueOf(s, id))

\* No cue that would show the translation v shows of its cue is left unflagged
\* by an edge whose context has moved on.
Lag(s, v) ==
    \A e \in s.edges :
        e.target = v.id /\ e.rev < s.prov[e.context].srcRev /\ ~s.prov[v.id].depStale /\ Machine(v)
          => v.tr # CueOf(s, v.id).tr
Flagged(s) ==
    /\ \A e \in s.edges : e.rev <= s.prov[e.context].srcRev
    /\ \A id \in Ids(s.cues) : Lag(s, CueOf(s, id))

Good(s, loose) == Sound(s) /\ Current(s, loose) /\ Flagged(s)

\* An update keeps the tables good: when the translation stays, so does what it
\* was made from, and when the text or the times change, the consumers are told.
LEMMA UpdateKeeps ==
  ASSUME NEW s, NEW loose, NEW after, NEW new, NEW t, NEW old,
         Good(s, loose), Sound(t), Has(s, new.id), old = CueOf(s, new.id), UpdatesTo(s, old, new, t),
         OwnSource(new), Lag(s, new), loose \ {new.id} \subseteq after,
         Machine(new) /\ new.id \notin after =>
           new.tr = old.tr /\ Machine(old) /\ new.id \notin loose
  PROVE  Good(t, after) /\ \A v : v.id \in Ids(s.cues) /\ Lag(s, v) => Lag(t, v)
<1>1. /\ Rows(s.cues) /\ Rows(t.cues)
      /\ \A e \in s.edges : e.target \in Ids(s.cues) /\ e.context \in Ids(s.cues) /\ e.rev \in Nat
      /\ \A id \in Ids(s.cues) : s.prov[id].srcRev \in Nat /\ s.prov[id].depStale \in BOOLEAN
  BY SoundParts, Parts DEF Good
<1>2. new.id \in Ids(s.cues) /\ old.id = new.id
  BY <1>1, Found DEF Has
<1>3. \A e \in t.edges : e \in s.edges /\ (old.tr # new.tr => e.target # new.id)
  BY DEF UpdatesTo
<1>4. ASSUME NEW e \in t.edges, e.rev < t.prov[e.context].srcRev, ~t.prov[e.target].depStale
      PROVE  e.rev < s.prov[e.context].srcRev /\ ~s.prov[e.target].depStale
  <2>1. e.target \in Ids(s.cues) /\ e.context \in Ids(s.cues) /\ e \in s.edges
    BY <1>1, <1>3
  <2>2. ~s.prov[e.target].depStale /\ e.target \notin Hit(s, old, new)
    BY <1>3, <1>4, <2>1 DEF UpdatesTo
  <2>3. ~ (e.context = new.id /\ Traced(old, new))
    BY <2>1, <2>2 DEF Hit, Consumers
  <2>4. t.prov[e.context].srcRev = s.prov[e.context].srcRev
    BY <2>1, <2>3 DEF UpdatesTo
  <2> QED BY <1>4, <2>2, <2>4
<1>5. ASSUME NEW v, v.id \in Ids(s.cues), Lag(s, v)
      PROVE  Lag(t, v)
  <2> SUFFICES ASSUME NEW e \in t.edges, e.target = v.id, e.rev < t.prov[e.context].srcRev,
                      ~t.prov[v.id].depStale, Machine(v)
               PROVE  v.tr # CueOf(t, v.id).tr
    BY DEF Lag
  <2>1. v.tr # CueOf(s, v.id).tr
    BY <1>3, <1>4, <1>5 DEF Lag
  <2>2. CueOf(t, v.id).tr = CueOf(s, v.id).tr
    BY <1>3, <1>5 DEF UpdatesTo
  <2> QED BY <2>1, <2>2
<1>6. Flagged(t)
  <2>1. \A e \in t.edges : e.rev <= t.prov[e.context].srcRev
    BY <1>1, <1>3 DEF UpdatesTo, Good, Flagged
  <2>2. ASSUME NEW id \in Ids(s.cues)
        PROVE  Lag(t, CueOf(t, id))
    <3>1. CueOf(s, id).id = id /\ Lag(s, CueOf(s, id))
      BY <1>1, Found DEF Good, Flagged
    <3> QED BY <1>2, <1>5, <3>1 DEF UpdatesTo
  <2> QED BY <2>1, <2>2 DEF Flagged, UpdatesTo
<1>7. Current(t, after)
  <2> SUFFICES ASSUME NEW id \in Ids(s.cues)
               PROVE  /\ OwnSource(CueOf(t, id))
                      /\ Machine(CueOf(t, id)) /\ id \notin after /\ ~t.prov[id].depStale
                           => Contexts(t, CueOf(t, id))
    BY DEF Current, UpdatesTo
  <2>1. OwnSource(CueOf(t, id))
    BY DEF UpdatesTo, Good, Current
  <2>2. ASSUME Machine(CueOf(t, id)), id \notin after, ~t.prov[id].depStale
        PROVE  Contexts(t, CueOf(t, id))
    <3>1. /\ Machine(CueOf(s, id)) /\ id \notin loose
          /\ CueOf(t, id).tr = CueOf(s, id).tr /\ CueOf(t, id).id = id /\ CueOf(s, id).id = id
          /\ id = new.id => new.tr = old.tr
      BY <1>1, <1>2, <2>2, Found DEF UpdatesTo
    <3>2. ~s.prov[id].depStale /\ id \notin Hit(s, old, new)
      BY <1>1, <2>2, <3>1 DEF UpdatesTo
    <3>3. Contexts(s, CueOf(s, id))
      BY <3>1, <3>2 DEF Good, Current
    <3>4. ASSUME NEW piece \in ToSet(CueOf(t, id).tr), NEW used \in piece.ctx
          PROVE  Has(t, used[1]) /\ CueOf(t, used[1]).src = used[2] /\ Linked(t, id, used[1])
      <4>1. Has(s, used[1]) /\ CueOf(s, used[1]).src = used[2] /\ Linked(s, id, used[1])
        BY <3>1, <3>3, <3>4 DEF Contexts
      <4>2. PICK e \in s.edges : e.target = id /\ e.context = used[1]
        BY <4>1 DEF Linked
      <4>3. ~ (used[1] = new.id /\ Traced(old, new))
        BY <3>2, <4>2 DEF Hit, Consumers
      <4>4. CueOf(t, used[1]).src = used[2] /\ Has(t, used[1])
        BY <4>1, <4>3 DEF UpdatesTo, Traced, Has
      <4>5. e \in t.edges
        BY <3>1, <4>2 DEF UpdatesTo
      <4> QED BY <4>2, <4>4, <4>5 DEF Linked
    <3> QED BY <3>1, <3>4 DEF Contexts
  <2> QED BY <2>1, <2>2
<1> QED BY <1>5, <1>6, <1>7 DEF Good

-----------------------------------------------------------------------------
(* The stable sort *)

\* The order of the sort is strict and total: places are told apart by ByTime, or
\* else by where they stand.
LEMMA Strict ==
  ASSUME NEW cues, NEW at, at \subseteq Int,
         \A i \in at : cues[i].start \in Int /\ cues[i].end \in Int
  PROVE  /\ \A i \in at : ~Precedes(cues, i, i)
         /\ \A i, j \in at : i # j => Precedes(cues, i, j) \/ Precedes(cues, j, i)
         /\ \A i, j, k \in at : Precedes(cues, i, j) /\ Precedes(cues, j, k) => Precedes(cues, i, k)
<1>1. \A i \in at : ~Precedes(cues, i, i)
  BY DEF Precedes, ByTime
<1>2. \A i, j \in at : i # j => Precedes(cues, i, j) \/ Precedes(cues, j, i)
  BY DEF Precedes, ByTime
<1>3. ASSUME NEW i \in at, NEW j \in at, NEW k \in at, Precedes(cues, i, j), Precedes(cues, j, k)
      PROVE  Precedes(cues, i, k)
  <2> DEFINE a == cues[i].start
             b == cues[j].start
             c == cues[k].start
             x == cues[i].end
             y == cues[j].end
             z == cues[k].end
  <2>1. a \in Int /\ b \in Int /\ c \in Int /\ x \in Int /\ y \in Int /\ z \in Int
        /\ i \in Int /\ j \in Int /\ k \in Int
    OBVIOUS
  <2>2. /\ (a < b \/ (a = b /\ x < y)) \/ (~ (b < a \/ (b = a /\ y < x)) /\ i < j)
        /\ (b < c \/ (b = c /\ y < z)) \/ (~ (c < b \/ (c = b /\ z < y)) /\ j < k)
    BY <1>3 DEF Precedes, ByTime
  <2> HIDE DEF a, b, c, x, y, z
  <2>3. (a < c \/ (a = c /\ x < z)) \/ (~ (c < a \/ (c = a /\ z < x)) /\ i < k)
    BY <2>1, <2>2
  <2> QED BY <2>3 DEF Precedes, ByTime, a, c, x, z
<1> QED BY <1>1, <1>2, <1>3

\* Every rank is taken by one place.
LEMMA Ranks ==
  ASSUME NEW cues, NEW at, at \subseteq Int, IsFiniteSet(at),
         \A i \in at : cues[i].start \in Int /\ cues[i].end \in Int
  PROVE  /\ Cardinality(at) \in Nat
         /\ \A i \in at : Rank(cues, at, i) \in 1..Cardinality(at)
         /\ \A i, j \in at : Rank(cues, at, i) = Rank(cues, at, j) => i = j
         /\ \A n \in 1..Cardinality(at) : \E i \in at : Rank(cues, at, i) = n
<1> DEFINE Before(i) == {j \in at : Precedes(cues, j, i)}
           n == Cardinality(at)
           rank == [i \in at |-> Rank(cues, at, i)]
<1>1. n \in Nat
  BY FS_CardinalityType
<1>2. ASSUME NEW i \in at
      PROVE  /\ IsFiniteSet(Before(i)) /\ Cardinality(Before(i)) \in Nat /\ Cardinality(Before(i)) < n
             /\ Rank(cues, at, i) = Cardinality(Before(i)) + 1
             /\ Rank(cues, at, i) \in 1..n
  <2>1. Before(i) \in SUBSET at /\ i \notin Before(i)
    BY Strict
  <2>2. Before(i) # at
    BY <2>1
  <2>3. IsFiniteSet(Before(i)) /\ Cardinality(Before(i)) <= n /\ Cardinality(Before(i)) # n
    BY <2>1, <2>2, FS_Subset
  <2>4. Cardinality(Before(i)) \in Nat
    BY <2>3, FS_CardinalityType
  <2>5. Rank(cues, at, i) = Cardinality(Before(i)) + 1
    BY DEF Rank
  <2> HIDE DEF Before, n
  <2> QED BY <1>1, <2>3, <2>4, <2>5
<1>3. ASSUME NEW i \in at, NEW j \in at, Precedes(cues, i, j)
      PROVE  Rank(cues, at, i) # Rank(cues, at, j)
  <2>1. Before(i) \in SUBSET Before(j) /\ i \in Before(j) /\ i \notin Before(i)
    BY <1>3, Strict
  <2>2. Before(i) # Before(j)
    BY <2>1
  <2>3. Cardinality(Before(i)) # Cardinality(Before(j))
    BY <1>2, <2>1, <2>2, FS_Subset
  <2> QED BY <1>2, <2>3
<1>4. \A i, j \in at : Rank(cues, at, i) = Rank(cues, at, j) => i = j
  BY <1>3, Strict
<1>5. \A i \in at : Rank(cues, at, i) \in 1..n
  BY <1>1, <1>2
<1>6. rank \in Injection(at, 1..n)
  BY <1>4, <1>5 DEF Injection, IsInjective
<1>7. IsFiniteSet(1..n) /\ Cardinality(1..n) = n
  BY <1>1, FS_Interval
<1>8. rank \in Surjection(at, 1..n)
  BY <1>6, <1>7, FS_Injection
<1>9. \A m \in 1..n : \E i \in at : rank[i] = m
  BY <1>8 DEF Surjection
<1> QED BY <1>1, <1>4, <1>5, <1>9

\* What is sorted is what was there: every place once.
LEMMA SortedDoes ==
  ASSUME NEW cues, NEW at, at \subseteq DOMAIN cues, List(cues),
         \A i \in at : Row(cues[i]),
         \A i, j \in at : cues[i].id = cues[j].id => i = j
  PROVE  LET r == Sorted(cues, at) IN
         /\ Rows(r)
         /\ \A m \in DOMAIN r : \E i \in at : r[m] = cues[i]
         /\ \A i \in at : \E m \in DOMAIN r : r[m] = cues[i]
<1> DEFINE r == Sorted(cues, at)
           n == Cardinality(at)
           of(m) == CHOOSE i \in at : Rank(cues, at, i) = m
<1>1. DOMAIN cues = 1..Len(cues) /\ Len(cues) \in Nat
  BY ListSeq DEF List
<1>2. at \subseteq Int /\ IsFiniteSet(at)
  <2>1. IsFiniteSet(1..Len(cues))
    BY <1>1, FS_Interval
  <2> QED BY <1>1, <2>1, FS_Subset
<1>3. \A i \in at : cues[i].start \in Int /\ cues[i].end \in Int
  BY DEF Row
<1>4. /\ n \in Nat
      /\ \A i \in at : Rank(cues, at, i) \in 1..n
      /\ \A i, j \in at : Rank(cues, at, i) = Rank(cues, at, j) => i = j
      /\ \A m \in 1..n : \E i \in at : Rank(cues, at, i) = m
  BY <1>2, <1>3, Ranks
<1>5. \A m \in 1..n : of(m) \in at /\ Rank(cues, at, of(m)) = m
  BY <1>4
<1>6. r = [m \in 1..n |-> cues[of(m)]]
  BY DEF Sorted
<1>7. List(r) /\ DOMAIN r = 1..n
  <2>1. DOMAIN r = 1..n
    BY <1>6
  <2>2. r = [m \in 1..n |-> r[m]]
    BY <1>6
  <2> HIDE DEF r
  <2> QED BY <1>4, <2>1, <2>2, MapList
<1> HIDE DEF r, of, n
<1>8. \A m \in 1..n : r[m] = cues[of(m)]
  BY <1>6
<1>9. Distinct(r)
  BY <1>5, <1>7, <1>8 DEF Distinct
<1>10. \A m \in DOMAIN r : Row(r[m])
  BY <1>5, <1>7, <1>8
<1>11. \A i \in at : \E m \in DOMAIN r : r[m] = cues[i]
  <2> TAKE i \in at
  <2>1. Rank(cues, at, i) \in 1..n /\ of(Rank(cues, at, i)) = i
    BY <1>4, <1>5
  <2> QED BY <1>7, <1>8, <2>1
<1> QED BY <1>5, <1>7, <1>8, <1>9, <1>10, <1>11 DEF Rows, r

-----------------------------------------------------------------------------
(* Cues that a transaction writes *)

CueSet(id, src, tr) ==
    [id : {id}, start : Int, end : Int, src : {src}, tr : {tr}, srcEdited : BOOLEAN,
     trEdited : BOOLEAN, stale : BOOLEAN, timeEdited : BOOLEAN]

\* A member of that set is a row when its times are in order.
LEMMA CueRow ==
  ASSUME NEW id, NEW src, NEW tr, NEW c \in CueSet(id, src, tr)
  PROVE  /\ c.id = id /\ c.src = src /\ c.tr = tr
         /\ c.start \in Int /\ c.end \in Int
         /\ c.srcEdited \in BOOLEAN /\ c.trEdited \in BOOLEAN /\ c.stale \in BOOLEAN
         /\ c.timeEdited \in BOOLEAN
         /\ c.start < c.end => Row(c)
BY DEF CueSet, Row

\* A row is a member of that set.
LEMMA RowCue ==
  ASSUME NEW c, Row(c)
  PROVE  c \in CueSet(c.id, c.src, c.tr) /\ c.start < c.end
BY DEF CueSet, Row

\* What an autosave writes over a cue.
LEMMA EditedDoes ==
  ASSUME NEW c, Row(c), NEW src, NEW tr, NEW start \in Int, NEW end \in Int, start < end
  PROVE  LET n == EditedCue(c, src, tr, start, end) IN
         /\ Row(n) /\ n.id = c.id /\ n.src = src /\ n.tr = tr /\ n.start = start /\ n.end = end
         /\ n.trEdited <=> (c.trEdited \/ c.tr # tr)
         /\ n.stale <=> c.tr = tr /\ (IF c.src # src THEN c.tr # None ELSE c.stale)
         /\ n.srcEdited <=> (c.srcEdited \/ c.src # src)
         /\ n.timeEdited <=> (c.timeEdited \/ c.start # start \/ c.end # end)
<1> DEFINE n == EditedCue(c, src, tr, start, end)
           m == [c EXCEPT !.src = src, !.tr = tr, !.start = start, !.end = end]
           stale == IF c.tr # tr THEN FALSE ELSE IF c.src # src THEN c.tr # None ELSE c.stale
<1>1. c \in CueSet(c.id, c.src, c.tr)
  BY RowCue
<1>2. /\ m \in CueSet(c.id, src, tr) /\ m.start = start /\ m.end = end
      /\ m.stale = c.stale /\ m.srcEdited = c.srcEdited /\ m.trEdited = c.trEdited
      /\ m.timeEdited = c.timeEdited
  BY <1>1, Zenon DEF CueSet
<1>3. /\ stale \in BOOLEAN /\ (c.trEdited \/ c.tr # tr) \in BOOLEAN
      /\ (c.srcEdited \/ c.src # src) \in BOOLEAN
      /\ (c.timeEdited \/ c.start # start \/ c.end # end) \in BOOLEAN
  BY DEF Row
<1>4. n = [m EXCEPT !.srcEdited = @ \/ c.src # src, !.trEdited = @ \/ c.tr # tr,
                    !.timeEdited = @ \/ Retimed(c, m),
                    !.stale = IF c.tr # tr THEN FALSE
                              ELSE IF c.src # src THEN c.tr # None ELSE @]
  BY Zenon DEF EditedCue
<1> HIDE DEF m
<1>5. Retimed(c, m) = (c.start # start \/ c.end # end)
  BY <1>2, Zenon DEF Retimed
<1>6. n = [m EXCEPT !.srcEdited = (c.srcEdited \/ c.src # src),
                    !.trEdited = (c.trEdited \/ c.tr # tr),
                    !.timeEdited = (c.timeEdited \/ c.start # start \/ c.end # end),
                    !.stale = stale]
  BY <1>2, <1>4, <1>5, Zenon
<1> HIDE DEF n, stale
<1>7. /\ n \in CueSet(c.id, src, tr) /\ n.start = start /\ n.end = end
      /\ n.trEdited = (c.trEdited \/ c.tr # tr) /\ n.stale = stale
      /\ n.srcEdited = (c.srcEdited \/ c.src # src)
      /\ n.timeEdited = (c.timeEdited \/ c.start # start \/ c.end # end)
  BY <1>2, <1>3, <1>6, Zenon DEF CueSet
<1>8. Row(n) /\ n.id = c.id /\ n.src = src /\ n.tr = tr
  BY <1>7, CueRow
<1>9. stale <=> c.tr = tr /\ (IF c.src # src THEN c.tr # None ELSE c.stale)
  BY Zenon DEF stale
<1>10. /\ n.trEdited <=> (c.trEdited \/ c.tr # tr)
       /\ n.stale <=> c.tr = tr /\ (IF c.src # src THEN c.tr # None ELSE c.stale)
       /\ n.srcEdited <=> (c.srcEdited \/ c.src # src)
       /\ n.timeEdited <=> (c.timeEdited \/ c.start # start \/ c.end # end)
  BY <1>7, <1>9, Zenon
<1> QED BY <1>7, <1>8, <1>10, Zenon DEF n

-----------------------------------------------------------------------------
(* The cues a structure edit leaves *)

\* A machine translation is that of the cue it descends from, and no fresher.
Kept(s, c) ==
    Machine(c) =>
        /\ Has(s, c.id) /\ Machine(CueOf(s, c.id))
        /\ c.tr = CueOf(s, c.id).tr /\ c.src = CueOf(s, c.id).src
        /\ CueOf(s, c.id).stale => c.stale
Rebuilt(s, cues) ==
    /\ Rows(cues)
    /\ \A i \in DOMAIN cues : (cues[i].stale => cues[i].tr # None) /\ Kept(s, cues[i])

\* Sound tables where only translations are stale.
Told(s) == Rows(s.cues) /\ \A i \in DOMAIN s.cues : s.cues[i].stale => s.cues[i].tr # None

\* Good tables are ones a structure edit may start from.
LEMMA GoodTold ==
  ASSUME NEW s, NEW loose, Good(s, loose)
  PROVE  Told(s)
<1>1. Rows(s.cues)
  BY DEF Good, Sound
<1>2. ASSUME NEW i \in DOMAIN s.cues
      PROVE  s.cues[i].stale => s.cues[i].tr # None
  <2>1. Has(s, s.cues[i].id) /\ CueOf(s, s.cues[i].id) = s.cues[i]
    BY <1>1, Found
  <2> QED BY <2>1 DEF Good, Current, OwnSource, Has
<1> QED BY <1>1, <1>2 DEF Told

\* A cue of the tables as it stands descends from itself.
LEMMA Stays ==
  ASSUME NEW s, Told(s), NEW i \in DOMAIN s.cues
  PROVE  /\ Row(s.cues[i]) /\ Kept(s, s.cues[i])
         /\ s.cues[i].stale => s.cues[i].tr # None
<1>1. Has(s, s.cues[i].id) /\ CueOf(s, s.cues[i].id) = s.cues[i]
  BY Found DEF Told
<1> QED BY <1>1 DEF Told, Rows, Kept

\* An inserted block is the user's.
LEMMA InsertedDoes ==
  ASSUME NEW s, Told(s), NEW b, Row(b), ~b.stale, CanInsert(s, b)
  PROVE  Rebuilt(s, Inserted(s, b))
<1> DEFINE c == [b EXCEPT !.srcEdited = TRUE, !.trEdited = b.tr # None, !.timeEdited = TRUE]
           all == Append(s.cues, c)
           r == Sorted(all, DOMAIN all)
<1>1. b \in CueSet(b.id, b.src, b.tr) /\ b.start < b.end
  BY RowCue
<1>2. (b.tr # None) \in BOOLEAN
  OBVIOUS
<1>3. /\ c \in CueSet(b.id, b.src, b.tr) /\ c.trEdited = (b.tr # None)
      /\ c.stale = b.stale /\ c.start = b.start /\ c.end = b.end
  BY <1>1, <1>2, Zenon DEF CueSet
<1> HIDE DEF c
<1>4. Row(c) /\ c.id = b.id /\ ~c.stale /\ ~Machine(c)
  BY <1>1, <1>3, CueRow DEF Machine
<1>5. s.cues \in Seq(ToSet(s.cues) \cup {c}) /\ DOMAIN s.cues = 1..Len(s.cues) /\ Len(s.cues) \in Nat
  <2>1. s.cues \in Seq(ToSet(s.cues)) /\ DOMAIN s.cues = 1..Len(s.cues)
    BY ListSeq DEF Told, Rows
  <2> QED BY <2>1
<1>6. /\ List(all) /\ DOMAIN all = 1..(Len(s.cues) + 1)
      /\ \A i \in DOMAIN s.cues : all[i] = s.cues[i]
      /\ all[Len(s.cues) + 1] = c
  <2>1. /\ all \in Seq(ToSet(s.cues) \cup {c}) /\ Len(all) = Len(s.cues) + 1
        /\ \A i \in 1..Len(s.cues) : all[i] = s.cues[i]
        /\ all[Len(s.cues) + 1] = c
    BY <1>5, AppendProperties
  <2>2. List(all) /\ DOMAIN all = 1..Len(all)
    BY <2>1, SeqList, LenProperties
  <2> QED BY <1>5, <2>1, <2>2
<1> HIDE DEF all
<1>7. \A i \in DOMAIN all :
        \/ i \in DOMAIN s.cues /\ all[i] = s.cues[i]
        \/ i = Len(s.cues) + 1 /\ all[i] = c
  BY <1>5, <1>6
<1>8. \A i \in DOMAIN s.cues : s.cues[i].id # b.id
  BY Found DEF Told, CanInsert
<1>9. \A i \in DOMAIN all : Row(all[i])
  BY <1>4, <1>7, Stays
<1>10. \A i, j \in DOMAIN all : all[i].id = all[j].id => i = j
  BY <1>4, <1>7, <1>8 DEF Told, Rows, Distinct
<1>11. Rows(r) /\ \A m \in DOMAIN r : \E i \in DOMAIN all : r[m] = all[i]
  BY <1>6, <1>9, <1>10, SortedDoes
<1>12. \A i \in DOMAIN all : (all[i].stale => all[i].tr # None) /\ Kept(s, all[i])
  BY <1>4, <1>7, Stays DEF Kept
<1> HIDE DEF r
<1>13. Rebuilt(s, r)
  BY <1>11, <1>12 DEF Rebuilt
<1>14. Inserted(s, b) = r
  BY DEF Inserted, r, all, c
<1> QED BY <1>13, <1>14

\* Moved times change no text.
LEMMA TimedDoes ==
  ASSUME NEW s, Told(s), NEW after, List(after), CanRetime(s, after),
         \A i \in DOMAIN after : after[i].start \in Int /\ after[i].end \in Int
  PROVE  Rebuilt(s, Timed(s, after))
<1> DEFINE r == Timed(s, after)
           moved(i) == Retimed(s.cues[i], after[i])
<1>1. DOMAIN after = 1..Len(s.cues) /\ DOMAIN s.cues = 1..Len(s.cues) /\ Len(s.cues) \in Nat
      /\ Len(after) = Len(s.cues) /\ List(s.cues)
  BY ListSeq DEF Told, Rows, List, CanRetime
<1>2. ASSUME NEW i \in DOMAIN after
      PROVE  /\ r[i].id = s.cues[i].id /\ r[i].tr = s.cues[i].tr /\ r[i].src = s.cues[i].src
             /\ r[i].trEdited = s.cues[i].trEdited /\ r[i].stale = s.cues[i].stale
             /\ Row(r[i])
  <2> DEFINE c == s.cues[i]
             a == after[i]
  <2>1. Row(c) /\ c \in CueSet(c.id, c.src, c.tr)
    BY <1>1, RowCue, Stays
  <2>2. a = [c EXCEPT !.start = a.start, !.end = a.end] /\ a.start < a.end
    BY <1>2 DEF CanRetime
  <2>3. a.start \in Int /\ a.end \in Int /\ moved(i) \in BOOLEAN
    BY <1>2 DEF Retimed
  <2>4. r[i] = [a EXCEPT !.timeEdited = @ \/ moved(i)]
    BY Zenon, <1>2 DEF Timed
  <2> HIDE DEF a, c, moved, r
  <2>5. /\ a \in CueSet(c.id, c.src, c.tr)
        /\ a.trEdited = c.trEdited /\ a.stale = c.stale
    BY <2>1, <2>2, <2>3, Zenon DEF CueSet
  <2>6. (a.timeEdited \/ moved(i)) \in BOOLEAN
    BY <2>3, <2>5, CueRow
  <2>7. /\ r[i] \in CueSet(c.id, c.src, c.tr) /\ r[i].start = a.start /\ r[i].end = a.end
        /\ r[i].trEdited = c.trEdited /\ r[i].stale = c.stale
    BY <2>4, <2>5, <2>6, Zenon DEF CueSet
  <2>8. /\ r[i].id = c.id /\ r[i].tr = c.tr /\ r[i].src = c.src /\ Row(r[i])
    <3> HIDE <2>4
    <3>1. a.start < a.end
      BY <2>2, Zenon
    <3> QED BY <2>7, <3>1, CueRow
  <2> QED BY <2>7, <2>8, Zenon DEF c
<1>3. List(r) /\ DOMAIN r = DOMAIN after
  <2>1. DOMAIN r = 1..Len(s.cues) /\ r = [i \in 1..Len(s.cues) |-> r[i]]
    BY <1>1, Zenon DEF Timed
  <2> HIDE DEF r
  <2>2. List(r)
    BY <1>1, <2>1, MapList
  <2> QED BY <1>1, <2>1, <2>2
<1> HIDE DEF r
<1>4. Distinct(r)
  BY <1>1, <1>2, <1>3 DEF Told, Rows, Distinct
<1>5. ASSUME NEW i \in DOMAIN r
      PROVE  (r[i].stale => r[i].tr # None) /\ Kept(s, r[i])
  <2>1. CueOf(s, s.cues[i].id) = s.cues[i] /\ Has(s, s.cues[i].id)
    BY <1>1, <1>3, <1>5, Found DEF Told
  <2>2. s.cues[i].stale => s.cues[i].tr # None
    BY <1>1, <1>3, <1>5, Stays
  <2> QED BY <1>2, <1>3, <2>1, <2>2 DEF Kept, Machine
<1> QED BY <1>2, <1>3, <1>4, <1>5 DEF Rebuilt, Rows, r

-----------------------------------------------------------------------------
(* Edits that replace a stretch of the list *)

Splice(s, mid, a, b) == SubSeq(s, 1, a - 1) \o mid \o SubSeq(s, b, Len(s))

\* Where the place i of a spliced list r comes from.
From(s, mid, a, b, r, i) ==
    \/ i < a /\ i \in DOMAIN s /\ r[i] = s[i]
    \/ i >= a /\ i < a + Len(mid) /\ i - a + 1 \in DOMAIN mid /\ r[i] = mid[i - a + 1]
    \/ /\ i >= a + Len(mid) /\ i - a - Len(mid) + b \in DOMAIN s
       /\ r[i] = s[i - a - Len(mid) + b]

\* The places of a list whose stretch from a up to b is replaced.
LEMMA Spliced ==
  ASSUME NEW s, List(s), NEW mid, List(mid), NEW a \in 1..Len(s), NEW b \in (a + 1)..(Len(s) + 1)
  PROVE  LET r == Splice(s, mid, a, b) IN
         List(r) /\ \A i \in DOMAIN r : From(s, mid, a, b, r, i)
<1> DEFINE S == ToSet(s) \cup ToSet(mid)
           x == SubSeq(s, 1, a - 1)
           z == SubSeq(s, b, Len(s))
           y == x \o mid
           r == y \o z
<1>1. s \in Seq(S) /\ DOMAIN s = 1..Len(s) /\ Len(s) \in Nat
      /\ mid \in Seq(S) /\ DOMAIN mid = 1..Len(mid) /\ Len(mid) \in Nat
  <2>1. s \in Seq(ToSet(s)) /\ DOMAIN s = 1..Len(s) /\ mid \in Seq(ToSet(mid)) /\ DOMAIN mid = 1..Len(mid)
    BY ListSeq
  <2>2. s \in Seq(S) /\ mid \in Seq(S)
    BY <2>1
  <2> QED BY <2>1, <2>2 DEF List
<1>2. \A i \in 1..Len(s) : s[i] \in S
  BY <1>1, LenProperties
<1> HIDE DEF S
<1>3. a \in Nat /\ b \in Nat /\ 1 <= a /\ a <= Len(s) /\ a < b /\ b <= Len(s) + 1
  BY <1>1
<1>4. /\ x \in Seq(S) /\ Len(x) = a - 1
      /\ \A i \in 1..(a - 1) : x[i] = s[i]
  <2>1. \A i \in 1..(a - 1) : s[i] \in S
    BY <1>1, <1>2, <1>3
  <2>2. /\ x \in Seq(S) /\ Len(x) = (IF 1 <= a - 1 THEN (a - 1) - 1 + 1 ELSE 0)
        /\ \A i \in 1..((a - 1) - 1 + 1) : x[i] = s[1 + i - 1]
    BY <1>3, <2>1, SubSeqProperties
  <2> HIDE DEF x
  <2>3. \A i \in 1..(a - 1) : x[i] = s[i]
    <3> TAKE i \in 1..(a - 1)
    <3>1. i \in 1..((a - 1) - 1 + 1) /\ 1 + i - 1 = i
      BY <1>3
    <3> QED BY <2>2, <3>1
  <2> QED BY <1>3, <2>2, <2>3
<1>5. /\ z \in Seq(S) /\ Len(z) = Len(s) - b + 1
      /\ \A i \in 1..(Len(s) - b + 1) : z[i] = s[b + i - 1]
  <2>1. \A i \in b..Len(s) : s[i] \in S
    BY <1>1, <1>2, <1>3
  <2>2. /\ z \in Seq(S) /\ Len(z) = (IF b <= Len(s) THEN Len(s) - b + 1 ELSE 0)
        /\ \A i \in 1..(Len(s) - b + 1) : z[i] = s[b + i - 1]
    BY <1>1, <1>3, <2>1, SubSeqProperties
  <2> HIDE DEF z
  <2> QED BY <1>1, <1>3, <2>2
<1> HIDE DEF x, z
<1>6. /\ y \in Seq(S) /\ Len(y) = a - 1 + Len(mid)
      /\ \A i \in 1..(a - 1 + Len(mid)) : y[i] = IF i <= a - 1 THEN x[i] ELSE mid[i - (a - 1)]
  <2>1. /\ y \in Seq(S) /\ Len(y) = Len(x) + Len(mid)
        /\ \A i \in 1..(Len(x) + Len(mid)) : y[i] = IF i <= Len(x) THEN x[i] ELSE mid[i - Len(x)]
    BY <1>1, <1>4, ConcatProperties, Zenon
  <2> HIDE DEF y
  <2> QED BY <1>4, <2>1
<1> HIDE DEF y
<1>7. /\ r \in Seq(S) /\ Len(r) = a - 1 + Len(mid) + (Len(s) - b + 1)
      /\ \A i \in 1..(a - 1 + Len(mid) + (Len(s) - b + 1)) :
           r[i] = IF i <= a - 1 + Len(mid) THEN y[i] ELSE z[i - (a - 1 + Len(mid))]
  <2>1. /\ r \in Seq(S) /\ Len(r) = Len(y) + Len(z)
        /\ \A i \in 1..(Len(y) + Len(z)) : r[i] = IF i <= Len(y) THEN y[i] ELSE z[i - Len(y)]
    BY <1>5, <1>6, ConcatProperties, Zenon
  <2> HIDE DEF r
  <2> QED BY <1>5, <1>6, <2>1
<1> HIDE DEF r
<1>8. List(r) /\ DOMAIN r = 1..(a - 1 + Len(mid) + (Len(s) - b + 1))
  BY <1>7, SeqList, LenProperties
<1>9. ASSUME NEW i \in DOMAIN r
      PROVE  From(s, mid, a, b, r, i)
  <2>1. i \in 1..(a - 1 + Len(mid) + (Len(s) - b + 1)) /\ i \in Nat
    BY <1>1, <1>3, <1>8
  <2> DEFINE m == a - 1 + Len(mid)
  <2>5. r[i] = IF i <= m THEN y[i] ELSE z[i - m]
    BY <1>7, <2>1, Zenon
  <2>6. i <= m => y[i] = IF i <= a - 1 THEN x[i] ELSE mid[i - (a - 1)]
    <3>1. i <= m => i \in 1..m
      <4>1. m \in Int /\ i \in Nat /\ i >= 1
        BY <1>1, <1>3, <2>1
      <4> HIDE DEF m
      <4> QED BY <4>1
    <3> QED BY <1>6, <3>1, Zenon
  <2>2. CASE i <= a - 1
    <3>1. r[i] = y[i] /\ y[i] = x[i]
      <4>1. i <= m
        BY <1>1, <1>3, <2>1, <2>2
      <4> HIDE DEF m
      <4> QED BY <2>2, <2>5, <2>6, <4>1
    <3>2. x[i] = s[i]
      BY <1>3, <1>4, <2>1, <2>2
    <3> QED BY <1>1, <1>3, <2>1, <2>2, <3>1, <3>2 DEF From
  <2>3. CASE i > a - 1 /\ i <= a - 1 + Len(mid)
    <3>1. r[i] = y[i] /\ y[i] = mid[i - (a - 1)] /\ i - (a - 1) = i - a + 1
      <4>1. i <= m /\ ~ (i <= a - 1) /\ i - (a - 1) = i - a + 1
        BY <1>1, <1>3, <2>1, <2>3
      <4> HIDE DEF m
      <4> QED BY <2>5, <2>6, <4>1
    <3> QED BY <1>1, <1>3, <2>1, <2>3, <3>1 DEF From
  <2>4. CASE i > a - 1 + Len(mid)
    <3> DEFINE k == i - (a - 1 + Len(mid))
    <3>1. k \in 1..(Len(s) - b + 1) /\ b + k - 1 = i - a - Len(mid) + b
      BY <1>1, <1>3, <2>1, <2>4
    <3>2. r[i] = z[k]
      <4>1. ~ (i <= m) /\ i - m = k
        BY <1>1, <1>3, <2>1, <2>4
      <4> HIDE DEF m, k
      <4> QED BY <2>5, <4>1
    <3>3. z[k] = s[b + k - 1]
      BY <1>5, <3>1
    <3> QED BY <1>1, <1>3, <2>1, <2>4, <3>1, <3>2, <3>3 DEF From
  <2> QED BY <1>1, <1>3, <2>1, <2>2, <2>3, <2>4
<1> QED BY <1>8, <1>9 DEF r, x, y, z, Splice

\* A stretch replaced by cues of no other identity.
LEMMA SplicedRows ==
  ASSUME NEW s, Told(s), NEW mid, List(mid), NEW a \in 1..Len(s.cues),
         NEW b \in (a + 1)..(Len(s.cues) + 1),
         \A k \in DOMAIN mid : Row(mid[k]) /\ (mid[k].stale => mid[k].tr # None) /\ Kept(s, mid[k]),
         Distinct(mid),
         \A k \in DOMAIN mid : \A j \in DOMAIN s.cues : mid[k].id = s.cues[j].id => a <= j /\ j < b
  PROVE  Rebuilt(s, Splice(s.cues, mid, a, b))
<1> DEFINE r == Splice(s.cues, mid, a, b)
<1>1. List(s.cues) /\ Distinct(s.cues) /\ DOMAIN s.cues = 1..Len(s.cues) /\ Len(s.cues) \in Nat
      /\ Len(mid) \in Nat
  BY ListSeq DEF Told, Rows, List
<1>2. List(r) /\ \A i \in DOMAIN r : From(s.cues, mid, a, b, r, i)
  BY <1>1, Spliced
<1>3. DOMAIN r \subseteq Nat
  BY <1>2, ListSeq DEF List
<1> HIDE DEF r
<1>4. \A i \in DOMAIN r : Row(r[i]) /\ (r[i].stale => r[i].tr # None) /\ Kept(s, r[i])
  BY <1>2, Stays DEF From
<1>5. ASSUME NEW i \in DOMAIN r, NEW j \in DOMAIN r, r[i].id = r[j].id
      PROVE  i = j
  <2>1. From(s.cues, mid, a, b, r, i) /\ From(s.cues, mid, a, b, r, j) /\ i \in Nat /\ j \in Nat /\ a \in Nat /\ b \in Nat /\ a < b
    BY <1>1, <1>2, <1>3
  <2>2. ASSUME NEW k \in DOMAIN s.cues, NEW l \in DOMAIN s.cues, s.cues[k].id = s.cues[l].id
        PROVE  k = l
    BY <1>1, <2>2 DEF Distinct
  <2>3. ASSUME NEW k \in DOMAIN mid, NEW l \in DOMAIN mid, mid[k].id = mid[l].id
        PROVE  k = l
    BY <2>3 DEF Distinct
  <2>4. CASE i < a
    <3>1. i \in DOMAIN s.cues /\ r[i] = s.cues[i]
      BY <1>1, <2>1, <2>4 DEF From
    <3>2. CASE j < a
      BY <1>1, <1>5, <2>1, <2>2, <2>4, <3>1, <3>2 DEF From
    <3>3. CASE j >= a /\ j < a + Len(mid)
      BY <1>1, <1>5, <2>1, <2>4, <3>1, <3>3 DEF From
    <3>4. CASE j >= a + Len(mid)
      <4>1. j - a - Len(mid) + b \in DOMAIN s.cues /\ r[j] = s.cues[j - a - Len(mid) + b]
        BY <1>1, <2>1, <3>4 DEF From
      <4>2. i = j - a - Len(mid) + b
        BY <1>5, <2>2, <3>1, <4>1
      <4> QED BY <1>1, <2>1, <2>4, <3>4, <4>2
    <3> QED BY <1>1, <2>1, <3>2, <3>3, <3>4
  <2>5. CASE i >= a /\ i < a + Len(mid)
    <3>1. i - a + 1 \in DOMAIN mid /\ r[i] = mid[i - a + 1]
      BY <1>1, <2>1, <2>5 DEF From
    <3>2. CASE j < a
      BY <1>1, <1>5, <2>1, <2>5, <3>1, <3>2 DEF From
    <3>3. CASE j >= a /\ j < a + Len(mid)
      <4>1. j - a + 1 \in DOMAIN mid /\ r[j] = mid[j - a + 1]
        BY <1>1, <2>1, <3>3 DEF From
      <4>2. i - a + 1 = j - a + 1
        BY <1>5, <2>3, <3>1, <4>1
      <4> QED BY <2>1, <4>2
    <3>4. CASE j >= a + Len(mid)
      <4>1. j - a - Len(mid) + b \in DOMAIN s.cues /\ r[j] = s.cues[j - a - Len(mid) + b]
        BY <1>1, <2>1, <3>4 DEF From
      <4>2. j - a - Len(mid) + b < b
        BY <1>5, <3>1, <4>1
      <4> QED BY <1>1, <2>1, <3>4, <4>2
    <3> QED BY <1>1, <2>1, <3>2, <3>3, <3>4
  <2>6. CASE i >= a + Len(mid)
    <3> DEFINE k == i - a - Len(mid) + b
    <3>1. k \in DOMAIN s.cues /\ r[i] = s.cues[k] /\ k >= b
      BY <1>1, <2>1, <2>6 DEF From
    <3>2. CASE j < a
      <4>1. j \in DOMAIN s.cues /\ r[j] = s.cues[j]
        BY <1>1, <2>1, <3>2 DEF From
      <4>2. k = j
        BY <1>5, <2>2, <3>1, <4>1
      <4> QED BY <1>1, <2>1, <3>1, <3>2, <4>2
    <3>3. CASE j >= a /\ j < a + Len(mid)
      <4>1. j - a + 1 \in DOMAIN mid /\ r[j] = mid[j - a + 1]
        BY <1>1, <2>1, <3>3 DEF From
      <4>2. k < b
        BY <1>5, <3>1, <4>1
      <4> QED BY <1>1, <2>1, <3>1, <4>2
    <3>4. CASE j >= a + Len(mid)
      <4>1. j - a - Len(mid) + b \in DOMAIN s.cues /\ r[j] = s.cues[j - a - Len(mid) + b]
        BY <1>1, <2>1, <3>4 DEF From
      <4>2. k = j - a - Len(mid) + b
        BY <1>5, <2>2, <3>1, <4>1
      <4> QED BY <1>1, <2>1, <4>2
    <3> QED BY <1>1, <2>1, <3>2, <3>3, <3>4
  <2> QED BY <1>1, <2>1, <2>4, <2>5, <2>6
<1> QED BY <1>2, <1>4, <1>5 DEF Rebuilt, Rows, Distinct, r

\* A removal flags the translations made with the removed cue.
LEMMA RemovedDoes ==
  ASSUME NEW s, Told(s), NEW id, CanRemove(s, id)
  PROVE  Rebuilt(s, Removed(s, id))
<1> DEFINE at == Position(s.cues, id)
           kept == RemoveAt(s.cues, at)
           affected == {c.id : c \in {d \in ToSet(s.cues) :
                           /\ d.tr # None /\ ~d.trEdited
                           /\ d.id \in Consumers(s.edges, {id})}}
           r == [i \in DOMAIN kept |-> [kept[i] EXCEPT !.stale = @ \/ kept[i].id \in affected]]
<1>1. /\ s.cues \in Seq(ToSet(s.cues)) /\ DOMAIN s.cues = 1..Len(s.cues) /\ Len(s.cues) \in Nat
      /\ List(s.cues) /\ at \in 1..Len(s.cues)
  BY ListSeq, Found DEF Told, Rows, List, CanRemove, Has
<1> HIDE DEF at
<1>2. kept = Splice(s.cues, <<>>, at, at + 1)
  <2> DEFINE x == SubSeq(s.cues, 1, at - 1)
             z == SubSeq(s.cues, at + 1, Len(s.cues))
  <2>1. \A i \in 1..(at - 1) : s.cues[i] \in ToSet(s.cues)
    BY <1>1, LenProperties
  <2>2. x \in Seq(ToSet(s.cues))
    BY <1>1, <2>1, SubSeqProperties
  <2>3. x \o <<>> = x
    BY <2>2, ConcatEmptySeq
  <2>4. kept = x \o z /\ Splice(s.cues, <<>>, at, at + 1) = (x \o <<>>) \o z
    BY Zenon DEF RemoveAt, Splice
  <2> HIDE DEF x, z, kept
  <2> QED BY <2>3, <2>4
<1>3. List(<<>>) /\ DOMAIN <<>> = {} /\ Len(<<>>) = 0
  BY DEF List
<1>4. at + 1 \in (at + 1)..(Len(s.cues) + 1)
  BY <1>1
<1>5. List(kept) /\ \A i \in DOMAIN kept : From(s.cues, <<>>, at, at + 1, kept, i)
  BY <1>1, <1>2, <1>3, <1>4, Spliced
<1>6. Rebuilt(s, kept)
  <2>1. Distinct(<<>>)
    BY <1>3 DEF Distinct
  <2> HIDE DEF kept
  <2> QED BY <1>1, <1>2, <1>3, <1>4, <2>1, SplicedRows
<1> HIDE DEF kept
<1>7. ASSUME NEW i \in DOMAIN kept
      PROVE  kept[i] \in ToSet(s.cues)
  <2>1. \E j \in DOMAIN s.cues : kept[i] = s.cues[j]
    BY <1>3, <1>5 DEF From
  <2> QED BY <2>1 DEF ToSet
<1>8. ASSUME NEW i \in DOMAIN kept, kept[i].id \in affected
      PROVE  kept[i].tr # None
  <2>1. PICK d \in ToSet(s.cues) : d.id = kept[i].id /\ d.tr # None
    BY <1>8
  <2>2. d = kept[i]
    BY <1>7, <2>1, Found DEF Told
  <2> QED BY <2>1, <2>2
<1>9. ASSUME NEW i \in DOMAIN kept
      PROVE  /\ r[i].id = kept[i].id /\ r[i].tr = kept[i].tr /\ r[i].src = kept[i].src
             /\ r[i].trEdited = kept[i].trEdited
             /\ r[i].stale = (kept[i].stale \/ kept[i].id \in affected)
             /\ Row(r[i])
  <2> DEFINE c == kept[i]
             b == c.stale \/ c.id \in affected
  <2>1. Row(c) /\ c \in CueSet(c.id, c.src, c.tr) /\ c.start < c.end
    BY <1>6, RowCue DEF Rebuilt, Rows
  <2>2. b \in BOOLEAN
    BY <2>1, CueRow
  <2>3. r[i] = [c EXCEPT !.stale = b]
    BY Zenon
  <2> HIDE DEF r, c, b
  <2>4. /\ r[i] \in CueSet(c.id, c.src, c.tr) /\ r[i].start = c.start /\ r[i].end = c.end
        /\ r[i].trEdited = c.trEdited /\ r[i].stale = b
    BY <2>1, <2>2, <2>3, Zenon DEF CueSet
  <2>5. r[i].id = c.id /\ r[i].tr = c.tr /\ r[i].src = c.src /\ Row(r[i])
    <3> HIDE <2>3
    <3> QED BY <2>1, <2>4, CueRow
  <2> QED BY <2>4, <2>5, Zenon DEF c, b
<1>10. List(r) /\ DOMAIN r = DOMAIN kept
  <2>1. DOMAIN kept = 1..Len(kept) /\ Len(kept) \in Nat
    BY <1>5, ListSeq DEF List
  <2>2. DOMAIN r = 1..Len(kept) /\ r = [i \in 1..Len(kept) |-> r[i]]
    BY <2>1, Zenon
  <2> HIDE DEF r
  <2> QED BY <2>1, <2>2, MapList
<1> HIDE DEF r, affected
<1>11. Distinct(r)
  BY <1>6, <1>9, <1>10 DEF Rebuilt, Rows, Distinct
<1>12. ASSUME NEW i \in DOMAIN r
       PROVE  (r[i].stale => r[i].tr # None) /\ Kept(s, r[i])
  BY <1>6, <1>8, <1>9, <1>10 DEF Rebuilt, Kept, Machine
<1>13. Rebuilt(s, r)
  BY <1>9, <1>10, <1>11, <1>12 DEF Rebuilt, Rows
<1>14. Removed(s, id) = r
  BY Zenon DEF Removed, r, kept, affected, at
<1> QED BY <1>13, <1>14

\* The two halves of a cut carry the user's texts, or no translation.
LEMMA SplitDoes ==
  ASSUME NEW s, Told(s), NEW id, NEW boundary \in Int, NEW new, ~Has(s, new),
         CanSplit(s, id, boundary), NEW ls, NEW rs, NEW lt, NEW rt
  PROVE  Rebuilt(s, SplitUp(s, id, boundary, new, ls, rs, lt, rt))
<1> DEFINE c == CueOf(s, id)
           at == Position(s.cues, id)
           both == lt # None /\ rt # None
           ltr == IF both THEN lt ELSE None
           rtr == IF both THEN rt ELSE None
           cut == [c EXCEPT !.srcEdited = TRUE, !.trEdited = both, !.stale = FALSE,
                            !.timeEdited = TRUE]
           left == [cut EXCEPT !.end = boundary, !.src = ls, !.tr = ltr]
           right == [cut EXCEPT !.id = new, !.start = boundary, !.src = rs, !.tr = rtr]
           mid == <<left, right>>
<1>1. /\ id \in Ids(s.cues) /\ Rows(s.cues) /\ Row(c) /\ c.id = id /\ at \in DOMAIN s.cues
      /\ s.cues[at].id = id /\ List(s.cues) /\ c.start < boundary /\ boundary < c.end
  BY Found DEF Told, Rows, CanSplit, Has
<1>2. DOMAIN s.cues = 1..Len(s.cues) /\ Len(s.cues) \in Nat
  BY <1>1, ListSeq DEF List
<1>3. c \in CueSet(id, c.src, c.tr)
  BY <1>1, RowCue
<1>4. both \in BOOLEAN
  OBVIOUS
<1> HIDE DEF c, at, both, ltr, rtr
<1>5. /\ cut \in CueSet(id, c.src, c.tr) /\ cut.start = c.start /\ cut.end = c.end
      /\ cut.trEdited = both /\ cut.stale = FALSE
  BY <1>3, <1>4, Zenon DEF CueSet
<1> HIDE DEF cut
<1>6. /\ left \in CueSet(id, ls, ltr) /\ left.start = c.start /\ left.end = boundary
      /\ left.trEdited = both /\ left.stale = FALSE
  BY <1>5, Zenon DEF CueSet
<1>7. /\ right \in CueSet(new, rs, rtr) /\ right.start = boundary /\ right.end = c.end
      /\ right.trEdited = both /\ right.stale = FALSE
  BY <1>5, Zenon DEF CueSet
<1> HIDE DEF left, right
<1>8. Row(left) /\ left.id = id /\ ~left.stale /\ ~Machine(left)
  BY <1>1, <1>6, CueRow DEF Machine, ltr
<1>9. Row(right) /\ right.id = new /\ ~right.stale /\ ~Machine(right)
  BY <1>1, <1>7, CueRow DEF Machine, rtr
<1>10. List(mid) /\ DOMAIN mid = {1, 2} /\ mid[1] = left /\ mid[2] = right
  BY DEF List
<1> HIDE DEF mid
<1>11. \A k \in DOMAIN mid : Row(mid[k]) /\ (mid[k].stale => mid[k].tr # None) /\ Kept(s, mid[k])
  BY <1>8, <1>9, <1>10 DEF Kept
<1>12. \A j \in DOMAIN s.cues : s.cues[j].id # new /\ (s.cues[j].id = id => j = at)
  BY <1>1, Found DEF Rows, Distinct
<1>13. new # id
  BY <1>1, <1>12
<1>14. Distinct(mid)
  BY <1>8, <1>9, <1>10, <1>13 DEF Distinct
<1>15. \A k \in DOMAIN mid : \A j \in DOMAIN s.cues : mid[k].id = s.cues[j].id => at <= j /\ j < at + 1
  BY <1>2, <1>8, <1>9, <1>10, <1>12
<1>16. at \in 1..Len(s.cues) /\ at + 1 \in (at + 1)..(Len(s.cues) + 1)
  BY <1>1, <1>2
<1>17. Rebuilt(s, Splice(s.cues, mid, at, at + 1))
  BY <1>10, <1>11, <1>14, <1>15, <1>16, SplicedRows
<1>18. SplitUp(s, id, boundary, new, ls, rs, lt, rt) = Splice(s.cues, mid, at, at + 1)
  BY Zenon DEF SplitUp, Splice, mid, left, right, cut, ltr, rtr, both, at, c
<1> QED BY <1>17, <1>18

\* A joined cue carries the user's text, or no translation.
LEMMA MergedDoes ==
  ASSUME NEW s, Told(s), NEW l, NEW r, CanMerge(s, l, r), NEW src, NEW tr
  PROVE  Rebuilt(s, Merged(s, l, r, src, tr))
<1> DEFINE a == CueOf(s, l)
           b == CueOf(s, r)
           at == Position(s.cues, l)
           both == a.tr # None /\ b.tr # None
           text == IF both THEN tr ELSE None
           start == Min({a.start, b.start})
           end == Max({a.end, b.end})
           edited == text # None
           stale == text # None /\ (a.stale \/ b.stale)
           cue == [a EXCEPT !.start = start, !.end = end,
                            !.src = src, !.tr = text, !.srcEdited = TRUE,
                            !.trEdited = edited, !.stale = stale, !.timeEdited = TRUE]
           mid == <<cue>>
<1>1. /\ l \in Ids(s.cues) /\ Rows(s.cues) /\ Row(a) /\ a.id = l /\ at \in DOMAIN s.cues
      /\ s.cues[at].id = l /\ List(s.cues)
  BY Found DEF Told, Rows, CanMerge, Has
<1>2. DOMAIN s.cues = 1..Len(s.cues) /\ Len(s.cues) \in Nat
  BY <1>1, ListSeq DEF List
<1>3. at < Len(s.cues) /\ s.cues[at + 1].id = r /\ at + 1 \in DOMAIN s.cues
  BY <1>1, <1>2 DEF CanMerge
<1>4. Row(b)
  BY <1>1, <1>3, Found DEF Ids, ToSet
<1>5. a \in CueSet(l, a.src, a.tr) /\ a.start < a.end /\ b.start < b.end
      /\ a.start \in Int /\ a.end \in Int /\ b.start \in Int /\ b.end \in Int
  BY <1>1, <1>4, RowCue, CueRow
<1>6. start \in Int /\ end \in Int /\ start < end
  <2> DEFINE p == a.start
             q == b.start
             u == a.end
             v == b.end
  <2>1. p \in Int /\ q \in Int /\ u \in Int /\ v \in Int /\ p < u /\ q < v
    BY <1>5
  <2> HIDE DEF p, q, u, v
  <2>2. PICK m \in {p, q} : m <= p /\ m <= q
    BY <2>1
  <2>3. Min({p, q}) \in {p, q} /\ Min({p, q}) <= p /\ Min({p, q}) <= q
    BY <2>1, <2>2 DEF Min
  <2>4. PICK n \in {u, v} : n >= u /\ n >= v
    BY <2>1
  <2>5. Max({u, v}) \in {u, v} /\ Max({u, v}) >= u /\ Max({u, v}) >= v
    BY <2>1, <2>4 DEF Max
  <2>6. Min({p, q}) \in Int /\ Max({u, v}) \in Int /\ Min({p, q}) < Max({u, v})
    BY <2>1, <2>3, <2>5
  <2> QED BY <2>6 DEF p, q, u, v
<1>7. edited \in BOOLEAN /\ stale \in BOOLEAN /\ (stale => edited)
  OBVIOUS
<1> HIDE DEF a, b, at, both, text, start, end, stale
<1>8. /\ cue \in CueSet(l, src, text) /\ cue.start = start /\ cue.end = end
      /\ cue.trEdited = edited /\ cue.stale = stale
  BY <1>5, <1>6, <1>7, Zenon DEF CueSet
<1> HIDE DEF cue
<1>9. Row(cue) /\ cue.id = l /\ cue.tr = text
  BY <1>6, <1>8, CueRow
<1>10. ~Machine(cue) /\ (cue.stale => cue.tr # None)
  BY <1>7, <1>8, <1>9 DEF Machine
<1>11. List(mid) /\ DOMAIN mid = {1} /\ mid[1] = cue
  BY DEF List
<1> HIDE DEF mid
<1>12. /\ \A k \in DOMAIN mid : Row(mid[k]) /\ (mid[k].stale => mid[k].tr # None) /\ Kept(s, mid[k])
       /\ Distinct(mid)
  BY <1>9, <1>10, <1>11 DEF Kept, Distinct
<1>13. \A j \in DOMAIN s.cues : s.cues[j].id = l => j = at
  BY <1>1 DEF Rows, Distinct
<1>14. \A k \in DOMAIN mid : \A j \in DOMAIN s.cues : mid[k].id = s.cues[j].id => at <= j /\ j < at + 2
  BY <1>2, <1>9, <1>11, <1>13
<1>15. at \in 1..Len(s.cues) /\ at + 2 \in (at + 1)..(Len(s.cues) + 1)
  BY <1>1, <1>2, <1>3
<1>16. Rebuilt(s, Splice(s.cues, mid, at, at + 2))
  BY <1>11, <1>12, <1>14, <1>15, SplicedRows
<1>17. Merged(s, l, r, src, tr) = Splice(s.cues, mid, at, at + 2)
  BY Zenon DEF Merged, Splice, mid, cue, start, end, stale, text, both, at, a, b
<1> QED BY <1>16, <1>17

\* Adopted candidates carry no translation, and share no identity with what stays.
LEMMA AdoptedDoes ==
  ASSUME NEW s, Told(s), NEW start, NEW end, NEW expected, NEW new, Rows(new),
         \A i \in DOMAIN new : new[i].tr = None /\ ~new[i].stale,
         CanAdopt(s, start, end, expected, new)
  PROVE  Rebuilt(s, Adopted(s, start, end, new))
<1> DEFINE all == s.cues \o new
           at == {i \in DOMAIN all : i > Len(s.cues) \/ ~Touches(all[i], start, end)}
           r == Sorted(all, at)
           S == ToSet(s.cues) \cup ToSet(new)
<1>1. /\ s.cues \in Seq(S) /\ DOMAIN s.cues = 1..Len(s.cues) /\ Len(s.cues) \in Nat
      /\ new \in Seq(S) /\ DOMAIN new = 1..Len(new) /\ Len(new) \in Nat
  <2>1. s.cues \in Seq(ToSet(s.cues)) /\ DOMAIN s.cues = 1..Len(s.cues)
        /\ new \in Seq(ToSet(new)) /\ DOMAIN new = 1..Len(new)
    BY ListSeq DEF Told, Rows
  <2>2. s.cues \in Seq(S) /\ new \in Seq(S)
    BY <2>1
  <2> QED BY <2>1, <2>2
<1> HIDE DEF S
<1>2. /\ all \in Seq(S) /\ Len(all) = Len(s.cues) + Len(new)
      /\ \A i \in 1..(Len(s.cues) + Len(new)) :
           all[i] = IF i <= Len(s.cues) THEN s.cues[i] ELSE new[i - Len(s.cues)]
  BY <1>1, ConcatProperties, Zenon
<1> HIDE DEF all
<1>3. List(all) /\ DOMAIN all = 1..(Len(s.cues) + Len(new))
  BY <1>2, SeqList, LenProperties
<1>4. ASSUME NEW i \in DOMAIN all
      PROVE  \/ i \in DOMAIN s.cues /\ i <= Len(s.cues) /\ all[i] = s.cues[i]
             \/ i > Len(s.cues) /\ i - Len(s.cues) \in DOMAIN new /\ all[i] = new[i - Len(s.cues)]
  BY <1>1, <1>2, <1>3
<1>5. \A i \in at : i > Len(s.cues) \/ ~Touches(all[i], start, end)
  OBVIOUS
<1>6. at \subseteq DOMAIN all
  OBVIOUS
<1> HIDE DEF at
<1>7. ASSUME NEW i \in DOMAIN s.cues, NEW j \in DOMAIN new, ~Touches(s.cues[i], start, end)
      PROVE  s.cues[i].id # new[j].id
  BY <1>7 DEF CanAdopt, ToSet
<1>8. \A i \in at : Row(all[i]) /\ (all[i].stale => all[i].tr # None) /\ Kept(s, all[i])
  <2> TAKE i \in at
  <2>1. CASE i \in DOMAIN s.cues /\ all[i] = s.cues[i]
    BY <2>1, Stays
  <2>2. CASE i - Len(s.cues) \in DOMAIN new /\ all[i] = new[i - Len(s.cues)]
    BY <2>2 DEF Rows, Kept, Machine
  <2> QED BY <1>4, <1>6, <2>1, <2>2
<1>9. ASSUME NEW i \in at, NEW j \in at, all[i].id = all[j].id
      PROVE  i = j
  <2>1. i \in DOMAIN all /\ j \in DOMAIN all /\ i \in Nat /\ j \in Nat
    BY <1>1, <1>3, <1>6
  <2>2. CASE i <= Len(s.cues) /\ j <= Len(s.cues)
    BY <1>1, <1>4, <1>9, <2>1, <2>2 DEF Told, Rows, Distinct
  <2>3. CASE i > Len(s.cues) /\ j > Len(s.cues)
    <3>1. i - Len(s.cues) = j - Len(s.cues)
      BY <1>1, <1>4, <1>9, <2>1, <2>3 DEF Rows, Distinct
    <3> QED BY <1>1, <2>1, <3>1
  <2>4. CASE i <= Len(s.cues) /\ j > Len(s.cues)
    BY <1>1, <1>4, <1>5, <1>7, <1>9, <2>1, <2>4
  <2>5. CASE i > Len(s.cues) /\ j <= Len(s.cues)
    BY <1>1, <1>4, <1>5, <1>7, <1>9, <2>1, <2>5
  <2> QED BY <1>1, <2>1, <2>2, <2>3, <2>4, <2>5
<1>10. Rows(r) /\ \A m \in DOMAIN r : \E i \in at : r[m] = all[i]
  BY <1>3, <1>6, <1>8, <1>9, SortedDoes
<1> HIDE DEF r
<1>11. Rebuilt(s, r)
  BY <1>8, <1>10 DEF Rebuilt
<1>12. Adopted(s, start, end, new) = r
  BY Zenon DEF Adopted, r, at, all
<1> QED BY <1>11, <1>12

-----------------------------------------------------------------------------
(* A rebuilt structure with its provenance finished *)

\* What a rebuild hands to finish_recorded: the cues, the lineages of the cues that
\* stay with their revisions, and the edges between them.
Replaced(s, n) ==
    /\ n.rev \in Nat /\ n.rev >= s.rev
    /\ Rebuilt(s, n.cues)
    /\ n.prov \in [Ids(n.cues) -> Lineages]
    /\ \A id \in Ids(n.cues) \cap Ids(s.cues) :
         /\ n.prov[id].srcRev = s.prov[id].srcRev /\ n.prov[id].trRev = s.prov[id].trRev
         /\ n.prov[id].depStale = s.prov[id].depStale
    /\ n.edges = {e \in s.edges : e.target \in Ids(n.cues) /\ e.context \in Ids(n.cues)}

\* Revisions of tables that follow each other.
Advances(s, t) ==
    /\ t.rev > s.rev
    /\ \A id \in Ids(s.cues) \cap Ids(t.cues) :
         /\ t.prov[id].srcRev >= s.prov[id].srcRev /\ t.prov[id].trRev >= s.prov[id].trRev
         /\ Traced(CueOf(s, id), CueOf(t, id)) => t.prov[id].srcRev > s.prov[id].srcRev
         /\ CueOf(s, id).tr # CueOf(t, id).tr => t.prov[id].trRev > s.prov[id].trRev

\* The greater of two revisions, and one more when there is a change.
LEMMA NextDoes ==
  ASSUME NEW a \in Nat, NEW b \in Nat, NEW changed \in BOOLEAN
  PROVE  LET n == NextRevision(a, b, changed) IN
         /\ n \in Nat /\ n >= a /\ n >= b /\ (changed => n > a /\ n > b)
         /\ a = b => n = (IF changed THEN a + 1 ELSE a)
<1>1. PICK m \in {a, b} : m >= a /\ m >= b
  OBVIOUS
<1>2. Max({a, b}) \in {a, b} /\ Max({a, b}) >= a /\ Max({a, b}) >= b
  BY <1>1 DEF Max
<1> QED BY <1>2 DEF NextRevision

\* The context of an edge has moved on: it is gone, or its text, times or lineage changed.
LEMMA Unchanged ==
  ASSUME NEW s, NEW n, NEW id \in Ids(s.cues), id \notin ChangedContexts(s, n)
  PROVE  /\ Has(n, id) /\ CueOf(n, id).src = CueOf(s, id).src
         /\ ~Traced(CueOf(s, id), CueOf(n, id))
BY DEF ChangedContexts, SameSource, Traced, Has

\* What finish_recorded makes of the lineages.
FinishesTo(s, n, t) ==
    LET moved(id) == id \in ChangedContexts(s, n)
        replaced(id) == \/ CueOf(s, id).tr # CueOf(n, id).tr
                        \/ CueOf(s, id).trEdited # CueOf(n, id).trEdited
        told(id) == /\ id \in Consumers(s.edges, ChangedContexts(s, n))
                    /\ CueOf(n, id).tr # None /\ ~CueOf(n, id).trEdited IN
    /\ Sound(t) /\ t.rev = n.rev + 1 /\ t.cues = n.cues
    /\ t.edges = {e \in n.edges : ~ (e.target \in Ids(s.cues) \cap Ids(n.cues) /\ replaced(e.target))}
    /\ \A id \in Ids(s.cues) \cap Ids(n.cues) :
         /\ t.prov[id].srcRev = (IF moved(id) THEN s.prov[id].srcRev + 1 ELSE s.prov[id].srcRev)
         /\ t.prov[id].trRev >= s.prov[id].trRev
         /\ replaced(id) => t.prov[id].trRev > s.prov[id].trRev
         /\ ~replaced(id) /\ (s.prov[id].depStale \/ told(id)) => t.prov[id].depStale

\* The end of a structure edit: the revisions of what moved grow, and its consumers are marked.
LEMMA FinishDoes ==
  ASSUME NEW s, NEW n, NEW adopted, Sound(s), Replaced(s, n)
  PROVE  FinishesTo(s, n, FinishRecorded(s, n, adopted))
<1> DEFINE t == FinishRecorded(s, n, adopted)
           consumers == {id \in Consumers(s.edges, ChangedContexts(s, n)) :
                           Has(n, id) /\ CueOf(n, id).tr # None /\ ~CueOf(n, id).trEdited}
           kept == Ids(s.cues) \cap Ids(n.cues)
           moved(id) == id \in ChangedContexts(s, n)
           replaced(id) == \/ CueOf(s, id).tr # CueOf(n, id).tr
                           \/ CueOf(s, id).trEdited # CueOf(n, id).trEdited
           touched(id) == \/ replaced(id)
                          \/ CueOf(s, id).stale # CueOf(n, id).stale
                          \/ EdgesOf(s, id) # EdgesOf(n, id)
                          \/ id \in consumers
           retold(id) == CueOf(s, id).src # CueOf(n, id).src /\ id \notin adopted
           resized(id) == Retimed(CueOf(s, id), CueOf(n, id)) /\ id \notin adopted
           finished(id) ==
             [kind     |-> IF retold(id) THEN "manual" ELSE n.prov[id].kind,
              timing   |-> IF resized(id) THEN "manual" ELSE n.prov[id].timing,
              align    |-> IF retold(id) THEN "stale" ELSE n.prov[id].align,
              srcRev   |-> NextRevision(s.prov[id].srcRev, n.prov[id].srcRev, moved(id)),
              trRev    |-> NextRevision(s.prov[id].trRev, n.prov[id].trRev, touched(id)),
              depStale |-> ~replaced(id) /\ (n.prov[id].depStale \/ id \in consumers)]
           changed == {id \in kept : moved(id) \/ touched(id)}
           prov == [i \in DOMAIN n.prov |-> IF i \in changed THEN finished(i) ELSE n.prov[i]]
<1>1. t = [rev |-> n.rev + 1, cues |-> n.cues, prov |-> prov,
           edges |-> {e \in n.edges : ~ (e.target \in kept /\ replaced(e.target))}]
  BY Zenon DEF FinishRecorded
<1> HIDE DEF t
<1>2. /\ t.rev = n.rev + 1 /\ t.cues = n.cues /\ t.prov = prov
      /\ t.edges = {e \in n.edges : ~ (e.target \in kept /\ replaced(e.target))}
  BY <1>1
<1>3. /\ \A id \in Ids(s.cues) : s.prov[id] \in Lineages
      /\ DOMAIN n.prov = Ids(n.cues) /\ \A id \in Ids(n.cues) : n.prov[id] \in Lineages
  BY SoundParts DEF Replaced
<1> HIDE DEF consumers, moved, replaced, touched, retold, resized, prov
<1>4. ASSUME NEW id \in kept
      PROVE  /\ finished(id) \in Lineages
             /\ finished(id).srcRev = (IF moved(id) THEN s.prov[id].srcRev + 1 ELSE s.prov[id].srcRev)
             /\ finished(id).trRev = (IF touched(id) THEN s.prov[id].trRev + 1 ELSE s.prov[id].trRev)
             /\ finished(id).depStale = (~replaced(id) /\ (s.prov[id].depStale \/ id \in consumers))
  <2> DEFINE p == n.prov[id]
             q == s.prov[id]
             a == NextRevision(q.srcRev, p.srcRev, moved(id))
             b == NextRevision(q.trRev, p.trRev, touched(id))
  <2>1. p \in Lineages /\ q \in Lineages
        /\ p.srcRev = q.srcRev /\ p.trRev = q.trRev /\ p.depStale = q.depStale
    BY <1>3 DEF Replaced
  <2>2. q.srcRev \in Nat /\ q.trRev \in Nat /\ moved(id) \in BOOLEAN /\ touched(id) \in BOOLEAN
    BY <2>1, Parts DEF moved, touched
  <2>3. a \in Nat /\ a = (IF moved(id) THEN q.srcRev + 1 ELSE q.srcRev)
    BY <2>1, <2>2, NextDoes
  <2>4. b \in Nat /\ b = (IF touched(id) THEN q.trRev + 1 ELSE q.trRev)
    BY <2>1, <2>2, NextDoes
  <2> HIDE DEF a, b
  <2>5. /\ (IF retold(id) THEN "manual" ELSE p.kind) \in {"legacy", "structural", "asr", "manual"}
        /\ (IF resized(id) THEN "manual" ELSE p.timing) \in {"legacy", "model", "manual"}
        /\ (IF retold(id) THEN "stale" ELSE p.align) \in {"unknown", "stale", "current"}
    BY <2>1 DEF Lineages
  <2>6. (~replaced(id) /\ (p.depStale \/ id \in consumers)) \in BOOLEAN
    OBVIOUS
  <2>7. finished(id) \in Lineages
    BY <2>3, <2>4, <2>5, <2>6, Zenon DEF Lineages, a, b
  <2>8. /\ finished(id).srcRev = a /\ finished(id).trRev = b
        /\ finished(id).depStale = (~replaced(id) /\ (p.depStale \/ id \in consumers))
    BY Zenon DEF a, b
  <2> QED BY <2>1, <2>3, <2>4, <2>7, <2>8, Zenon
<1> HIDE DEF finished
<1>5. /\ DOMAIN prov = Ids(n.cues)
      /\ \A id \in Ids(n.cues) : prov[id] = IF id \in changed THEN finished(id) ELSE n.prov[id]
  BY <1>3, Zenon DEF prov
<1>6. ASSUME NEW id \in kept
      PROVE  /\ t.prov[id].srcRev = (IF moved(id) THEN s.prov[id].srcRev + 1 ELSE s.prov[id].srcRev)
             /\ t.prov[id].trRev = (IF touched(id) THEN s.prov[id].trRev + 1 ELSE s.prov[id].trRev)
             /\ ~replaced(id) /\ (s.prov[id].depStale \/ id \in consumers) => t.prov[id].depStale
  <2>1. CASE moved(id) \/ touched(id)
    BY <1>2, <1>4, <1>5, <2>1
  <2>2. CASE ~ (moved(id) \/ touched(id))
    <3>1. t.prov[id] = n.prov[id] /\ id \notin consumers
      BY <1>2, <1>5, <2>2 DEF touched
    <3> QED BY <2>2, <3>1 DEF Replaced
  <2> QED BY <2>1, <2>2
<1>7. t.prov \in [Ids(n.cues) -> Lineages]
  <2>1. \A id \in Ids(n.cues) : prov[id] \in Lineages
    BY <1>3, <1>4, <1>5
  <2>2. prov = [id \in DOMAIN prov |-> prov[id]]
    BY DEF prov
  <2> QED BY <1>2, <1>5, <2>1, <2>2
<1>8. Sound(t)
  <2>1. t.rev \in Nat /\ Rows(t.cues)
    BY <1>2 DEF Replaced, Rebuilt
  <2>2. \A e \in n.edges : e \in s.edges /\ e.target \in Ids(n.cues) /\ e.context \in Ids(n.cues)
    BY DEF Replaced
  <2>3. \A e \in s.edges : e \in [target : Ids(s.cues), context : Ids(s.cues), rev : Nat]
    BY SoundParts
  <2>4. t.edges \subseteq [target : Ids(n.cues), context : Ids(n.cues), rev : Nat]
    BY <1>2, <2>2, <2>3
  <2>5. t = [rev |-> t.rev, cues |-> t.cues, prov |-> t.prov, edges |-> t.edges]
    BY <1>1, <1>2, Zenon
  <2> QED BY <1>2, <1>7, <2>1, <2>4, <2>5 DEF Sound
<1>9. \A id \in kept : touched(id) <=> (touched(id) \/ replaced(id))
  BY DEF touched
<1>10. ASSUME NEW id \in kept
       PROVE  /\ t.prov[id].trRev >= s.prov[id].trRev
              /\ replaced(id) => t.prov[id].trRev > s.prov[id].trRev
  <2>1. s.prov[id].trRev \in Nat
    BY <1>3, Parts
  <2> QED BY <1>6, <1>9, <2>1
<1>11. \A id \in kept : id \in consumers <=>
         /\ id \in Consumers(s.edges, ChangedContexts(s, n))
         /\ CueOf(n, id).tr # None /\ ~CueOf(n, id).trEdited
  BY DEF consumers, Has
<1>12. FinishesTo(s, n, t)
  BY <1>2, <1>6, <1>8, <1>10, <1>11, Zenon DEF FinishesTo, moved, replaced
<1> QED BY <1>12 DEF t

\* A finished rebuild of good tables is good, and its revisions have advanced.
LEMMA FinishKeeps ==
  ASSUME NEW s, NEW n, NEW t, NEW loose, Good(s, loose), Replaced(s, n), FinishesTo(s, n, t)
  PROVE  Good(t, loose) /\ Advances(s, t)
<1> DEFINE kept == Ids(s.cues) \cap Ids(n.cues)
           moved(id) == id \in ChangedContexts(s, n)
           replaced(id) == \/ CueOf(s, id).tr # CueOf(n, id).tr
                           \/ CueOf(s, id).trEdited # CueOf(n, id).trEdited
           told(id) == /\ id \in Consumers(s.edges, ChangedContexts(s, n))
                       /\ CueOf(n, id).tr # None /\ ~CueOf(n, id).trEdited
<1>1. /\ Sound(t) /\ t.rev = n.rev + 1 /\ t.cues = n.cues
      /\ t.edges = {e \in n.edges : ~ (e.target \in kept /\ replaced(e.target))}
      /\ \A id \in kept :
           /\ t.prov[id].srcRev = (IF moved(id) THEN s.prov[id].srcRev + 1 ELSE s.prov[id].srcRev)
           /\ t.prov[id].trRev >= s.prov[id].trRev
           /\ replaced(id) => t.prov[id].trRev > s.prov[id].trRev
           /\ ~replaced(id) /\ (s.prov[id].depStale \/ told(id)) => t.prov[id].depStale
  BY Zenon DEF FinishesTo
<1>2. /\ Sound(s) /\ Rows(s.cues) /\ Rows(n.cues)
      /\ \A id \in Ids(s.cues) : s.prov[id].srcRev \in Nat /\ s.prov[id].trRev \in Nat
      /\ \A e \in s.edges : e.target \in Ids(s.cues) /\ e.context \in Ids(s.cues) /\ e.rev \in Nat
  BY SoundParts, Parts DEF Good, Replaced, Rebuilt
<1>3. \A id : CueOf(t, id) = CueOf(n, id) /\ (Has(t, id) <=> Has(n, id))
  BY <1>1 DEF CueOf, Has
<1>4. ASSUME NEW e \in t.edges
      PROVE  /\ e \in s.edges /\ e.target \in kept /\ e.context \in kept /\ ~replaced(e.target)
             /\ e.rev <= s.prov[e.context].srcRev
  BY <1>1, <1>2 DEF Replaced, Good, Flagged
\* What descends from a cue, and is not flagged, had none of its contexts moved.
<1>5. ASSUME NEW id \in Ids(n.cues), Machine(CueOf(n, id))
      PROVE  /\ id \in kept /\ ~replaced(id) /\ CueOf(n, id).id = id
             /\ Machine(CueOf(s, id)) /\ CueOf(s, id).id = id
             /\ CueOf(n, id).tr = CueOf(s, id).tr /\ CueOf(n, id).src = CueOf(s, id).src
             /\ CueOf(s, id).stale => CueOf(n, id).stale
  <2>1. CueOf(n, id) \in ToSet(n.cues) /\ CueOf(n, id).id = id
    BY <1>2, Found
  <2>2. Kept(s, CueOf(n, id))
    BY <2>1 DEF Replaced, Rebuilt, ToSet
  <2>3. Has(s, id) /\ CueOf(s, id).id = id
    BY <1>2, <1>5, <2>1, <2>2, Found DEF Kept, Has
  <2>4. /\ Machine(CueOf(s, id)) /\ CueOf(n, id).tr = CueOf(s, id).tr
        /\ CueOf(n, id).src = CueOf(s, id).src
        /\ CueOf(s, id).stale => CueOf(n, id).stale
    BY <1>5, <2>1, <2>2 DEF Kept
  <2>5. CueOf(n, id) \in ToSet(n.cues) /\ Row(CueOf(n, id)) /\ Row(CueOf(s, id))
    BY <1>2, <2>1, <2>3, Found DEF Has
  <2>6. CueOf(s, id).trEdited = CueOf(n, id).trEdited
    BY <1>5, <2>4, <2>5 DEF Machine, Row
  <2> QED BY <2>1, <2>3, <2>4, <2>6 DEF Has
<1>6. ASSUME NEW id \in Ids(n.cues), Machine(CueOf(n, id)), ~t.prov[id].depStale,
             NEW e \in s.edges, e.target = id
      PROVE  /\ ~s.prov[id].depStale /\ e.context \notin ChangedContexts(s, n)
             /\ e \in t.edges /\ t.prov[e.context].srcRev = s.prov[e.context].srcRev
  <2>1. id \in kept /\ ~replaced(id)
    BY <1>5, <1>6
  <2>2. ~s.prov[id].depStale /\ ~told(id)
    BY <1>1, <1>6, <2>1
  <2>3. e.context \notin ChangedContexts(s, n)
    BY <1>6, <2>2 DEF Machine, Consumers
  <2>4. e.context \in kept
    BY <1>2, <2>3, Unchanged DEF Has
  <2>5. e \in t.edges
    BY <1>1, <1>6, <2>1, <2>4 DEF Replaced
  <2> QED BY <1>1, <2>2, <2>3, <2>4, <2>5
<1>7. Current(t, loose)
  <2> SUFFICES ASSUME NEW id \in Ids(n.cues)
               PROVE  /\ OwnSource(CueOf(n, id))
                      /\ Machine(CueOf(n, id)) /\ id \notin loose /\ ~t.prov[id].depStale
                           => Contexts(t, CueOf(n, id))
    BY <1>1, <1>3 DEF Current
  <2>1. OwnSource(CueOf(n, id))
    <3>1. CueOf(n, id).stale => CueOf(n, id).tr # None
      BY <1>2, Found DEF Replaced, Rebuilt, ToSet
    <3>2. Machine(CueOf(n, id)) => OwnSource(CueOf(s, id))
      BY <1>5 DEF Good, Current
    <3> QED BY <1>5, <3>1, <3>2 DEF OwnSource
  <2>2. ASSUME Machine(CueOf(n, id)), id \notin loose, ~t.prov[id].depStale
        PROVE  Contexts(t, CueOf(n, id))
    <3>1. id \in Ids(s.cues) /\ Machine(CueOf(s, id)) /\ CueOf(s, id).id = id /\ CueOf(n, id).id = id
          /\ CueOf(n, id).tr = CueOf(s, id).tr /\ ~s.prov[id].depStale
      <4>1. id \in kept /\ ~replaced(id)
        BY <1>5, <2>2
      <4>2. ~s.prov[id].depStale
        BY <1>1, <2>2, <4>1
      <4> QED BY <1>5, <2>2, <4>2
    <3>2. Contexts(s, CueOf(s, id))
      BY <2>2, <3>1 DEF Good, Current
    <3>3. ASSUME NEW piece \in ToSet(CueOf(n, id).tr), NEW used \in piece.ctx
          PROVE  Has(t, used[1]) /\ CueOf(t, used[1]).src = used[2] /\ Linked(t, id, used[1])
      <4>1. Has(s, used[1]) /\ CueOf(s, used[1]).src = used[2] /\ Linked(s, id, used[1])
        BY <3>1, <3>2, <3>3 DEF Contexts
      <4>2. PICK e \in s.edges : e.target = id /\ e.context = used[1]
        BY <4>1 DEF Linked
      <4>3. e.context \notin ChangedContexts(s, n) /\ e \in t.edges
        BY <1>6, <2>2, <4>2
      <4>4. Has(n, used[1]) /\ CueOf(n, used[1]).src = used[2]
        BY <4>1, <4>2, <4>3, Unchanged DEF Has
      <4> QED BY <1>3, <4>2, <4>3, <4>4 DEF Linked
    <3> QED BY <3>1, <3>3 DEF Contexts
  <2> QED BY <2>1, <2>2
<1>8. Flagged(t)
  <2>1. \A e \in t.edges : e.rev <= t.prov[e.context].srcRev
    BY <1>1, <1>2, <1>4
  <2>2. ASSUME NEW id \in Ids(n.cues), NEW e \in t.edges, e.target = CueOf(n, id).id,
               e.rev < t.prov[e.context].srcRev, ~t.prov[CueOf(n, id).id].depStale,
               Machine(CueOf(n, id))
        PROVE  FALSE
    <3>1. /\ CueOf(n, id).id = id /\ CueOf(s, id).id = id /\ id \in Ids(s.cues)
          /\ Machine(CueOf(s, id))
      BY <1>5, <2>2
    <3>2. e \in s.edges /\ e.target = id
      BY <1>4, <2>2, <3>1
    <3>3. ~s.prov[id].depStale /\ t.prov[e.context].srcRev = s.prov[e.context].srcRev
      BY <1>6, <2>2, <3>1, <3>2
    <3>4. Lag(s, CueOf(s, id))
      BY <3>1 DEF Good, Flagged
    <3> QED BY <2>2, <3>1, <3>2, <3>3, <3>4 DEF Lag
  <2> QED BY <1>1, <1>3, <2>1, <2>2 DEF Flagged, Lag
<1>9. Advances(s, t)
  <2>1. t.rev > s.rev
    <3>1. s.rev \in Nat
      BY <1>2, SoundParts
    <3> QED BY <1>1, <3>1 DEF Replaced
  <2>2. ASSUME NEW id \in kept
        PROVE  /\ t.prov[id].srcRev >= s.prov[id].srcRev
               /\ Traced(CueOf(s, id), CueOf(t, id)) => t.prov[id].srcRev > s.prov[id].srcRev
    <3>1. Traced(CueOf(s, id), CueOf(t, id)) => moved(id)
      BY <1>3, Unchanged
    <3> QED BY <1>1, <1>2, <3>1
  <2>3. ASSUME NEW id \in kept
        PROVE  /\ t.prov[id].trRev >= s.prov[id].trRev
               /\ CueOf(s, id).tr # CueOf(t, id).tr => t.prov[id].trRev > s.prov[id].trRev
    BY <1>1, <1>3
  <2> QED BY <1>1, <2>1, <2>2, <2>3 DEF Advances
<1> QED BY <1>1, <1>7, <1>8, <1>9 DEF Good

\* Fresh lineages, and a lineage with recognition evidence.
LEMMA FreshLines ==
  /\ Unmarked \in Lineages /\ Structural \in Lineages
  /\ Unmarked.srcRev = 0 /\ Unmarked.trRev = 0 /\ Unmarked.depStale = FALSE
<1>1. Unmarked \in Lineages /\ Unmarked.srcRev = 0 /\ Unmarked.trRev = 0 /\ Unmarked.depStale = FALSE
  BY DEF Unmarked, Lineages
<1>2. Structural \in Lineages
  BY <1>1, Zenon DEF Structural, Lineages
<1> QED BY <1>1, <1>2

\* Lines of recognition evidence are not translated.
LEMMA RecognizedLines ==
  ASSUME NEW p \in Lineages
  PROVE  LET q == Recognized(p) IN
         /\ q \in Lineages /\ q.srcRev = p.srcRev /\ q.trRev = p.trRev /\ q.depStale = p.depStale
BY Zenon DEF Recognized, Lineages

\* What rewriting the rows of all cues does to the provenance and the edges.
LEMMA PersistDoes ==
  ASSUME NEW s, NEW cues, Sound(s), Rebuilt(s, cues)
  PROVE  LET n == PersistStructure(s, cues) IN
         Replaced(s, n) /\ n.cues = cues /\ n = [rev |-> n.rev, cues |-> n.cues, prov |-> n.prov, edges |-> n.edges]
<1> DEFINE n == PersistStructure(s, cues)
           prov == [i \in Ids(cues) |-> IF i \in DOMAIN s.prov THEN s.prov[i] ELSE Structural]
<1>1. /\ n.rev = s.rev + Len(cues) /\ n.cues = cues /\ n.prov = prov
      /\ n.edges = {e \in s.edges : e.target \in Ids(cues) /\ e.context \in Ids(cues)}
      /\ n = [rev |-> n.rev, cues |-> n.cues, prov |-> n.prov, edges |-> n.edges]
  BY Zenon DEF PersistStructure
<1> HIDE DEF n
<1>2. s.rev \in Nat /\ DOMAIN s.prov = Ids(s.cues) /\ \A id \in Ids(s.cues) : s.prov[id] \in Lineages
  BY SoundParts
<1>3. n.rev \in Nat /\ n.rev >= s.rev
  BY <1>1, <1>2 DEF Rebuilt, Rows, List
<1>4. n.prov \in [Ids(cues) -> Lineages]
  BY <1>1, <1>2, FreshLines
<1>5. \A id \in Ids(cues) \cap Ids(s.cues) : n.prov[id] = s.prov[id]
  BY <1>1, <1>2
<1> HIDE DEF prov
<1>6. Replaced(s, n)
  BY <1>1, <1>3, <1>4, <1>5 DEF Replaced
<1> QED BY <1>1, <1>6, Zenon DEF n

\* A recorded edit of good tables.
LEMMA RecordedEditKeeps ==
  ASSUME NEW s, NEW loose, NEW cues, Good(s, loose), Rebuilt(s, cues)
  PROVE  LET t == RecordedEdit(s, cues) IN
         Good(t, loose) /\ Advances(s, t) /\ t.cues = cues
<1> DEFINE n == PersistStructure(s, cues)
           t == FinishRecorded(s, n, {})
<1>1. Sound(s)
  BY DEF Good
<1>2. Replaced(s, n) /\ n.cues = cues
  BY <1>1, PersistDoes
<1> HIDE DEF n
<1>3. FinishesTo(s, n, t)
  BY <1>1, <1>2, FinishDoes
<1> HIDE DEF t
<1>4. Good(t, loose) /\ Advances(s, t)
  BY <1>2, <1>3, FinishKeeps
<1>5. t.cues = cues
  BY <1>2, <1>3 DEF FinishesTo
<1> QED BY <1>4, <1>5 DEF RecordedEdit, t, n

\* An adoption of candidates by good tables.
LEMMA RecordedAdoptionKeeps ==
  ASSUME NEW s, NEW loose, NEW start, NEW end, NEW new, Good(s, loose),
         Rebuilt(s, Adopted(s, start, end, new))
  PROVE  LET t == RecordedAdoption(s, start, end, new) IN
         Good(t, loose) /\ Advances(s, t) /\ t.cues = Adopted(s, start, end, new)
<1> DEFINE cues == Adopted(s, start, end, new)
           ids == Ids(new)
           p == PersistStructure(s, cues)
           prov == [i \in DOMAIN p.prov |-> IF i \in ids THEN Recognized(p.prov[i]) ELSE p.prov[i]]
           n == [p EXCEPT !.prov = [i \in DOMAIN @ |-> IF i \in ids THEN Recognized(@[i]) ELSE @[i]]]
           t == FinishRecorded(s, n, ids)
<1>1. Sound(s)
  BY DEF Good
<1> HIDE DEF cues
<1>2. /\ Replaced(s, p) /\ p.cues = cues
      /\ p = [rev |-> p.rev, cues |-> p.cues, prov |-> p.prov, edges |-> p.edges]
  BY <1>1, PersistDoes DEF cues
<1> HIDE DEF p
<1>3. n.rev = p.rev /\ n.cues = p.cues /\ n.prov = prov /\ n.edges = p.edges
  BY <1>2, Zenon
<1> HIDE DEF n
<1>4. /\ DOMAIN prov = Ids(cues)
      /\ \A id \in Ids(cues) :
           /\ prov[id] \in Lineages
           /\ prov[id].srcRev = p.prov[id].srcRev /\ prov[id].trRev = p.prov[id].trRev
           /\ prov[id].depStale = p.prov[id].depStale
  <2>1. DOMAIN p.prov = Ids(cues) /\ \A id \in Ids(cues) : p.prov[id] \in Lineages
    BY <1>2 DEF Replaced
  <2>2. DOMAIN prov = Ids(cues)
    BY <2>1
  <2>3. ASSUME NEW id \in Ids(cues)
        PROVE  /\ prov[id] \in Lineages
               /\ prov[id].srcRev = p.prov[id].srcRev /\ prov[id].trRev = p.prov[id].trRev
               /\ prov[id].depStale = p.prov[id].depStale
    <3>1. prov[id] = IF id \in ids THEN Recognized(p.prov[id]) ELSE p.prov[id]
      BY <2>1
    <3> HIDE DEF prov
    <3> QED BY <2>1, <3>1, RecognizedLines
  <2> QED BY <2>2, <2>3
<1>5. n.prov \in [Ids(n.cues) -> Lineages]
  <2>1. prov = [i \in DOMAIN prov |-> prov[i]]
    OBVIOUS
  <2> HIDE DEF prov
  <2> QED BY <1>2, <1>3, <1>4, <2>1
<1> HIDE DEF prov
<1>6. Replaced(s, n)
  BY <1>2, <1>3, <1>4, <1>5 DEF Replaced
<1>7. FinishesTo(s, n, t)
  BY <1>1, <1>6, FinishDoes
<1> HIDE DEF t
<1>8. Good(t, loose) /\ Advances(s, t)
  BY <1>6, <1>7, FinishKeeps
<1>9. t.cues = cues
  BY <1>2, <1>3, <1>7 DEF FinishesTo
<1> QED BY <1>8, <1>9, Zenon DEF RecordedAdoption, t, n, p, cues

-----------------------------------------------------------------------------
(* Undo of a structure edit *)

\* The undo of an edit brings its cues back, good, and with revisions that only grow.
LEMMA UndoKeeps ==
  ASSUME NEW s, NEW before, NEW loose, Good(s, loose), Good(before, loose)
  PROVE  LET t == UndoRecorded(s, before) IN
         Good(t, loose) /\ Advances(s, t) /\ t.cues = before.cues
<1> DEFINE t == UndoRecorded(s, before)
           ids == Ids(before.cues)
           rebuilt == PersistStructure(s, before.cues)
           current(id) == IF id \in DOMAIN s.prov THEN s.prov[id] ELSE Unmarked
           moved(id) == \/ ~Has(s, id)
                        \/ ~SameSource(CueOf(s, id), CueOf(before, id))
                        \/ ~SameLineage(s.prov[id], before.prov[id])
           touched(id) == \/ ~Has(s, id)
                          \/ CueOf(s, id).tr # CueOf(before, id).tr
                          \/ CueOf(s, id).trEdited # CueOf(before, id).trEdited
                          \/ CueOf(s, id).stale # CueOf(before, id).stale
                          \/ s.prov[id].depStale # before.prov[id].depStale
                          \/ EdgesOf(s, id) # EdgesOf(before, id)
           srcRev(id) == NextRevision(before.prov[id].srcRev, current(id).srcRev, moved(id))
           trRev(id) == NextRevision(before.prov[id].trRev, current(id).trRev, touched(id))
           rebound(e) == [e EXCEPT !.rev = IF @ = before.prov[e.context].srcRev
                                           THEN srcRev(e.context) ELSE @]
           prov == [i \in ids |-> [before.prov[i] EXCEPT !.srcRev = srcRev(i), !.trRev = trRev(i)]]
<1>1. t = [rev |-> rebuilt.rev + 1, cues |-> before.cues, prov |-> prov,
           edges |-> {rebound(e) : e \in before.edges}]
  BY Zenon DEF UndoRecorded
<1> HIDE DEF t
<1>2. /\ t.rev = rebuilt.rev + 1 /\ t.cues = before.cues /\ t.prov = prov
      /\ t.edges = {rebound(e) : e \in before.edges}
      /\ t = [rev |-> t.rev, cues |-> t.cues, prov |-> t.prov, edges |-> t.edges]
  BY <1>1, Zenon
<1>3. rebuilt.rev = s.rev + Len(before.cues)
  BY Zenon DEF PersistStructure
<1> HIDE DEF rebuilt, srcRev, trRev, rebound, prov, current, moved, touched
<1>4. /\ Rows(before.cues) /\ Rows(s.cues) /\ s.rev \in Nat
      /\ DOMAIN s.prov = Ids(s.cues) /\ \A id \in Ids(s.cues) : s.prov[id] \in Lineages
      /\ \A id \in ids : before.prov[id] \in Lineages
      /\ \A e \in before.edges : e \in [target : ids, context : ids, rev : Nat]
  BY SoundParts DEF Good
<1>5. ASSUME NEW id \in ids
      PROVE  /\ srcRev(id) \in Nat /\ srcRev(id) >= before.prov[id].srcRev
             /\ trRev(id) \in Nat
             /\ id \in Ids(s.cues) =>
                  /\ srcRev(id) >= s.prov[id].srcRev /\ trRev(id) >= s.prov[id].trRev
                  /\ moved(id) => srcRev(id) > s.prov[id].srcRev
                  /\ touched(id) => trRev(id) > s.prov[id].trRev
  <2> DEFINE p == before.prov[id]
             q == current(id)
  <2>1. p \in Lineages /\ q \in Lineages
    BY <1>4, FreshLines DEF current
  <2>2. id \in Ids(s.cues) => q = s.prov[id]
    BY <1>4 DEF current
  <2>3. moved(id) \in BOOLEAN /\ touched(id) \in BOOLEAN
    BY DEF moved, touched
  <2>4. /\ p.srcRev \in Nat /\ p.trRev \in Nat /\ q.srcRev \in Nat /\ q.trRev \in Nat
    BY <2>1, Parts
  <2>5. /\ srcRev(id) \in Nat /\ srcRev(id) >= p.srcRev /\ srcRev(id) >= q.srcRev
        /\ moved(id) => srcRev(id) > q.srcRev
    BY <2>3, <2>4, NextDoes DEF srcRev
  <2>6. /\ trRev(id) \in Nat /\ trRev(id) >= p.trRev /\ trRev(id) >= q.trRev
        /\ touched(id) => trRev(id) > q.trRev
    BY <2>3, <2>4, NextDoes DEF trRev
  <2> QED BY <2>2, <2>5, <2>6
<1>6. ASSUME NEW id \in ids
      PROVE  /\ prov[id] \in Lineages /\ prov[id].srcRev = srcRev(id) /\ prov[id].trRev = trRev(id)
             /\ prov[id].depStale = before.prov[id].depStale
  <2>1. before.prov[id] \in Lineages /\ srcRev(id) \in Nat /\ trRev(id) \in Nat
    BY <1>4, <1>5
  <2>2. prov[id] = [before.prov[id] EXCEPT !.srcRev = srcRev(id), !.trRev = trRev(id)]
    BY Zenon DEF prov
  <2> QED BY <2>1, <2>2, Zenon DEF Lineages
<1>7. ASSUME NEW e \in before.edges
      PROVE  /\ rebound(e) \in [target : ids, context : ids, rev : Nat]
             /\ rebound(e).target = e.target /\ rebound(e).context = e.context
             /\ rebound(e).rev = (IF e.rev = before.prov[e.context].srcRev
                                  THEN srcRev(e.context) ELSE e.rev)
  <2> DEFINE m == IF e.rev = before.prov[e.context].srcRev THEN srcRev(e.context) ELSE e.rev
  <2>1. e \in [target : ids, context : ids, rev : Nat]
    BY <1>4
  <2>2. m \in Nat
    BY <1>5, <2>1
  <2>3. rebound(e) = [e EXCEPT !.rev = m]
    BY Zenon DEF rebound
  <2> HIDE DEF m
  <2>4. /\ rebound(e) \in [target : ids, context : ids, rev : Nat]
        /\ rebound(e).target = e.target /\ rebound(e).context = e.context /\ rebound(e).rev = m
    BY <2>1, <2>2, <2>3, Zenon
  <2> QED BY <2>4, Zenon DEF m
<1>8. Sound(t)
  <2>1. t.rev \in Nat
    BY <1>2, <1>3, <1>4 DEF Rows, List
  <2>2. t.prov \in [ids -> Lineages]
    <3>1. DOMAIN prov = ids /\ prov = [i \in DOMAIN prov |-> prov[i]]
      BY Zenon DEF prov
    <3> QED BY <1>2, <1>6, <3>1
  <2>3. t.edges \subseteq [target : ids, context : ids, rev : Nat]
    BY <1>2, <1>7
  <2> QED BY <1>2, <1>4, <2>1, <2>2, <2>3 DEF Sound
<1>9. \A id : CueOf(t, id) = CueOf(before, id) /\ (Has(t, id) <=> Has(before, id))
  BY <1>2 DEF CueOf, Has
<1>10. \A id \in ids : t.prov[id].srcRev = srcRev(id) /\ t.prov[id].trRev = trRev(id)
                       /\ t.prov[id].depStale = before.prov[id].depStale
  BY <1>2, <1>6
<1>11. \A a, b : Linked(before, a, b) => Linked(t, a, b)
  BY <1>2, <1>7 DEF Linked
<1>12. Current(t, loose)
  <2> SUFFICES ASSUME NEW id \in ids
               PROVE  /\ OwnSource(CueOf(before, id))
                      /\ Machine(CueOf(before, id)) /\ id \notin loose /\ ~before.prov[id].depStale
                           => Contexts(t, CueOf(before, id))
    BY <1>2, <1>9, <1>10 DEF Current
  <2>1. /\ OwnSource(CueOf(before, id))
        /\ Machine(CueOf(before, id)) /\ id \notin loose /\ ~before.prov[id].depStale
             => Contexts(before, CueOf(before, id))
    BY DEF Good, Current
  <2>2. \A c : Contexts(before, c) => Contexts(t, c)
    BY <1>9, <1>11 DEF Contexts
  <2> QED BY <2>1, <2>2
<1>13. Flagged(t)
  <2>1. ASSUME NEW e \in before.edges
        PROVE  /\ rebound(e).rev <= srcRev(e.context)
               /\ rebound(e).rev < srcRev(e.context) => e.rev < before.prov[e.context].srcRev
               /\ e.context \in ids
    <3>1. e.context \in ids /\ e.rev \in Nat /\ before.prov[e.context].srcRev \in Nat
      BY <1>4, Parts
    <3>2. e.rev <= before.prov[e.context].srcRev
      BY DEF Good, Flagged
    <3>3. srcRev(e.context) \in Nat /\ srcRev(e.context) >= before.prov[e.context].srcRev
      BY <1>5, <3>1
    <3>4. CASE e.rev = before.prov[e.context].srcRev
      BY <1>7, <3>1, <3>3, <3>4
    <3>5. CASE e.rev # before.prov[e.context].srcRev
      BY <1>7, <3>1, <3>2, <3>3, <3>5
    <3> QED BY <3>1, <3>4, <3>5
  <2>2. \A f \in t.edges : f.rev <= t.prov[f.context].srcRev
    BY <1>2, <1>7, <1>10, <2>1
  <2>3. ASSUME NEW id \in ids
        PROVE  Lag(t, CueOf(before, id))
    <3>1. CueOf(before, id).id = id /\ Lag(before, CueOf(before, id))
      BY <1>4, Found DEF Good, Flagged
    <3>2. ASSUME NEW f \in t.edges, f.target = id, f.rev < t.prov[f.context].srcRev,
                 ~t.prov[id].depStale, Machine(CueOf(before, id))
          PROVE  FALSE
      <4>1. PICK e \in before.edges : f = rebound(e)
        BY <1>2
      <4>2. e.target = id /\ e.rev < before.prov[e.context].srcRev
        BY <1>7, <1>10, <2>1, <3>2, <4>1
      <4>3. ~before.prov[id].depStale
        BY <1>10, <3>2
      <4> QED BY <3>1, <3>2, <4>2, <4>3 DEF Lag
    <3> QED BY <3>1, <3>2 DEF Lag
  <2> QED BY <1>2, <1>9, <2>2, <2>3 DEF Flagged
<1>14. Advances(s, t)
  <2>1. t.rev > s.rev
    BY <1>2, <1>3, <1>4 DEF Rows, List
  <2>2. ASSUME NEW id \in Ids(s.cues) \cap ids
        PROVE  /\ Traced(CueOf(s, id), CueOf(t, id)) => moved(id)
               /\ CueOf(s, id).tr # CueOf(t, id).tr => touched(id)
    BY <1>9 DEF moved, touched, Traced, SameSource
  <2> QED BY <1>2, <1>5, <1>10, <2>1, <2>2 DEF Advances
<1> QED BY <1>2, <1>8, <1>12, <1>13, <1>14 DEF Good, t

-----------------------------------------------------------------------------
(* A group of machine translations *)

\* A group as a run builds it: one update for a cue, each text made from the source
\* it expects and from contexts among the dependencies, which are no targets.
Group(updates, dependencies) ==
    /\ \A u, w \in updates : u.id = w.id => u = w
    /\ \A u \in updates : \A d \in dependencies : d.id # u.id
    /\ \A u \in updates : \A piece \in ToSet(u.text) :
         /\ piece.of = u.src
         /\ \A used \in piece.ctx : \E d \in dependencies : d.id = used[1] /\ d.src = used[2]

\* The cues whose translation a group replaces by another text.
Differing(s, updates) == {u.id : u \in {w \in updates : CueOf(s, w.id).tr # w.text}}

\* What a group does to the tables.
AppliesTo(s, updates, dependencies, t) ==
    /\ Sound(t) /\ Ids(t.cues) = Ids(s.cues)
    /\ DOMAIN t.cues = DOMAIN s.cues
    /\ \A i \in DOMAIN s.cues : t.cues[i].id = s.cues[i].id
    /\ \A id \in Ids(s.cues) :
         /\ \A u \in updates : u.id = id =>
              /\ CueOf(t, id).tr = u.text /\ ~CueOf(t, id).trEdited /\ ~CueOf(t, id).stale
              /\ t.prov[id].depStale = (\E d \in dependencies : Outdated(s, d))
         /\ CueOf(t, id).id = id
         /\ CueOf(t, id).src = CueOf(s, id).src /\ CueOf(t, id).start = CueOf(s, id).start
         /\ CueOf(t, id).end = CueOf(s, id).end
         /\ CueOf(t, id).srcEdited = CueOf(s, id).srcEdited
         /\ CueOf(t, id).timeEdited = CueOf(s, id).timeEdited
         /\ (\A u \in updates : u.id # id) =>
              CueOf(t, id) = CueOf(s, id) /\ t.prov[id].depStale = s.prov[id].depStale
         /\ t.prov[id].srcRev = s.prov[id].srcRev
         /\ t.prov[id].trRev =
              (IF id \in Differing(s, updates) THEN s.prov[id].trRev + 1 ELSE s.prov[id].trRev)
    /\ t.rev >= s.rev
    /\ Differing(s, updates) # {} => t.rev > s.rev
    /\ \A e \in t.edges :
         \/ e \in s.edges /\ \A u \in updates : u.id # e.target
         \/ e.rev = s.prov[e.context].srcRev
    /\ \A e \in s.edges : (\A u \in updates : u.id # e.target) => e \in t.edges
    /\ \A u \in updates : \A d \in dependencies : Has(s, d.id) => Linked(t, u.id, d.id)

\* A list holds finitely many identities, as many as cues.
LEMMA FiniteIds ==
  ASSUME NEW cues, Rows(cues)
  PROVE  IsFiniteSet(Ids(cues)) /\ Cardinality(Ids(cues)) = Len(cues)
<1> DEFINE f == [i \in 1..Len(cues) |-> cues[i].id]
<1>1. DOMAIN cues = 1..Len(cues) /\ Len(cues) \in Nat
  BY ListSeq DEF Rows, List
<1>2. Ids(cues) = {cues[i].id : i \in 1..Len(cues)}
  BY <1>1 DEF Ids, ToSet
<1>3. \A i, j \in 1..Len(cues) : f[i] = f[j] => i = j
  BY <1>1 DEF Rows, Distinct
<1>4. f \in [1..Len(cues) -> Ids(cues)] /\ \A id \in Ids(cues) : \E i \in 1..Len(cues) : f[i] = id
  BY <1>2
<1>5. f \in Bijection(1..Len(cues), Ids(cues))
  BY <1>3, <1>4 DEF Bijection, Injection, Surjection, IsInjective
<1>6. IsFiniteSet(1..Len(cues)) /\ Cardinality(1..Len(cues)) = Len(cues)
  <2> DEFINE n == Len(cues)
  <2>1. n \in Nat
    BY <1>1
  <2> HIDE DEF n
  <2>2. IsFiniteSet(1..n) /\ Cardinality(1..n) = IF 1 > n THEN 0 ELSE n - 1 + 1
    BY <2>1, FS_Interval
  <2>3. IsFiniteSet(1..n) /\ Cardinality(1..n) = n
    BY <2>1, <2>2
  <2> QED BY <2>3 DEF n
<1>7. ExistsBijection(1..Len(cues), Ids(cues))
  BY <1>5 DEF ExistsBijection
<1> HIDE DEF f
<1>8. IsFiniteSet(Ids(cues)) /\ Cardinality(Ids(cues)) = Cardinality(1..Len(cues))
  BY <1>6, <1>7, FS_Bijection
<1> QED BY <1>6, <1>8

\* What a group does to the tables, cue by cue.
LEMMA ApplyDoes ==
  ASSUME NEW s, NEW updates, NEW dependencies, Sound(s), Group(updates, dependencies),
         CanApply(s, updates)
  PROVE  AppliesTo(s, updates, dependencies, ApplyGroup(s, updates, dependencies))
<1> DEFINE t == ApplyGroup(s, updates, dependencies)
           ids == Ids(s.cues)
           targets == {u.id : u \in updates}
           text(id) == (CHOOSE u \in updates : u.id = id).text
           stale == \E d \in dependencies : Outdated(s, d)
           present == {d.id : d \in dependencies} \cap Ids(s.cues)
           differs == {id \in targets : CueOf(s, id).tr # text(id)}
           cues == [i \in DOMAIN s.cues |->
                      IF s.cues[i].id \in targets
                      THEN [s.cues[i] EXCEPT !.tr = text(s.cues[i].id), !.trEdited = FALSE,
                                             !.stale = FALSE]
                      ELSE s.cues[i]]
           prov == [i \in DOMAIN s.prov |->
                      [s.prov[i] EXCEPT !.trRev = IF i \in differs THEN @ + 1 ELSE @,
                                        !.depStale = IF i \in targets THEN stale ELSE @]]
           new == UNION {{[target |-> a, context |-> c, rev |-> s.prov[c].srcRev] :
                             c \in present \ {a}} : a \in targets}
<1>1. /\ t.rev = s.rev + Cardinality(differs) /\ t.cues = cues /\ t.prov = prov
      /\ t.edges = {e \in s.edges : e.target \notin targets} \cup new
      /\ t = [rev |-> t.rev, cues |-> t.cues, prov |-> t.prov, edges |-> t.edges]
  BY Zenon DEF ApplyGroup
<1> HIDE DEF t
<1>2. /\ Rows(s.cues) /\ s.rev \in Nat /\ DOMAIN s.prov = ids
      /\ \A id \in ids : s.prov[id] \in Lineages
      /\ \A e \in s.edges : e \in [target : ids, context : ids, rev : Nat]
      /\ List(s.cues) /\ DOMAIN s.cues = 1..Len(s.cues) /\ Len(s.cues) \in Nat
  <2>1. Rows(s.cues)
    BY SoundParts
  <2>2. List(s.cues) /\ DOMAIN s.cues = 1..Len(s.cues) /\ Len(s.cues) \in Nat
    BY <2>1, ListSeq DEF Rows, List
  <2> QED BY <2>1, <2>2, SoundParts
<1>3. \A u \in updates : u.id \in ids /\ text(u.id) = u.text
  BY DEF CanApply, Has, Group
<1>4. differs = Differing(s, updates) /\ targets \subseteq ids /\ differs \subseteq ids
  BY <1>3 DEF Differing
<1>5. IsFiniteSet(ids)
  BY <1>2, FiniteIds
<1>6. /\ Cardinality(differs) \in Nat /\ IsFiniteSet(differs)
      /\ differs # {} => Cardinality(differs) # 0
  <2>1. IsFiniteSet(differs)
    BY <1>4, <1>5, FS_Subset
  <2> QED BY <2>1, FS_CardinalityType, FS_EmptySet
<1> HIDE DEF text, present, differs, stale, new
<1>7. ASSUME NEW i \in DOMAIN s.cues
      PROVE  LET c == s.cues[i] IN
             /\ Row(cues[i]) /\ cues[i].id = c.id /\ cues[i].src = c.src /\ cues[i].start = c.start
             /\ cues[i].end = c.end /\ cues[i].srcEdited = c.srcEdited
             /\ cues[i].timeEdited = c.timeEdited
             /\ c.id \in targets =>
                  cues[i].tr = text(c.id) /\ ~cues[i].trEdited /\ ~cues[i].stale
             /\ c.id \notin targets => cues[i] = c
  <2> DEFINE c == s.cues[i]
  <2>1. Row(c) /\ c \in CueSet(c.id, c.src, c.tr) /\ c.start < c.end
    BY <1>2, RowCue DEF Rows
  <2>2. CASE c.id \notin targets
    <3>1. cues[i] = c
      BY <2>2, Zenon
    <3> HIDE DEF cues
    <3> QED BY <2>1, <2>2, <3>1
  <2>3. CASE c.id \in targets
    <3>1. cues[i] = [c EXCEPT !.tr = text(c.id), !.trEdited = FALSE, !.stale = FALSE]
      BY <2>3, Zenon
    <3> HIDE DEF cues, c, targets
    <3>2. /\ cues[i] \in CueSet(c.id, c.src, text(c.id)) /\ cues[i].start = c.start
          /\ cues[i].end = c.end /\ cues[i].srcEdited = c.srcEdited
          /\ cues[i].timeEdited = c.timeEdited /\ cues[i].trEdited = FALSE /\ cues[i].stale = FALSE
      BY <2>1, <3>1, Zenon DEF CueSet
    <3>3. /\ Row(cues[i]) /\ cues[i].id = c.id /\ cues[i].src = c.src /\ cues[i].tr = text(c.id)
      <4> HIDE <3>1
      <4> QED BY <2>1, <3>2, CueRow
    <3> QED BY <2>3, <3>2, <3>3, Zenon DEF c
  <2> QED BY <2>2, <2>3
<1>8. /\ Rows(t.cues) /\ Ids(t.cues) = ids /\ DOMAIN t.cues = DOMAIN s.cues
      /\ \A i \in DOMAIN s.cues : t.cues[i].id = s.cues[i].id
      /\ \A id \in ids : Position(t.cues, id) = Position(s.cues, id)
  <2>1. DOMAIN cues = 1..Len(s.cues) /\ cues = [i \in 1..Len(s.cues) |-> cues[i]]
    BY <1>2, Zenon
  <2> HIDE DEF cues
  <2>2. List(t.cues) /\ Len(t.cues) = Len(s.cues)
    BY <1>1, <1>2, <2>1, MapList
  <2>3. \A i \in DOMAIN s.cues : t.cues[i].id = s.cues[i].id
    BY <1>1, <1>7
  <2>4. /\ Distinct(t.cues) /\ Ids(t.cues) = ids /\ DOMAIN t.cues = DOMAIN s.cues
        /\ \A id \in ids : Position(t.cues, id) = Position(s.cues, id)
    BY <1>2, <2>2, <2>3, SameIds
  <2> QED BY <1>1, <1>7, <2>2, <2>3, <2>4 DEF Rows
<1> HIDE DEF cues
<1>9. ASSUME NEW id \in ids
      PROVE  /\ CueOf(t, id).id = id
             /\ CueOf(t, id).src = CueOf(s, id).src /\ CueOf(t, id).start = CueOf(s, id).start
             /\ CueOf(t, id).end = CueOf(s, id).end
             /\ CueOf(t, id).srcEdited = CueOf(s, id).srcEdited
             /\ CueOf(t, id).timeEdited = CueOf(s, id).timeEdited
             /\ id \in targets => CueOf(t, id).tr = text(id) /\ ~CueOf(t, id).trEdited
                                  /\ ~CueOf(t, id).stale
             /\ id \notin targets => CueOf(t, id) = CueOf(s, id)
  <2>1. PICK i \in DOMAIN s.cues : CueOf(s, id) = s.cues[i] /\ s.cues[i].id = id
                                   /\ Position(s.cues, id) = i
    BY <1>2, Found
  <2>2. CueOf(t, id) = cues[i]
    BY <1>1, <1>8, <2>1 DEF CueOf
  <2> HIDE DEF targets
  <2> QED BY <1>7, <2>1, <2>2
<1>10. ASSUME NEW id \in ids
       PROVE  /\ prov[id] \in Lineages /\ prov[id].srcRev = s.prov[id].srcRev
              /\ prov[id].trRev = (IF id \in differs THEN s.prov[id].trRev + 1 ELSE s.prov[id].trRev)
              /\ prov[id].depStale = (IF id \in targets THEN stale ELSE s.prov[id].depStale)
  <2> DEFINE p == s.prov[id]
             a == IF id \in differs THEN p.trRev + 1 ELSE p.trRev
             b == IF id \in targets THEN stale ELSE p.depStale
  <2>1. p \in Lineages
    BY <1>2
  <2>2. a \in Nat /\ b \in BOOLEAN
    <3>1. p.trRev \in Nat /\ p.depStale \in BOOLEAN /\ stale \in BOOLEAN
      BY <2>1, Parts DEF stale
    <3> HIDE DEF p
    <3> QED BY <3>1
  <2>3. prov[id] = [p EXCEPT !.trRev = a, !.depStale = b]
    BY <1>2, Zenon
  <2> HIDE DEF a, b, prov
  <2>4. prov[id] \in Lineages /\ prov[id].srcRev = p.srcRev /\ prov[id].trRev = a /\ prov[id].depStale = b
    BY <2>1, <2>2, <2>3, Zenon DEF Lineages
  <2> QED BY <2>4, Zenon DEF a, b
<1>11. DOMAIN prov = ids /\ prov = [i \in DOMAIN prov |-> prov[i]]
  BY <1>2, Zenon
<1> HIDE DEF prov
<1>12. \A e \in new :
          /\ e \in [target : ids, context : ids, rev : Nat]
          /\ e.target \in targets /\ e.rev = s.prov[e.context].srcRev
  <2> SUFFICES ASSUME NEW a \in targets, NEW c \in present \ {a}, NEW e,
                      e = [target |-> a, context |-> c, rev |-> s.prov[c].srcRev]
               PROVE  /\ e \in [target : ids, context : ids, rev : Nat]
                      /\ e.target \in targets /\ e.rev = s.prov[e.context].srcRev
    BY DEF new
  <2>1. a \in ids /\ c \in ids /\ s.prov[c].srcRev \in Nat
    BY <1>2, <1>4, Parts DEF present
  <2> QED BY <2>1
<1>13. Sound(t)
  <2>1. t.rev \in Nat
    BY <1>1, <1>2, <1>6
  <2>2. t.prov \in [ids -> Lineages]
    BY <1>1, <1>10, <1>11
  <2>3. t.edges \subseteq [target : ids, context : ids, rev : Nat]
    BY <1>1, <1>2, <1>12
  <2> QED BY <1>1, <1>8, <2>1, <2>2, <2>3 DEF Sound
<1>14. ASSUME NEW u \in updates, NEW d \in dependencies, Has(s, d.id)
       PROVE  Linked(t, u.id, d.id)
  <2> DEFINE e == [target |-> u.id, context |-> d.id, rev |-> s.prov[d.id].srcRev]
  <2>1. u.id \in targets /\ d.id \in present \ {u.id}
    BY <1>14 DEF present, Has, Group
  <2>2. e \in new
    BY <2>1 DEF new
  <2> QED BY <1>1, <2>2 DEF Linked
<1>15. \A id : id \in targets <=> \E u \in updates : u.id = id
  OBVIOUS
<1>16. ASSUME NEW id \in ids
       PROVE  /\ \A u \in updates : u.id = id =>
                   /\ CueOf(t, id).tr = u.text /\ ~CueOf(t, id).trEdited /\ ~CueOf(t, id).stale
                   /\ t.prov[id].depStale = (\E d \in dependencies : Outdated(s, d))
              /\ (\A u \in updates : u.id # id) =>
                   CueOf(t, id) = CueOf(s, id) /\ t.prov[id].depStale = s.prov[id].depStale
  <2> HIDE DEF targets
  <2>1. ASSUME NEW u \in updates, u.id = id
        PROVE  /\ CueOf(t, id).tr = u.text /\ ~CueOf(t, id).trEdited /\ ~CueOf(t, id).stale
               /\ t.prov[id].depStale = stale
    BY <1>1, <1>3, <1>9, <1>10, <1>15, <2>1
  <2>2. ASSUME \A u \in updates : u.id # id
        PROVE  CueOf(t, id) = CueOf(s, id) /\ t.prov[id].depStale = s.prov[id].depStale
    BY <1>1, <1>9, <1>10, <1>15, <2>2
  <2> QED BY <2>1, <2>2 DEF stale
<1>17. /\ t.rev >= s.rev
       /\ Differing(s, updates) # {} => t.rev > s.rev
  BY <1>1, <1>2, <1>4, <1>6
<1>18. /\ \A e \in t.edges :
             \/ e \in s.edges /\ \A u \in updates : u.id # e.target
             \/ e.rev = s.prov[e.context].srcRev
       /\ \A e \in s.edges : (\A u \in updates : u.id # e.target) => e \in t.edges
  BY <1>1, <1>12
<1>19. \A id \in ids : t.prov[id].srcRev = s.prov[id].srcRev
         /\ t.prov[id].trRev =
              (IF id \in Differing(s, updates) THEN s.prov[id].trRev + 1 ELSE s.prov[id].trRev)
  BY <1>1, <1>4, <1>10
<1> HIDE DEF targets
<1> QED BY <1>8, <1>9, <1>13, <1>14, <1>16, <1>17, <1>18, <1>19, Zenon DEF AppliesTo, t

\* The answered translations are made from what the tables hold, or are flagged;
\* those of the other cues stand as they did.
LEMMA ApplyKeeps ==
  ASSUME NEW s, NEW loose, NEW after, NEW updates, NEW dependencies, NEW t, Good(s, loose),
         Group(updates, dependencies), CanApply(s, updates),
         AppliesTo(s, updates, dependencies, t), loose \ Differing(s, updates) \subseteq after
  PROVE  Good(t, after) /\ \A v : v.id \in Ids(s.cues) /\ Lag(s, v) => Lag(t, v)
<1> DEFINE Target(id) == \E u \in updates : u.id = id
<1>1. /\ Rows(s.cues) /\ Sound(t) /\ Ids(t.cues) = Ids(s.cues) /\ Rows(t.cues)
      /\ \A e \in s.edges : e.target \in Ids(s.cues) /\ e.context \in Ids(s.cues) /\ e.rev \in Nat
      /\ \A e \in t.edges : e.target \in Ids(s.cues) /\ e.context \in Ids(s.cues) /\ e.rev \in Nat
      /\ \A id \in Ids(s.cues) : s.prov[id].srcRev \in Nat /\ t.prov[id].srcRev = s.prov[id].srcRev
  BY SoundParts, Parts DEF Good, AppliesTo
<1>2. ASSUME NEW id \in Ids(s.cues), ~Target(id)
      PROVE  /\ CueOf(t, id) = CueOf(s, id) /\ t.prov[id].depStale = s.prov[id].depStale
             /\ \A e \in s.edges : e.target = id => e \in t.edges
  <2>1. \A u \in updates : u.id # id
    BY <1>2
  <2>2. CueOf(t, id) = CueOf(s, id) /\ t.prov[id].depStale = s.prov[id].depStale
    BY <2>1, Zenon DEF AppliesTo
  <2>3. \A e \in s.edges : e.target = id => e \in t.edges
    <3>1. \A e \in s.edges : (\A u \in updates : u.id # e.target) => e \in t.edges
      BY Zenon DEF AppliesTo
    <3> QED BY <2>1, <3>1
  <2> QED BY <2>2, <2>3
<1>3. ASSUME NEW e \in t.edges, e.rev < t.prov[e.context].srcRev
      PROVE  e \in s.edges /\ ~Target(e.target)
  BY <1>1, <1>3 DEF AppliesTo
<1>4. \A id \in Ids(s.cues) : CueOf(t, id).src = CueOf(s, id).src /\ CueOf(t, id).id = id
  BY DEF AppliesTo
<1>5. ASSUME NEW v, v.id \in Ids(s.cues), Lag(s, v)
      PROVE  Lag(t, v)
  BY <1>1, <1>2, <1>3, <1>5 DEF Lag
<1>6. Flagged(t)
  <2>1. \A e \in t.edges : e.rev <= t.prov[e.context].srcRev
    BY <1>1 DEF AppliesTo, Good, Flagged
  <2>2. ASSUME NEW id \in Ids(s.cues)
        PROVE  Lag(t, CueOf(t, id))
    <3>1. CASE Target(id)
      BY <1>3, <1>4, <3>1 DEF Lag
    <3>2. CASE ~Target(id)
      <4>1. CueOf(t, id) = CueOf(s, id) /\ CueOf(s, id).id = id /\ Lag(s, CueOf(s, id))
        BY <1>1, <1>2, <3>2, Found DEF Good, Flagged
      <4> QED BY <1>5, <4>1
    <3> QED BY <3>1, <3>2
  <2> QED BY <1>1, <2>1, <2>2 DEF Flagged
<1>7. ASSUME NEW id \in Ids(s.cues)
      PROVE  /\ OwnSource(CueOf(t, id))
             /\ Machine(CueOf(t, id)) /\ id \notin after /\ ~t.prov[id].depStale
                  => Contexts(t, CueOf(t, id))
  <2>1. CASE Target(id)
    <3>1. PICK u \in updates : u.id = id
      BY <2>1
    <3>2. /\ CueOf(t, id).tr = u.text /\ ~CueOf(t, id).stale /\ CueOf(t, id).id = id
          /\ CueOf(t, id).src = u.src
          /\ t.prov[id].depStale = (\E d \in dependencies : Outdated(s, d))
      BY <1>4, <3>1 DEF AppliesTo, CanApply
    <3>3. OwnSource(CueOf(t, id))
      BY <3>2 DEF OwnSource, Group
    <3>4. ASSUME ~t.prov[id].depStale, NEW piece \in ToSet(u.text), NEW used \in piece.ctx
          PROVE  Has(t, used[1]) /\ CueOf(t, used[1]).src = used[2] /\ Linked(t, id, used[1])
      <4>1. PICK d \in dependencies : d.id = used[1] /\ d.src = used[2]
        BY <3>4 DEF Group
      <4>2. Has(s, d.id) /\ CueOf(s, d.id).src = d.src
        BY <3>2, <3>4 DEF Outdated
      <4>3. Linked(t, id, d.id)
        BY <3>1, <4>2 DEF AppliesTo
      <4> QED BY <1>1, <1>4, <4>1, <4>2, <4>3 DEF Has
    <3> QED BY <3>2, <3>3, <3>4 DEF Contexts
  <2>2. CASE ~Target(id)
    <3>1. /\ CueOf(t, id) = CueOf(s, id) /\ t.prov[id].depStale = s.prov[id].depStale
          /\ \A e \in s.edges : e.target = id => e \in t.edges
          /\ CueOf(s, id).id = id
      BY <1>1, <1>2, <2>2, Found
    <3>2. id \notin after => id \notin loose
      BY <2>2 DEF Differing
    <3>3. /\ OwnSource(CueOf(s, id))
          /\ Machine(CueOf(s, id)) /\ id \notin loose /\ ~s.prov[id].depStale
               => Contexts(s, CueOf(s, id))
      BY DEF Good, Current
    <3>4. Contexts(s, CueOf(s, id)) => Contexts(t, CueOf(s, id))
      BY <1>1, <1>4, <3>1 DEF Contexts, Linked, Has
    <3> QED BY <3>1, <3>2, <3>3, <3>4
  <2> QED BY <2>1, <2>2
<1>8. Current(t, after)
  BY <1>1, <1>7 DEF Current
<1> QED BY <1>1, <1>5, <1>6, <1>8 DEF Good

-----------------------------------------------------------------------------
(* The transcript written again, and recovered evidence *)

\* Tables that differ in no cue, edge, revision of a cue or flag are as good.
LEMMA SameTexts ==
  ASSUME NEW s, NEW t, NEW loose, Good(s, loose), Sound(t), t.cues = s.cues, t.edges = s.edges,
         \A id \in Ids(s.cues) :
            t.prov[id].srcRev = s.prov[id].srcRev /\ t.prov[id].depStale = s.prov[id].depStale
  PROVE  /\ Good(t, loose)
         /\ \A v : v.id \in Ids(s.cues) /\ Lag(s, v) => Lag(t, v)
<1>1. \A id : CueOf(t, id) = CueOf(s, id) /\ (Has(t, id) <=> Has(s, id))
  BY DEF CueOf, Has
<1>2. /\ Rows(s.cues)
      /\ \A e \in s.edges : e.target \in Ids(s.cues) /\ e.context \in Ids(s.cues)
  BY SoundParts, Parts DEF Good
<1>3. \A v : v.id \in Ids(s.cues) /\ Lag(s, v) => Lag(t, v)
  BY <1>1, <1>2 DEF Lag
<1>4. Flagged(t)
  BY <1>1, <1>2, <1>3, Found DEF Good, Flagged
<1>5. \A c : Contexts(s, c) => Contexts(t, c)
  BY <1>1 DEF Contexts, Linked
<1>6. Current(t, loose)
  BY <1>1, <1>5 DEF Good, Current
<1> QED BY <1>3, <1>4, <1>6 DEF Good

\* A cue that still says what was published where the user changed nothing.
Original(c, p) ==
    /\ c.id = p.id
    /\ ~c.srcEdited => c.src = p.src
    /\ ~c.timeEdited => c.start = p.start /\ c.end = p.end
Pristine(s, published) ==
    /\ Len(s.cues) = Len(published)
    /\ \A i \in DOMAIN s.cues : Original(s.cues[i], published[i])

\* A transcript: cues of distinct identities, nothing translated, nothing edited.
Transcript(published) ==
    /\ Rows(published)
    /\ \A i \in DOMAIN published :
         LET p == published[i] IN
         p.tr = None /\ ~p.srcEdited /\ ~p.trEdited /\ ~p.stale /\ ~p.timeEdited

\* Cues with the same fields are the same.
LEMMA SameCue ==
  ASSUME NEW id, NEW src, NEW tr, NEW a \in CueSet(id, src, tr), NEW b \in CueSet(id, src, tr),
         a.start = b.start, a.end = b.end, a.srcEdited = b.srcEdited, a.trEdited = b.trEdited,
         a.stale = b.stale, a.timeEdited = b.timeEdited
  PROVE  a = b
<1>1. \A c \in CueSet(id, src, tr) :
        c = [id |-> id, start |-> c.start, end |-> c.end, src |-> src, tr |-> tr,
             srcEdited |-> c.srcEdited, trEdited |-> c.trEdited, stale |-> c.stale,
             timeEdited |-> c.timeEdited]
  BY DEF CueSet
<1> QED BY <1>1, Zenon

\* A merged cue is the one that is there.
LEMMA MergedStays ==
  ASSUME NEW s, Told(s), NEW i \in DOMAIN s.cues, NEW p, Row(p), Original(s.cues[i], p),
         p.tr = None, ~p.srcEdited, ~p.trEdited, ~p.stale, ~p.timeEdited
  PROVE  MergedCue(s, p) = s.cues[i]
<1> DEFINE c == s.cues[i]
           src == IF c.srcEdited THEN c.src ELSE p.src
           new == [p EXCEPT !.src = src, !.srcEdited = c.srcEdited,
                            !.start = IF c.timeEdited THEN c.start ELSE @,
                            !.end = IF c.timeEdited THEN c.end ELSE @,
                            !.timeEdited = c.timeEdited]
           kept == [new EXCEPT !.tr = c.tr, !.trEdited = c.trEdited,
                               !.stale = c.stale \/ src # c.src]
<1>1. c.id = p.id /\ Has(s, p.id) /\ CueOf(s, p.id) = c
  BY Found DEF Told, Original
<1>2. MergedCue(s, p) = IF c.tr # None \/ c.trEdited THEN kept ELSE new
  BY <1>1, Zenon DEF MergedCue
<1>3. /\ Row(c) /\ c \in CueSet(c.id, c.src, c.tr) /\ p \in CueSet(c.id, p.src, None)
      /\ p.trEdited = FALSE /\ p.stale = FALSE /\ (c.stale => c.tr # None)
  <2>1. Row(c) /\ (c.stale => c.tr # None)
    BY DEF Told, Rows
  <2>2. p.trEdited = FALSE /\ p.stale = FALSE
    BY DEF Row
  <2> QED BY <1>1, <2>1, <2>2, RowCue
<1>4. /\ src = c.src /\ (IF c.timeEdited THEN c.start ELSE p.start) = c.start
      /\ (IF c.timeEdited THEN c.end ELSE p.end) = c.end
      /\ c.start \in Int /\ c.end \in Int /\ c.srcEdited \in BOOLEAN /\ c.timeEdited \in BOOLEAN
      /\ c.trEdited \in BOOLEAN /\ c.stale \in BOOLEAN
  BY <1>3 DEF Original, Row
<1>5. new = [p EXCEPT !.src = c.src, !.srcEdited = c.srcEdited, !.start = c.start,
                      !.end = c.end, !.timeEdited = c.timeEdited]
  BY <1>4, Zenon
<1>6. kept = [new EXCEPT !.tr = c.tr, !.trEdited = c.trEdited, !.stale = c.stale \/ src # c.src]
  BY Zenon
<1> HIDE DEF new, kept, c
<1>7. /\ new \in CueSet(c.id, c.src, None) /\ new.start = c.start /\ new.end = c.end
      /\ new.srcEdited = c.srcEdited /\ new.timeEdited = c.timeEdited
      /\ new.trEdited = FALSE /\ new.stale = FALSE
  BY <1>3, <1>4, <1>5, Zenon DEF CueSet
<1>8. (c.stale \/ src # c.src) = c.stale
  BY <1>4
<1> HIDE DEF src
<1>9. kept = [new EXCEPT !.tr = c.tr, !.trEdited = c.trEdited, !.stale = c.stale]
  BY <1>6, <1>8, Zenon
<1>10. /\ kept \in CueSet(c.id, c.src, c.tr) /\ kept.start = c.start /\ kept.end = c.end
       /\ kept.srcEdited = c.srcEdited /\ kept.timeEdited = c.timeEdited
       /\ kept.trEdited = c.trEdited /\ kept.stale = c.stale
  BY <1>4, <1>7, <1>9, Zenon DEF CueSet
<1>11. kept = c
  <2> HIDE <1>5, <1>6, <1>9
  <2> QED BY <1>3, <1>10, SameCue, Zenon
<1>12. ASSUME ~ (c.tr # None \/ c.trEdited)
       PROVE  new = c
  <2>1. c.tr = None /\ c.trEdited = FALSE /\ c.stale = FALSE
    BY <1>3, <1>4, <1>12
  <2>2. c \in CueSet(c.id, c.src, None)
    BY <1>3, <2>1, Zenon
  <2> HIDE <1>5, <1>6, <1>9
  <2> QED BY <1>7, <2>1, <2>2, SameCue, Zenon
<1> QED BY <1>2, <1>11, <1>12, Zenon DEF c

\* A refresh keeps the tables good and every translation with its flags.
LEMMA MergeKeeps ==
  ASSUME NEW s, NEW loose, NEW published, Good(s, loose), Transcript(published),
         Pristine(s, published)
  PROVE  LET t == MergeSnapshot(s, published) IN
         /\ Good(t, loose) /\ t.cues = s.cues /\ t.prov = s.prov /\ t.edges = s.edges
         /\ t.rev >= s.rev /\ \A v : v.id \in Ids(s.cues) /\ Lag(s, v) => Lag(t, v)
<1> DEFINE t == MergeSnapshot(s, published)
           ids == Ids(published)
           cues == [i \in DOMAIN published |-> MergedCue(s, published[i])]
           prov == [i \in ids |-> IF i \in DOMAIN s.prov THEN s.prov[i] ELSE Unmarked]
<1>1. t = [rev |-> s.rev + Len(published), cues |-> cues, prov |-> prov,
           edges |-> {e \in s.edges : e.target \in ids /\ e.context \in ids}]
  BY Zenon DEF MergeSnapshot
<1> HIDE DEF t
<1>2. /\ Told(s) /\ Rows(s.cues) /\ s.rev \in Nat /\ DOMAIN s.prov = Ids(s.cues)
      /\ s.prov \in [Ids(s.cues) -> Lineages]
      /\ \A e \in s.edges : e.target \in Ids(s.cues) /\ e.context \in Ids(s.cues)
  BY GoodTold, SoundParts, Parts DEF Good, Sound
<1>3. /\ DOMAIN s.cues = 1..Len(s.cues) /\ DOMAIN published = 1..Len(published)
      /\ Len(s.cues) = Len(published) /\ Len(published) \in Nat
      /\ s.cues = [i \in 1..Len(s.cues) |-> s.cues[i]]
  BY <1>2, ListSeq DEF Rows, List, Transcript, Pristine
<1>4. ASSUME NEW i \in DOMAIN s.cues
      PROVE  MergedCue(s, published[i]) = s.cues[i] /\ published[i].id = s.cues[i].id
  BY <1>2, <1>3, MergedStays DEF Transcript, Pristine, Rows, Original
<1>5. cues = s.cues
  BY <1>3, <1>4
<1>6. ids = Ids(s.cues)
  BY <1>3, <1>4 DEF Ids, ToSet
<1>7. prov = s.prov
  BY <1>2, <1>6
<1> HIDE DEF cues, prov, ids
<1>8. /\ t.cues = s.cues /\ t.prov = s.prov /\ t.edges = s.edges
      /\ t.rev = s.rev + Len(published)
      /\ t = [rev |-> t.rev, cues |-> t.cues, prov |-> t.prov, edges |-> t.edges]
  BY <1>1, <1>2, <1>5, <1>6, <1>7
<1>9. t.rev \in Nat /\ t.rev >= s.rev
  BY <1>2, <1>3, <1>8
<1>10. Sound(t)
  BY <1>8, <1>9 DEF Good, Sound
<1>11. Good(t, loose) /\ \A v : v.id \in Ids(s.cues) /\ Lag(s, v) => Lag(t, v)
  BY <1>8, <1>10, SameTexts
<1> QED BY <1>8, <1>9, <1>11 DEF t

\* A recovery of evidence keeps the tables good and every cue as it is.
LEMMA AssignKeeps ==
  ASSUME NEW s, NEW loose, NEW published, Good(s, loose)
  PROVE  LET t == AssignProvenance(s, published) IN
         /\ Good(t, loose) /\ t.cues = s.cues /\ t.edges = s.edges /\ t.rev = s.rev
         /\ \A id \in Ids(s.cues) :
              /\ t.prov[id].srcRev = s.prov[id].srcRev /\ t.prov[id].trRev = s.prov[id].trRev
              /\ t.prov[id].depStale = s.prov[id].depStale
         /\ \A v : v.id \in Ids(s.cues) /\ Lag(s, v) => Lag(t, v)
<1> DEFINE t == AssignProvenance(s, published)
           Assigned(i) == /\ s.prov[i].kind = "legacy" /\ s.prov[i].timing = "legacy"
                          /\ s.prov[i].srcRev = 0
                          /\ \E c \in ToSet(published) :
                               /\ c.id = i
                               /\ CueOf(s, i).src = c.src /\ ~Retimed(CueOf(s, i), c)
                               /\ ~CueOf(s, i).srcEdited /\ ~CueOf(s, i).timeEdited
           prov == [i \in DOMAIN s.prov |-> IF Assigned(i) THEN Recognized(s.prov[i]) ELSE s.prov[i]]
<1>1. /\ s \in [rev : Nat, cues : {s.cues}, prov : [Ids(s.cues) -> Lineages],
                edges : SUBSET [target : Ids(s.cues), context : Ids(s.cues), rev : Nat]]
      /\ Rows(s.cues) /\ DOMAIN s.prov = Ids(s.cues)
  BY SoundParts DEF Good, Sound
<1>2. t = [s EXCEPT !.prov = prov]
  BY Zenon DEF AssignProvenance
<1>3. DOMAIN prov = Ids(s.cues) /\ prov = [i \in DOMAIN prov |-> prov[i]]
  BY <1>1, Zenon
<1>4. ASSUME NEW id \in Ids(s.cues)
      PROVE  /\ prov[id] \in Lineages /\ prov[id].srcRev = s.prov[id].srcRev
             /\ prov[id].trRev = s.prov[id].trRev /\ prov[id].depStale = s.prov[id].depStale
  <2>1. prov[id] = IF Assigned(id) THEN Recognized(s.prov[id]) ELSE s.prov[id]
    BY <1>1, Zenon
  <2>2. s.prov[id] \in Lineages
    BY <1>1
  <2> HIDE DEF prov, Assigned
  <2> QED BY <2>1, <2>2, RecognizedLines
<1> HIDE DEF prov, t
<1>5. prov \in [Ids(s.cues) -> Lineages]
  BY <1>3, <1>4
<1>6. /\ t.cues = s.cues /\ t.edges = s.edges /\ t.rev = s.rev /\ t.prov = prov
      /\ t \in [rev : Nat, cues : {s.cues}, prov : [Ids(s.cues) -> Lineages],
                edges : SUBSET [target : Ids(s.cues), context : Ids(s.cues), rev : Nat]]
  BY <1>1, <1>2, <1>5, Zenon
<1>7. Sound(t)
  <2> HIDE <1>2
  <2> QED BY <1>1, <1>6 DEF Sound
<1>8. \A id \in Ids(s.cues) :
        /\ t.prov[id].srcRev = s.prov[id].srcRev /\ t.prov[id].trRev = s.prov[id].trRev
        /\ t.prov[id].depStale = s.prov[id].depStale
  <2> HIDE <1>2
  <2> QED BY <1>4, <1>6
<1>9. Good(t, loose) /\ \A v : v.id \in Ids(s.cues) /\ Lag(s, v) => Lag(t, v)
  <2> HIDE <1>2
  <2> QED BY <1>6, <1>7, <1>8, SameTexts
<1> QED BY <1>6, <1>8, <1>9, Zenon DEF t
=============================================================================
