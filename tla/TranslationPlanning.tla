--------------------------- MODULE TranslationPlanning ---------------------------
(***************************************************************************)
(* TranslationPlanner::plan (translation_planner.rs): the cues to translate*)
(* are grouped by sentence and pause, and each group is given the text     *)
(* around it as context, within a budget of characters.                    *)
(*                                                                         *)
(* A cue is [gap, size, stop]: the pause before it, its number of          *)
(* characters, whether it ends a sentence; it lasts one unit of time.  A   *)
(* context entry is [cue, chars]: the cue and how many of its characters.  *)
(***************************************************************************)
EXTENDS Integers, Sequences, SequencesExt

CONSTANTS
    None,
    Shapes,           \* the cues a timeline is made of
    MaxCues,          \* bound: length of a timeline
    MaxTargets,       \* max_targets
    MaxTargetChars,   \* max_target_chars
    PauseBoundary,    \* pause_boundary_ms
    ContextWindow,    \* context_window_ms
    MaxContextChars   \* max_context_chars

VARIABLES
    timeline,         \* sequence of cues, segment_index their position
    asked,            \* target_ids
    plan              \* sequence of [before, targets, after], None before

planVars == <<timeline, asked, plan>>

PlanInit == timeline = <<>> /\ asked = {} /\ plan = None

Start(i) == FoldLeft(LAMBDA t, k : t + timeline[k].gap + (IF k < i THEN 1 ELSE 0),
                     0, [k \in 1..i |-> k])
End(i) == Start(i) + 1
CharsOf(cues) == FoldLeft(LAMBDA n, i : n + timeline[i].size, 0, cues)

\* plan: a boundary before cue i of the group being filled.
Boundary(group, i) ==
    /\ group # <<>>
    /\ \/ i # Last(group) + 1
       \/ Start(i) - End(Last(group)) >= PauseBoundary
       \/ timeline[Last(group)].stop
       \/ Len(group) >= MaxTargets
       \/ CharsOf(group) + timeline[i].size > MaxTargetChars
Grouped ==
    LET add(groups, i) ==
            IF groups # <<>> /\ ~Boundary(Last(groups), i)
            THEN [groups EXCEPT ![Len(groups)] = Append(@, i)]
            ELSE Append(groups, <<i>>) IN
    FoldLeft(add, <<>>, SelectSeq([i \in DOMAIN timeline |-> i], LAMBDA i : i \in asked))

Least(a, b) == IF a <= b THEN a ELSE b
Used(taken) == FoldLeft(LAMBDA n, entry : n + entry.chars, 0, taken) + Len(taken) - 1

\* Mutant of Taken: the separators are not counted.
TakenWithoutSeparators(cues, budget, spent) ==
    LET add(taken, i) ==
            LET used == FoldLeft(LAMBDA n, entry : n + entry.chars, spent, taken) IN
            IF \/ used >= budget
               \/ taken # <<>> /\ Last(taken).chars < timeline[Last(taken).cue].size
            THEN taken
            ELSE Append(taken, [cue |-> i, chars |-> Least(timeline[i].size, budget - used)]) IN
    FoldLeft(add, <<>>, cues)

\* One side of context: cues, nearest first, while the budget lasts, one character for
\* a separator after the first; a cue that is cut short is the last.
Taken(cues, budget, spent) ==
    LET add(taken, i) ==
            LET used == spent + (IF taken = <<>> THEN 0
                                 ELSE Used(taken) + (IF spent > 0 THEN 1 ELSE 0))
                available == budget - (used + (IF used > 0 THEN 1 ELSE 0)) IN
            IF \/ available <= 0
               \/ taken # <<>> /\ Last(taken).chars < timeline[Last(taken).cue].size
            THEN taken
            ELSE Append(taken, [cue |-> i, chars |-> Least(timeline[i].size, available)]) IN
    FoldLeft(add, <<>>, cues)

InWindow(i, group) ==
    /\ End(i) >= Start(Head(group)) - ContextWindow
    /\ Start(i) <= End(Last(group)) + ContextWindow
\* context: at most half of the budget before the group, the rest after it.
Context(group) ==
    LET near == SelectSeq([i \in DOMAIN timeline |-> i], LAMBDA i : InWindow(i, group))
        earlier == Reverse(SelectSeq(near, LAMBDA i : i < Head(group)))
        later == SelectSeq(near, LAMBDA i : i > Last(group))
        before == Taken(earlier, MaxContextChars \div 2, 0)
        spent == IF before = <<>> THEN 0 ELSE Used(before) IN
    [before |-> Reverse(before), after |-> Taken(later, MaxContextChars, spent)]

\* A caller asks for some cues of a timeline: the rest is translated already or locked.
Ask(cues, targets) ==
    /\ timeline = <<>>
    /\ timeline' = cues /\ asked' = targets
    /\ UNCHANGED plan
MakePlan ==
    /\ timeline # <<>> /\ plan = None
    /\ plan' = [g \in DOMAIN Grouped |->
                  [before |-> Context(Grouped[g]).before, targets |-> Grouped[g],
                   after |-> Context(Grouped[g]).after]]
    /\ UNCHANGED <<timeline, asked>>

Asks == \E n \in 1..MaxCues : \E cues \in [1..n -> Shapes], targets \in SUBSET (1..n) :
            Ask(cues, targets)
PlanNext == Asks \/ MakePlan
PlanSpec == PlanInit /\ [][PlanNext]_planVars

(***************************************************************************)
(* Property.                                                               *)
(***************************************************************************)
\* The characters of a context, with a separator between its entries.
Spelled(entries) == IF entries = <<>> THEN 0 ELSE Used(entries)
\* The entries are the cues next to the group, in their order, only the farthest cut
\* short.
NextTo(entries, first, last) ==
    /\ [n \in DOMAIN entries |-> entries[n].cue] = [n \in 1..(last - first + 1) |-> first + n - 1]
    /\ \A n \in DOMAIN entries : entries[n].chars \in 1..timeline[entries[n].cue].size
Whole(entry) == entry.chars = timeline[entry.cue].size

\* A plan translates every cue it was asked for, once and in order; a group crosses no
\* sentence, pause or untranslated cue and keeps the limits of a request unless it is a
\* single cue; its context is what surrounds it without a gap, never more than the
\* budget counted with separators and never more than half of it before the group
\* (TranslationPlanner::plan and context).
PlanCoversTargets ==
    plan # None =>
      /\ FlattenSeq([g \in DOMAIN plan |-> plan[g].targets]) =
            SelectSeq([i \in DOMAIN timeline |-> i], LAMBDA i : i \in asked)
      /\ \A g \in DOMAIN plan :
          LET targets == plan[g].targets
              before == plan[g].before  after == plan[g].after IN
          /\ Len(targets) <= MaxTargets
          /\ Len(targets) = 1 \/ CharsOf(targets) <= MaxTargetChars
          /\ \A n \in 1..(Len(targets) - 1) :
                /\ targets[n + 1] = targets[n] + 1
                /\ ~timeline[targets[n]].stop
                /\ timeline[targets[n + 1]].gap < PauseBoundary
          /\ NextTo(before, Head(targets) - Len(before), Head(targets) - 1)
          /\ NextTo(after, Last(targets) + 1, Last(targets) + Len(after))
          /\ \A n \in 2..Len(before) : Whole(before[n])
          /\ \A n \in 1..(Len(after) - 1) : Whole(after[n])
          /\ Spelled(before) <= MaxContextChars \div 2
          /\ Spelled(before \o after) <= MaxContextChars
=============================================================================
