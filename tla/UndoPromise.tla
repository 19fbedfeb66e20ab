----------------------------- MODULE UndoPromise -----------------------------
(***************************************************************************)
(* What the structure undo of an editor promises, whatever it keeps to     *)
(* honour it (docs/decisions/0061): shown is the document, stack the       *)
(* recorded edits that can be undone, newest last, each with the document  *)
(* before and after it, and live says whether the newest of them may be    *)
(* undone now.  An undo returns exactly the document before the newest     *)
(* recorded edit, and only from the document that edit left.  Another      *)
(* writer may only make an undo possible again by bringing that document   *)
(* back; an edit that is recorded when none is possible starts a new       *)
(* stack.                                                                  *)
(***************************************************************************)
EXTENDS Integers, Sequences, SequencesExt

CONSTANT Limit        \* how many edits are kept
VARIABLES shown, stack, live

vars == <<shown, stack, live>>

Init == stack = <<>> /\ live = FALSE

\* A recorded edit: it extends a live stack and replaces one that is not.
Record ==
    LET edit == [before |-> shown, after |-> shown']
        full == IF live THEN Append(stack, edit) ELSE <<edit>> IN
    /\ stack' = IF Len(full) > Limit THEN Tail(full) ELSE full
    /\ live' = TRUE

\* An undo: what remains of the stack is live again.
Undo ==
    /\ live /\ shown = Last(stack).after
    /\ shown' = Last(stack).before
    /\ stack' = Front(stack)
    /\ live' = (stack' # <<>>)

\* Any other write: a stack is only live when the document is the one that its
\* newest edit left.
Write ==
    /\ stack' = stack
    /\ live' => stack # <<>> /\ shown' = Last(stack).after

\* The oldest edit is given up for memory.
Evict ==
    /\ stack # <<>>
    /\ shown' = shown
    /\ stack' = Tail(stack)
    /\ live' = (live /\ stack' # <<>>)

Next == Record \/ Undo \/ Write \/ Evict

Spec == Init /\ [][Next]_vars
=============================================================================
