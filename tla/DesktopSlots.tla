----------------------------- MODULE DesktopSlots -----------------------------
(***************************************************************************)
(* What the parts of the program have in common as they are looked at      *)
(* here: nothing. Each keeps files and rows of its own, so that they can   *)
(* be looked at one at a time. subject is the part that moves, and x1 to   *)
(* x17 hold its variables; a name that several parts have for a variable   *)
(* stands for the same one of them in each.                                *)
(***************************************************************************)
CONSTANTS
    None, Torn, Local, Foreign, Frame,    \* values that are no others
    MaxTroubles                           \* a bound that several parts have

VARIABLES subject, x1, x2, x3, x4, x5, x6, x7, x8, x9, x10, x11, x12, x13, x14, x15, x16, x17
slots == <<x1, x2, x3, x4, x5, x6, x7, x8, x9, x10, x11, x12, x13, x14, x15, x16, x17>>
parts == <<subject, slots>>

\* The names of some of them that parts of two kinds have.
lapses == x1
troubles == x1
calls == x2
made == x2
revision == x2
at == x3
stored == x4
===============================================================================
