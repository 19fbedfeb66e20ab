--------------------------- MODULE TaskLifecycleMC ---------------------------
(***************************************************************************)
(* Small instances of TaskLifecycle: named command sets, and the symmetry  *)
(* of callers and of runs, which no definition tells apart.                *)
(***************************************************************************)
EXTENDS TaskLifecycle, TLC

AllCommands ==
  {"submit", "retry", "pause", "resume", "refresh", "relink", "delete", "crash"}
StopAndGo == {"submit", "pause", "resume", "relink", "crash"}
StopOnly == {"submit", "retry", "pause"}

Interchangeable == Permutations(Callers) \cup Permutations(Runs)
=============================================================================
