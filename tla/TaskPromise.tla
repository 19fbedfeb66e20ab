----------------------------- MODULE TaskPromise -----------------------------
(***************************************************************************)
(* What the task queue promises to whoever submits or resumes a task,      *)
(* without files, rows, locks or permits: a task that was accepted is      *)
(* handed to exactly one run, the run executes it before it ends, and no   *)
(* second run of the task is accepted, dispatched or begun meanwhile.      *)
(* Only the end of the application and the deletion of the task break this *)
(* course.                                                                 *)
(***************************************************************************)
CONSTANTS Jobs, Runs, None

VARIABLES
  accepted,   \* the tasks that wait to be handed to a run
  runner,     \* runner[r]: the task of run r, or None
  executing,  \* the runs that have begun
  withdrawn   \* the tasks whose deletion took their directory

vars == <<accepted, runner, executing, withdrawn>>

Init ==
  /\ accepted = {} /\ executing = {} /\ withdrawn = {}
  /\ runner = [r \in Runs |-> None]

Accept(j) ==
  /\ j \notin accepted \cup withdrawn
  /\ \A r \in Runs : runner[r] # j
  /\ accepted' = accepted \cup {j}
  /\ UNCHANGED <<runner, executing, withdrawn>>

Dispatch(r, j) ==
  /\ j \in accepted /\ runner[r] = None
  /\ accepted' = accepted \ {j}
  /\ runner' = [runner EXCEPT ![r] = j]
  /\ UNCHANGED <<executing, withdrawn>>

Begin(r) ==
  /\ runner[r] # None /\ r \notin executing
  /\ executing' = executing \cup {r}
  /\ UNCHANGED <<accepted, runner, withdrawn>>

End(r) ==
  /\ r \in executing
  /\ executing' = executing \ {r}
  /\ runner' = [runner EXCEPT ![r] = None]
  /\ UNCHANGED <<accepted, withdrawn>>

\* From here on nothing is promised about j.
Withdraw(j) ==
  /\ withdrawn' = withdrawn \cup {j}
  /\ accepted' = accepted \ {j}
  /\ runner' = [r \in Runs |-> IF runner[r] = j THEN None ELSE runner[r]]
  /\ executing' = {r \in executing : runner[r] # j}

\* The application ends; what it had accepted has to be resumed.
Stop ==
  /\ accepted' = {} /\ executing' = {}
  /\ runner' = [r \in Runs |-> None]
  /\ UNCHANGED withdrawn

Next ==
  \/ \E j \in Jobs : Accept(j) \/ Withdraw(j)
  \/ \E r \in Runs : Begin(r) \/ End(r) \/ \E j \in Jobs : Dispatch(r, j)
  \/ Stop

Spec == Init /\ [][Next]_vars
=============================================================================
