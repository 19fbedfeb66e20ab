---------------------------- MODULE StageLimits ----------------------------
(***************************************************************************)
(* What the stage scheduler promises to the rest of the program, without   *)
(* semaphores, queues or permits: which combinations of stage executions   *)
(* may be under way together (docs/decisions/0052).  The recognition       *)
(* device runs up to AsrCapacity ASR tasks, or one local translation and   *)
(* nothing else; cloud translation requests share CloudCapacity slots.     *)
(***************************************************************************)
EXTENDS FiniteSets, Naturals

CONSTANTS
  AsrCapacity,     \* DEFAULT_ASR_CONCURRENCY
  CloudCapacity,   \* CLOUD_TRANSLATION_CONCURRENCY
  AsrTasks, LocalRequests, CloudRequests

VARIABLE running   \* the clients whose stage body is executing

Clients == AsrTasks \cup LocalRequests \cup CloudRequests

Admissible(S) ==
  /\ \A l \in S \cap LocalRequests : S \cap (AsrTasks \cup LocalRequests) = {l}
  /\ Cardinality(S \cap AsrTasks) <= AsrCapacity
  /\ Cardinality(S \cap CloudRequests) <= CloudCapacity

Init == running = {}

Start(c) ==
  /\ c \notin running
  /\ Admissible(running \cup {c})
  /\ running' = running \cup {c}

Stop(c) ==
  /\ c \in running
  /\ running' = running \ {c}

Next == \E c \in Clients : Start(c) \/ Stop(c)

Spec == Init /\ [][Next]_running
=============================================================================
