--------------------------- MODULE StageScheduler ---------------------------
(***************************************************************************)
(* StageScheduler (src/application/stage_scheduler.rs): the two tokio      *)
(* semaphores every desktop job and workspace shares.                      *)
(*                                                                         *)
(* A client is one acquisition of a stage: an ASR task (a recognition job  *)
(* or a local re-recognition candidate), a local Hy-MT2 translation        *)
(* request, which acquires ALL the ASR permits, or a cloud translation     *)
(* request.  Permits are RAII guards: finishing the stage body and         *)
(* dropping the future (pause, abort of a JoinSet) both give them back.    *)
(*                                                                         *)
(* tokio's semaphore is fair: waiters form a FIFO queue, released permits  *)
(* go to the waiter at the head, which may hold some of the permits it     *)
(* asked for while it waits for the rest.  Permits are modelled one by     *)
(* one, so that a leaked or doubly granted permit is visible.              *)
(***************************************************************************)
EXTENDS FiniteSets, Naturals

CONSTANTS
  AsrPermits,     \* one element per unit of asr_capacity
  CloudPermits,   \* one element per unit of CLOUD_TRANSLATION_CONCURRENCY
  AsrTasks,       \* acquire_asr() callers
  LocalRequests,  \* translate() with provider id "hy-mt2-local"
  CloudRequests,  \* translate() with any other provider
  Nobody

DeviceClients == AsrTasks \cup LocalRequests
Clients == DeviceClients \cup CloudRequests
Permits == AsrPermits \cup CloudPermits

ASSUME PermitsAssumption ==
  /\ IsFiniteSet(AsrPermits) /\ AsrPermits # {}
  /\ IsFiniteSet(CloudPermits) /\ CloudPermits # {}
  /\ AsrPermits \cap CloudPermits = {}

ASSUME ClientsAssumption ==
  /\ AsrTasks \cap LocalRequests = {}
  /\ DeviceClients \cap CloudRequests = {}
  /\ Nobody \notin Clients

VARIABLES
  owner,   \* owner[p]: the client permit p is assigned to, or Nobody
  phase,   \* phase[c]: where the acquiring future of c stands
  ahead    \* ahead[c]: the waiters queued before c, while c is queued

vars == <<owner, phase, ahead>>

\* "queued": registered with the semaphore; "granted": fully assigned and
\* woken, not polled yet; "running": holds its permit guard.
Phases == {"idle", "queued", "granted", "running"}

Pool(c) == IF c \in CloudRequests THEN CloudPermits ELSE AsrPermits
Peers(c) == IF c \in CloudRequests THEN CloudRequests ELSE DeviceClients

\* Mutants of Satisfied: a local translation is content with one permit; cloud
\* requests are not limited.
SatisfiedByOne(c, own) == \E p \in Pool(c) : own[p] = c
SatisfiedUnlimited(c, own) ==
  \/ c \in CloudRequests
  \/ c \in LocalRequests /\ \A p \in AsrPermits : own[p] = c
  \/ c \in AsrTasks /\ \E p \in AsrPermits : own[p] = c

\* A local translation needs every ASR permit, any other client needs one.
Satisfied(c, own) ==
  IF c \in LocalRequests
  THEN \A p \in AsrPermits : own[p] = c
  ELSE \E p \in Pool(c) : own[p] = c

Free(pool) == {p \in pool : owner[p] = Nobody}

Waiters(c) == {w \in Peers(c) \ {c} : phase[w] = "queued"}

\* What the first poll of an acquire may take: one free permit, or for a local
\* translation everything that is free, even when that is not enough.
FirstPoll(c) ==
  LET free == Free(Pool(c)) IN
  CASE c \in LocalRequests -> {free}
    [] c \notin LocalRequests /\ free = {} -> {{}}
    [] OTHER -> {{p} : p \in free}

\* Mutants of HandOffs: freed permits wake nobody; they go to any waiter.
HandOffsToNobody(c) ==
  {[p \in Permits |-> IF owner[p] = c THEN Nobody ELSE owner[p]]}
HandOffsToAny(c) ==
  LET freed == {p \in Permits : owner[p] = c} IN
  {[p \in Permits |-> IF p \in freed THEN g[p] ELSE owner[p]] :
     g \in [freed -> IF Waiters(c) = {} THEN {Nobody} ELSE Waiters(c)]}

\* The assignments after c gives back what it holds: each freed permit goes to
\* a waiter that still needs it, none is left over and none goes to a later
\* waiter while an earlier one is short.
HandOffs(c) ==
  LET freed == {p \in Permits : owner[p] = c}
      assign(g) == [p \in Permits |-> IF p \in freed THEN g[p] ELSE owner[p]]
      inOrder(own) ==
        \A p \in freed, w \in Waiters(c) :
          (own[p] = Nobody \/ w \in ahead[own[p]]) => Satisfied(w, own)
      noExcess(own) ==
        \A p, q \in freed :
          own[p] = own[q] /\ own[p] \in Waiters(c) \ LocalRequests => p = q
  IN  {own \in {assign(g) : g \in [freed -> Waiters(c) \cup {Nobody}]} :
         inOrder(own) /\ noExcess(own)}

-----------------------------------------------------------------------------

\* Mutant of Init: no queue position for cloud requests.
InitDeviceOnly ==
  /\ owner = [p \in Permits |-> Nobody]
  /\ phase = [c \in Clients |-> "idle"]
  /\ ahead = [c \in DeviceClients |-> {}]

Init ==
  /\ owner = [p \in Permits |-> Nobody]
  /\ phase = [c \in Clients |-> "idle"]
  /\ ahead = [c \in Clients |-> {}]

\* First poll of acquire_owned / acquire_many_owned.
Request(c) ==
  /\ phase[c] = "idle"
  /\ \E taken \in FirstPoll(c) :
       owner' = [p \in Permits |-> IF p \in taken THEN c ELSE owner[p]]
  /\ IF Satisfied(c, owner')
     THEN /\ phase' = [phase EXCEPT ![c] = "running"]
          /\ UNCHANGED ahead
     ELSE /\ phase' = [phase EXCEPT ![c] = "queued"]
          /\ ahead' = [ahead EXCEPT ![c] = Waiters(c)]

\* The executor polls a client whose permits have all been assigned.
Resume(c) ==
  /\ phase[c] = "granted"
  /\ phase' = [phase EXCEPT ![c] = "running"]
  /\ UNCHANGED <<owner, ahead>>

\* Dropping the permit guard or the acquiring future of c.
Release(c) ==
  /\ owner' \in HandOffs(c)
  /\ phase' = [x \in Clients |->
                 IF x = c THEN "idle"
                 ELSE IF x \in Waiters(c) /\ Satisfied(x, owner') THEN "granted"
                 ELSE phase[x]]
  /\ ahead' = [x \in Clients |->
                 {w \in ahead[x] : phase'[x] = "queued" /\ phase'[w] = "queued"}]

\* The stage body returns: recognition ended, or the provider answered.
Complete(c) == phase[c] = "running" /\ Release(c)

\* The future of c is dropped at whatever point it has reached.
Cancel(c) == phase[c] # "idle" /\ Release(c)

Next == \E c \in Clients : Request(c) \/ Resume(c) \/ Complete(c) \/ Cancel(c)

\* Woken futures are polled, and stage bodies (a Whisper run, a request with a
\* timeout) end.  Nothing obliges a user to ask for work or to cancel it.
Fairness == \A c \in Clients : WF_vars(Resume(c)) /\ WF_vars(Complete(c))

Spec == Init /\ [][Next]_vars
FairSpec == Spec /\ Fairness

-----------------------------------------------------------------------------

TypeOK ==
  /\ owner \in [Permits -> Clients \cup {Nobody}]
  /\ phase \in [Clients -> Phases]
  /\ ahead \in [Clients -> SUBSET Clients]

Running(S) == {c \in S : phase[c] = "running"}

\* A local translation owns the device: while it runs no recognition and no
\* other local translation runs, in whatever order they were asked for,
\* granted, cancelled or completed ("Local translation owns the device
\* exclusively", stage_scheduler.rs:80).
DeviceExclusive ==
  \A l \in Running(LocalRequests) : Running(DeviceClients) = {l}

\* No more recognitions than asr_capacity and no more cloud requests than
\* CLOUD_TRANSLATION_CONCURRENCY run at once, over all jobs and workspaces.
WithinLimits ==
  /\ Cardinality(Running(AsrTasks)) <= Cardinality(AsrPermits)
  /\ Cardinality(Running(CloudRequests)) <= Cardinality(CloudPermits)

\* Cancel safety: a dropped future keeps no permit, and no permit lies idle
\* while a client of its stage is queued, so that a cancelled waiter that held
\* part of the device passes it on to those behind it.
NoPermitLost ==
  /\ \A p \in Permits : owner[p] # Nobody => phase[owner[p]] # "idle"
  /\ \A c \in Clients : phase[c] = "queued" => Free(Pool(c)) = {}

\* The queue is fair: while a client stays queued nobody behind it is granted
\* the stage, and in particular a stream of recognitions cannot keep
\* overtaking a local translation that needs every permit.
NoOvertaking ==
  [][\A c, d \in Clients :
       c \in ahead[d] /\ phase[c] = "queued" /\ phase'[c] = "queued"
         => phase'[d] \in {"idle", "queued"}]_vars

\* No starvation: every queued client runs, unless its future is dropped.
EventuallyServed ==
  \A c \in Clients : phase[c] = "queued" ~> phase[c] \in {"running", "idle"}

\* The semaphores implement the limits the scheduler promises.
Limits == INSTANCE StageLimits WITH
  AsrCapacity <- Cardinality(AsrPermits),
  CloudCapacity <- Cardinality(CloudPermits),
  running <- Running(Clients)

\* Every behaviour of the scheduler is a behaviour of the abstract limits:
\* executions start one at a time, each only when it is admissible.
ImplementsLimits == Limits!Spec
=============================================================================
