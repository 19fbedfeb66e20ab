------------------------ MODULE StageSchedulerProofs ------------------------
(***************************************************************************)
(* The safety properties of StageScheduler, for any number of permits and  *)
(* clients.  Everything follows from one inductive invariant, IInv, which  *)
(* says what each phase of a client means in terms of the permits.         *)
(***************************************************************************)
EXTENDS StageScheduler, FiniteSetTheorems, TLAPS

\* Permits never leave their pool.
OwnedInPool == \A p \in Permits : owner[p] # Nobody => p \in Pool(owner[p])

\* Only a local translation holds several permits.
OnePermitEach ==
  \A c \in Clients \ LocalRequests : \A p, q \in Permits :
    owner[p] = c /\ owner[q] = c => p = q

\* A client that was granted the stage holds all it asked for; one that is
\* still queued does not.
PhaseMatchesPermits ==
  \A c \in Clients :
    /\ phase[c] \in {"granted", "running"} => Satisfied(c, owner)
    /\ phase[c] = "queued" => ~ Satisfied(c, owner)

\* Only queued clients of one stage wait for one another.
QueueSound ==
  \A d \in Clients : \A c \in ahead[d] :
    phase[c] = "queued" /\ phase[d] = "queued" /\ c \in Peers(d)

IInv ==
  TypeOK /\ OwnedInPool /\ OnePermitEach /\ PhaseMatchesPermits
    /\ NoPermitLost /\ QueueSound

-----------------------------------------------------------------------------

\* No two kinds of client overlap, and the two pools are disjoint.
LEMMA Kinds ==
  ASSUME NEW c \in Clients, NEW d \in Clients
  PROVE  /\ Pool(c) \subseteq Permits
         /\ Pool(c) = Pool(d) \/ Pool(c) \cap Pool(d) = {}
         /\ c \in Peers(d) <=> Pool(c) = Pool(d)
         /\ c \in Peers(d) <=> d \in Peers(c)
         /\ c \in LocalRequests => Pool(c) = AsrPermits
  BY PermitsAssumption, ClientsAssumption
     DEF Pool, Peers, Permits, Clients, DeviceClients

\* What an assignment after a release looks like: unfreed permits stay where
\* they are, freed ones go to waiters in queue order or to nobody.
LEMMA HandOffFacts ==
  ASSUME TypeOK, NEW c \in Clients, NEW own \in HandOffs(c)
  PROVE  /\ own \in [Permits -> Clients \cup {Nobody}]
         /\ \A p \in Permits : owner[p] # c => own[p] = owner[p]
         /\ \A p \in Permits : owner[p] = c => own[p] \in Waiters(c) \cup {Nobody}
         /\ \A p \in Permits, w \in Waiters(c) :
              owner[p] = c /\ (own[p] = Nobody \/ w \in ahead[own[p]])
                => Satisfied(w, own)
         /\ \A p, q \in Permits :
              owner[p] = c /\ owner[q] = c /\ own[p] = own[q]
                /\ own[p] \in Waiters(c) \ LocalRequests => p = q
<1> DEFINE freed == {p \in Permits : owner[p] = c}
<1>1. PICK g \in [freed -> Waiters(c) \cup {Nobody}] :
        own = [p \in Permits |-> IF p \in freed THEN g[p] ELSE owner[p]]
  BY DEF HandOffs
<1>2. Waiters(c) \subseteq Clients
  BY DEF Waiters, Peers, Clients
<1>3. own \in [Permits -> Clients \cup {Nobody}]
  BY <1>1, <1>2 DEF TypeOK
<1>4. \A p \in Permits : owner[p] # c => own[p] = owner[p]
  BY <1>1
<1>5. \A p \in Permits : owner[p] = c => own[p] \in Waiters(c) \cup {Nobody}
  BY <1>1
<1>6. /\ \A p \in freed, w \in Waiters(c) :
           (own[p] = Nobody \/ w \in ahead[own[p]]) => Satisfied(w, own)
      /\ \A p, q \in freed :
           own[p] = own[q] /\ own[p] \in Waiters(c) \ LocalRequests => p = q
  BY DEF HandOffs
<1> QED BY <1>3, <1>4, <1>5, <1>6

-----------------------------------------------------------------------------

\* Two fresh semaphores satisfy the invariant: every permit is free.
LEMMA InitInv == Init => IInv
<1> SUFFICES ASSUME Init PROVE IInv
  OBVIOUS
<1>1. \A c \in Clients : c # Nobody
  BY ClientsAssumption
<1>2. TypeOK
  BY DEF Init, TypeOK, Phases
<1>3. OwnedInPool /\ QueueSound
  BY DEF Init, OwnedInPool, QueueSound
<1>4. OnePermitEach /\ NoPermitLost /\ PhaseMatchesPermits
  BY <1>1 DEF Init, OnePermitEach, NoPermitLost, PhaseMatchesPermits
<1> QED BY <1>2, <1>3, <1>4 DEF IInv

\* A first poll takes permits that are free, so it disturbs no other client.
LEMMA RequestInv ==
  ASSUME IInv, NEW c \in Clients, Request(c)
  PROVE  IInv'
<1> USE DEF IInv
<1>1. PICK taken \in FirstPoll(c) :
        owner' = [p \in Permits |-> IF p \in taken THEN c ELSE owner[p]]
  BY DEF Request
<1>2. /\ taken \subseteq Free(Pool(c))
      /\ c \in LocalRequests => taken = Free(Pool(c))
      /\ c \notin LocalRequests => \A p, q \in taken : p = q
      /\ c \notin LocalRequests /\ taken = {} => Free(Pool(c)) = {}
  <2>1. CASE c \in LocalRequests
    BY <1>1, <2>1 DEF FirstPoll
  <2>2. CASE c \notin LocalRequests /\ Free(Pool(c)) = {}
    BY <1>1, <2>2 DEF FirstPoll
  <2>3. CASE c \notin LocalRequests /\ Free(Pool(c)) # {}
    <3>1. FirstPoll(c) = {{p} : p \in Free(Pool(c))}
      BY <2>3 DEF FirstPoll
    <3> QED BY <1>1, <2>3, <3>1
  <2> QED BY <2>1, <2>2, <2>3
<1>3. phase[c] = "idle" /\ c # Nobody /\ Pool(c) \subseteq Permits
  BY ClientsAssumption, Kinds DEF Request
<1>4. \A p \in Permits : owner[p] # c
  BY <1>3 DEF NoPermitLost
<1>5. \A p \in Permits : owner'[p] = IF p \in taken THEN c ELSE owner[p]
  BY <1>1
<1>6. \A p \in taken : p \in Permits /\ p \in Pool(c) /\ owner[p] = Nobody
  BY <1>2, <1>3 DEF Free
<1>7. \A d \in Clients \ {c} : Satisfied(d, owner') <=> Satisfied(d, owner)
  <2> SUFFICES ASSUME NEW d \in Clients \ {c}
               PROVE  Satisfied(d, owner') <=> Satisfied(d, owner)
    OBVIOUS
  <2>1. \A p \in Permits : owner'[p] = d <=> owner[p] = d
    BY <1>5, <1>6, ClientsAssumption
  <2>2. Pool(d) \subseteq Permits /\ AsrPermits \subseteq Permits
    BY Kinds DEF Permits
  <2> QED BY <2>1, <2>2 DEF Satisfied
<1>8. \/ /\ Satisfied(c, owner')
         /\ phase' = [phase EXCEPT ![c] = "running"]
         /\ ahead' = ahead
      \/ /\ ~ Satisfied(c, owner')
         /\ phase' = [phase EXCEPT ![c] = "queued"]
         /\ ahead' = [ahead EXCEPT ![c] = Waiters(c)]
  BY DEF Request
<1>9. Waiters(c) \subseteq Clients
  BY DEF Waiters, Peers, Clients
<1>10. TypeOK'
  <2>1. owner' \in [Permits -> Clients \cup {Nobody}]
    BY <1>1 DEF TypeOK
  <2>2. phase' \in [Clients -> Phases] /\ ahead' \in [Clients -> SUBSET Clients]
    BY <1>8, <1>9 DEF TypeOK, Phases
  <2> QED BY <2>1, <2>2 DEF TypeOK
<1>11. OwnedInPool'
  BY <1>5, <1>6 DEF OwnedInPool, Pool
<1>12. OnePermitEach'
  BY <1>2, <1>4, <1>5 DEF OnePermitEach
<1>13. \A d \in Clients \ {c} : phase'[d] = phase[d] /\ ahead'[d] = ahead[d]
  BY <1>8 DEF TypeOK
<1>14. phase'[c] \in {"running", "queued"}
       /\ (phase'[c] = "running" <=> Satisfied(c, owner'))
  BY <1>8 DEF TypeOK
<1>15. PhaseMatchesPermits'
  BY <1>7, <1>13, <1>14 DEF PhaseMatchesPermits, Satisfied, Pool
<1>16. NoPermitLost'
  <2>1. \A p \in Permits : owner'[p] # Nobody => phase'[owner'[p]] # "idle"
    <3> SUFFICES ASSUME NEW p \in Permits, owner'[p] # Nobody
                 PROVE  phase'[owner'[p]] # "idle"
      OBVIOUS
    <3>1. CASE p \in taken
      BY <3>1, <1>5, <1>14
    <3>2. CASE p \notin taken
      BY <3>2, <1>4, <1>5, <1>13 DEF NoPermitLost, TypeOK
    <3> QED BY <3>1, <3>2
  <2>2. ASSUME NEW d \in Clients, phase'[d] = "queued"
        PROVE  Free(Pool(d))' = {}
    <3>1. \A p \in Permits : owner'[p] = Nobody => owner[p] = Nobody /\ p \notin taken
      BY <1>3, <1>5
    <3>2. CASE d # c
      BY <2>2, <3>1, <3>2, <1>13, Kinds DEF NoPermitLost, Free, Pool
    <3>3. CASE d = c
      <4>1. ~ Satisfied(c, owner')
        BY <2>2, <3>3, <1>14
      <4>2. CASE c \in LocalRequests
        BY <4>2, <3>1, <3>3, <1>2, <1>3 DEF Free, Pool
      <4>3. CASE c \notin LocalRequests
        <5>1. taken = {}
          BY <4>1, <4>3, <1>5, <1>6 DEF Satisfied, Pool
        <5> QED BY <5>1, <4>3, <3>1, <3>3, <1>2, <1>3 DEF Free, Pool
      <4> QED BY <4>2, <4>3
    <3> QED BY <3>2, <3>3
  <2> QED BY <2>1, <2>2 DEF NoPermitLost, Free, Pool
<1>17. QueueSound'
  <2> SUFFICES ASSUME NEW d \in Clients, NEW w \in ahead'[d]
               PROVE  phase'[w] = "queued" /\ phase'[d] = "queued" /\ w \in Peers(d)
    BY DEF QueueSound, Peers
  <2>1. CASE d # c
    BY <2>1, <1>3, <1>13 DEF QueueSound, TypeOK
  <2>2. CASE d = c /\ ahead' = ahead
    BY <2>2, <1>3 DEF QueueSound
  <2>3. CASE d = c /\ ahead' # ahead
    BY <2>3, <1>8, <1>9, <1>13 DEF Waiters, TypeOK
  <2> QED BY <2>1, <2>2, <2>3
<1> QED BY <1>10, <1>11, <1>12, <1>15, <1>16, <1>17

\* A woken client starts with the permits it was granted.
LEMMA ResumeInv ==
  ASSUME IInv, NEW c \in Clients, Resume(c)
  PROVE  IInv'
<1> USE DEF IInv
<1>1. /\ phase[c] = "granted" /\ phase' = [phase EXCEPT ![c] = "running"]
      /\ owner' = owner /\ ahead' = ahead
  BY DEF Resume
<1>2. \A d \in Clients : phase'[d] = IF d = c THEN "running" ELSE phase[d]
  BY <1>1 DEF TypeOK
<1>3. TypeOK'
  BY <1>1 DEF TypeOK, Phases
<1>4. OwnedInPool' /\ OnePermitEach'
  BY <1>1 DEF OwnedInPool, OnePermitEach, Pool
<1>5. PhaseMatchesPermits'
  BY <1>1, <1>2 DEF PhaseMatchesPermits, Satisfied, Pool
<1>6. NoPermitLost'
  BY <1>1, <1>2 DEF NoPermitLost, Free, Pool, TypeOK
<1>7. QueueSound'
  BY <1>1, <1>2 DEF QueueSound, Peers, TypeOK
<1> QED BY <1>3, <1>4, <1>5, <1>6, <1>7

\* The permits a dropped client held go, in queue order, to those waiting for
\* them; whoever is complete now is granted the stage.
LEMMA ReleaseInv ==
  ASSUME IInv, NEW c \in Clients, phase[c] # "idle", Release(c)
  PROVE  IInv'
<1> USE DEF IInv
<1>1. owner' \in HandOffs(c)
  BY DEF Release
<1>2. /\ owner' \in [Permits -> Clients \cup {Nobody}]
      /\ \A p \in Permits : owner[p] # c => owner'[p] = owner[p]
      /\ \A p \in Permits : owner[p] = c => owner'[p] \in Waiters(c) \cup {Nobody}
      /\ \A p \in Permits, w \in Waiters(c) :
           owner[p] = c /\ (owner'[p] = Nobody \/ w \in ahead[owner'[p]])
             => Satisfied(w, owner')
      /\ \A p, q \in Permits :
           owner[p] = c /\ owner[q] = c /\ owner'[p] = owner'[q]
             /\ owner'[p] \in Waiters(c) \ LocalRequests => p = q
  BY <1>1, HandOffFacts
<1>3. \A d \in Clients :
        /\ d = c => phase'[d] = "idle"
        /\ d # c /\ d \in Waiters(c) /\ Satisfied(d, owner') => phase'[d] = "granted"
        /\ d # c /\ ~ (d \in Waiters(c) /\ Satisfied(d, owner')) => phase'[d] = phase[d]
  BY DEF Release
<1>4. /\ ahead' = [x \in Clients |->
               {w \in ahead[x] : phase'[x] = "queued" /\ phase'[w] = "queued"}]
      /\ phase' = [x \in Clients |->
                     IF x = c THEN "idle"
                     ELSE IF x \in Waiters(c) /\ Satisfied(x, owner') THEN "granted"
                     ELSE phase[x]]
  BY DEF Release
<1>5. /\ c \notin Waiters(c) /\ Waiters(c) \subseteq Clients /\ c # Nobody
      /\ Nobody \notin Waiters(c)
      /\ \A d \in Clients : d \in Waiters(c) <=>
            d # c /\ d \in Peers(c) /\ phase[d] = "queued"
  BY ClientsAssumption DEF Waiters, Peers, Clients
<1>6. TypeOK'
  <2>1. phase' \in [Clients -> Phases]
    BY <1>4 DEF TypeOK, Phases
  <2>2. ahead' \in [Clients -> SUBSET Clients]
    BY <1>4 DEF TypeOK
  <2> QED BY <1>2, <2>1, <2>2 DEF TypeOK
\* An unfreed permit keeps its owner, so a client outside the queue of c keeps
\* exactly what it had.
<1>7. \A d \in Clients \ {c} : d \notin Waiters(c) =>
        \A p \in Permits : owner'[p] = d <=> owner[p] = d
  BY <1>2, <1>5, ClientsAssumption
<1>8. \A d \in Clients \ {c} : d \notin Waiters(c) =>
        (Satisfied(d, owner') <=> Satisfied(d, owner))
  <2> SUFFICES ASSUME NEW d \in Clients \ {c}, d \notin Waiters(c)
               PROVE  Satisfied(d, owner') <=> Satisfied(d, owner)
    OBVIOUS
  <2>1. Pool(d) \subseteq Permits /\ AsrPermits \subseteq Permits
    BY Kinds DEF Permits
  <2> QED BY <1>7, <2>1 DEF Satisfied
<1>9. OwnedInPool'
  <2> SUFFICES ASSUME NEW p \in Permits, owner'[p] # Nobody
               PROVE  p \in Pool(owner'[p])
    BY DEF OwnedInPool, Pool
  <2>1. CASE owner[p] # c
    BY <2>1, <1>2 DEF OwnedInPool
  <2>2. CASE owner[p] = c
    <3>1. owner'[p] \in Waiters(c) /\ p \in Pool(c)
      BY <2>2, <1>2, <1>5 DEF OwnedInPool
    <3>2. Pool(owner'[p]) = Pool(c)
      BY <3>1, <1>5, Kinds
    <3> QED BY <3>1, <3>2
  <2> QED BY <2>1, <2>2
<1>10. OnePermitEach'
  <2> SUFFICES ASSUME NEW d \in Clients \ LocalRequests,
                      NEW p \in Permits, NEW q \in Permits,
                      owner'[p] = d, owner'[q] = d
               PROVE  p = q
    BY DEF OnePermitEach
  <2>1. CASE owner[p] # c /\ owner[q] # c
    BY <2>1, <1>2 DEF OnePermitEach
  <2>2. CASE owner[p] = c /\ owner[q] = c
    BY <2>2, <1>2, <1>5, ClientsAssumption
  <2>3. ASSUME NEW r \in Permits, NEW s \in Permits, owner'[r] = d, owner'[s] = d,
               owner[r] = c, owner[s] # c
        PROVE  FALSE
    <3>1. d \in Waiters(c) /\ owner[s] = d
      BY <2>3, <1>2, ClientsAssumption
    <3>2. s \in Pool(d)
      BY <3>1, ClientsAssumption DEF OwnedInPool
    <3>3. Satisfied(d, owner)
      BY <3>1, <3>2 DEF Satisfied
    <3> QED BY <3>1, <3>3, <1>5 DEF PhaseMatchesPermits
  <2> QED BY <2>1, <2>2, <2>3
<1>11. PhaseMatchesPermits'
  <2> SUFFICES ASSUME NEW d \in Clients
               PROVE  /\ phase'[d] \in {"granted", "running"} => Satisfied(d, owner')
                      /\ phase'[d] = "queued" => ~ Satisfied(d, owner')
    BY DEF PhaseMatchesPermits, Satisfied, Pool
  <2>1. CASE d = c
    BY <2>1, <1>3
  <2>2. CASE d # c /\ d \in Waiters(c)
    BY <2>2, <1>3, <1>5
  <2>3. CASE d # c /\ d \notin Waiters(c)
    BY <2>3, <1>3, <1>8 DEF PhaseMatchesPermits
  <2> QED BY <2>1, <2>2, <2>3
<1>12. NoPermitLost'
  <2>1. ASSUME NEW p \in Permits, owner'[p] # Nobody
        PROVE  phase'[owner'[p]] # "idle"
    <3>1. owner'[p] \in Clients
      BY <2>1, <1>2
    <3>2. CASE owner[p] = c
      BY <3>1, <3>2, <2>1, <1>2, <1>3, <1>5
    <3>3. CASE owner[p] # c
      BY <3>1, <3>3, <2>1, <1>2, <1>3 DEF NoPermitLost
    <3> QED BY <3>2, <3>3
  <2>2. ASSUME NEW d \in Clients, phase'[d] = "queued"
        PROVE  Free(Pool(d))' = {}
    <3>1. d # c /\ phase[d] = "queued" /\ ~ Satisfied(d, owner')
      BY <2>2, <1>3, <1>11 DEF PhaseMatchesPermits, Satisfied, Pool
    <3>2. \A p \in Pool(d) : owner[p] # Nobody /\ p \in Permits
      BY <3>1, Kinds DEF NoPermitLost, Free
    <3>3. ASSUME NEW p \in Pool(d), owner'[p] = Nobody
          PROVE  FALSE
      <4>1. owner[p] = c /\ p \in Pool(c)
        BY <3>2, <3>3, <1>2 DEF OwnedInPool
      <4>2. d \in Waiters(c)
        BY <4>1, <3>1, <1>5, Kinds
      <4> QED BY <4>1, <4>2, <3>1, <3>2, <3>3, <1>2
    <3> QED BY <3>3 DEF Free, Pool
  <2> QED BY <2>1, <2>2 DEF NoPermitLost, Free, Pool
<1>13. QueueSound'
  <2> SUFFICES ASSUME NEW d \in Clients, NEW w \in ahead'[d]
               PROVE  phase'[w] = "queued" /\ phase'[d] = "queued" /\ w \in Peers(d)
    BY DEF QueueSound, Peers
  <2> QED BY <1>4 DEF QueueSound
<1> QED BY <1>6, <1>9, <1>10, <1>11, <1>12, <1>13

\* Whatever the executor, a stage body or a caller does, the invariant stays.
LEMMA NextInv == IInv /\ [Next]_vars => IInv'
<1> SUFFICES ASSUME IInv, [Next]_vars PROVE IInv'
  OBVIOUS
<1>1. CASE UNCHANGED vars
  BY <1>1 DEF vars, IInv, TypeOK, OwnedInPool, OnePermitEach, PhaseMatchesPermits,
     NoPermitLost, QueueSound, Satisfied, Free, Pool, Peers
<1>2. ASSUME NEW c \in Clients, Request(c) PROVE IInv'
  BY <1>2, RequestInv
<1>3. ASSUME NEW c \in Clients, Resume(c) PROVE IInv'
  BY <1>3, ResumeInv
<1>4. ASSUME NEW c \in Clients, Complete(c) PROVE IInv'
  <2>1. phase[c] # "idle" /\ Release(c)
    BY <1>4 DEF Complete
  <2> QED BY <2>1, ReleaseInv
<1>5. ASSUME NEW c \in Clients, Cancel(c) PROVE IInv'
  BY <1>5, ReleaseInv DEF Cancel
<1> QED BY <1>1, <1>2, <1>3, <1>4, <1>5 DEF Next

\* The meaning of each phase in terms of the permits is preserved for ever.
THEOREM Invariance == Spec => []IInv
  BY InitInv, NextInv, PTL DEF Spec

\* The type invariant of the scheduler, for any number of permits and clients.
THEOREM TypeCorrect == Spec => []TypeOK
<1>1. IInv => TypeOK
  BY DEF IInv
<1> QED BY <1>1, Invariance, PTL

\* Cancel safety for any number of permits and clients: no dropped future
\* keeps a permit, and no permit lies idle while a client of its stage waits.
THEOREM CancelSafe == Spec => []NoPermitLost
<1>1. IInv => NoPermitLost
  BY DEF IInv
<1> QED BY <1>1, Invariance, PTL

-----------------------------------------------------------------------------

\* A running local translation owns every ASR permit, so nobody else has one.
LEMMA ExclusiveFromInv == IInv => DeviceExclusive
<1> SUFFICES ASSUME IInv, NEW l \in Running(LocalRequests),
                    NEW d \in Running(DeviceClients)
             PROVE  d = l
  BY DEF DeviceExclusive, Running, DeviceClients
<1>1. /\ l \in LocalRequests /\ l \in Clients /\ d \in DeviceClients /\ d \in Clients
      /\ phase[l] = "running" /\ phase[d] = "running"
  BY DEF Running, DeviceClients, Clients
<1>2. \A p \in AsrPermits : owner[p] = l
  BY <1>1 DEF IInv, PhaseMatchesPermits, Satisfied
<1>3. \E p \in AsrPermits : owner[p] = d
  BY <1>1, PermitsAssumption, ClientsAssumption
     DEF IInv, PhaseMatchesPermits, Satisfied, Pool
<1> QED BY <1>2, <1>3

\* Each running client of one stage can be charged to a permit of its own.
LEMMA LimitFromInv ==
  ASSUME IInv, NEW S \in SUBSET (Clients \ LocalRequests), NEW P,
         P \in {AsrPermits, CloudPermits}, \A c \in S : Pool(c) = P
  PROVE  IsFiniteSet(Running(S)) /\ Cardinality(Running(S)) <= Cardinality(P)
<1> DEFINE charge == [c \in Running(S) |-> CHOOSE p \in P : owner[p] = c]
<1>1. \A c \in Running(S) : \E p \in P : owner[p] = c
  BY DEF IInv, PhaseMatchesPermits, Satisfied, Running
<1>2. charge \in [Running(S) -> P] /\ \A c \in Running(S) : owner[charge[c]] = c
  BY <1>1
<1>3. IsInjective(charge)
  BY <1>2 DEF IsInjective
<1>4. charge \in Injection(Running(S), P)
  BY <1>2, <1>3 DEF Injection
<1>5. IsFiniteSet(P)
  BY PermitsAssumption
<1> QED BY <1>4, <1>5, FS_Injection

\* Each pool has as many running single-permit clients as permits at most.
LEMMA LimitsFromInv == IInv => WithinLimits
<1> SUFFICES ASSUME IInv PROVE WithinLimits
  OBVIOUS
<1>1. AsrTasks \in SUBSET (Clients \ LocalRequests) /\ \A c \in AsrTasks : Pool(c) = AsrPermits
  BY ClientsAssumption DEF Clients, DeviceClients, Pool
<1>2. CloudRequests \in SUBSET (Clients \ LocalRequests)
      /\ \A c \in CloudRequests : Pool(c) = CloudPermits
  BY ClientsAssumption DEF Clients, DeviceClients, Pool
<1> QED BY <1>1, <1>2, LimitFromInv DEF WithinLimits

\* A local translation has the device to itself, whatever the capacity.
THEOREM Exclusion == Spec => []DeviceExclusive
  BY Invariance, ExclusiveFromInv, PTL

\* The stage limits hold for any capacity and any number of clients.
THEOREM Limited == Spec => []WithinLimits
  BY Invariance, LimitsFromInv, PTL

-----------------------------------------------------------------------------

\* A queued client that is granted the stage in this step received a permit
\* that was freed in it, and then every waiter ahead of it was complete too.
LEMMA NoOvertakingStep ==
  ASSUME IInv, [Next]_vars, NEW c \in Clients, NEW d \in Clients,
         c \in ahead[d], phase[c] = "queued", phase'[c] = "queued"
  PROVE  phase'[d] \in {"idle", "queued"}
<1> USE DEF IInv
<1>1. phase[d] = "queued" /\ c \in Peers(d) /\ ~ Satisfied(d, owner)
  BY DEF QueueSound, PhaseMatchesPermits
<1>2. CASE UNCHANGED vars
  BY <1>1, <1>2 DEF vars
<1>3. ASSUME NEW x \in Clients, Request(x) PROVE phase'[d] \in {"idle", "queued"}
  BY <1>1, <1>3 DEF Request, TypeOK
<1>4. ASSUME NEW x \in Clients, Resume(x) PROVE phase'[d] \in {"idle", "queued"}
  BY <1>1, <1>4 DEF Resume, TypeOK
<1>5. ASSUME NEW x \in Clients, Release(x), phase[x] # "idle",
             phase'[d] \notin {"idle", "queued"}
      PROVE  FALSE
  <2>1. d # x /\ d \in Waiters(x) /\ Satisfied(d, owner') /\ c # x
    BY <1>1, <1>5 DEF Release
  <2>2. owner' \in HandOffs(x)
    BY <1>5 DEF Release
  <2>3. c \in Waiters(x)
    BY <1>1, <2>1, Kinds DEF Waiters
  <2>4. PICK p \in Permits : owner'[p] = d /\ owner[p] # d
    <3>1. AsrPermits \subseteq Permits /\ Pool(d) \subseteq Permits
      BY Kinds DEF Permits
    <3> QED BY <1>1, <2>1, <3>1 DEF Satisfied
  <2>5. owner[p] = x
    BY <2>2, <2>4, HandOffFacts
  <2>6. Satisfied(c, owner')
    BY <2>2, <2>3, <2>4, <2>5, HandOffFacts
  <2>7. phase'[c] = "granted"
    BY <2>1, <2>3, <2>6, <1>5 DEF Release
  <2> QED BY <2>7
<1> QED BY <1>2, <1>3, <1>4, <1>5 DEF Next, Complete, Cancel

\* Fairness of the queue as a safety property, for any number of permits and
\* clients: nobody is granted a stage before a client queued ahead of it.
THEOREM Fifo == Spec => NoOvertaking
<1>1. IInv /\ [Next]_vars =>
        [\A c, d \in Clients :
           c \in ahead[d] /\ phase[c] = "queued" /\ phase'[c] = "queued"
             => phase'[d] \in {"idle", "queued"}]_vars
  BY NoOvertakingStep
<1> QED BY <1>1, Invariance, PTL DEF Spec, NoOvertaking

-----------------------------------------------------------------------------

\* What runs at any moment is a combination that StageLimits admits.
LEMMA RunningAdmissible == IInv => Limits!Admissible(Running(Clients))
<1> SUFFICES ASSUME IInv PROVE Limits!Admissible(Running(Clients))
  OBVIOUS
<1>1. /\ Running(Clients) \cap LocalRequests = Running(LocalRequests)
      /\ Running(Clients) \cap (AsrTasks \cup LocalRequests) = Running(DeviceClients)
      /\ Running(Clients) \cap AsrTasks = Running(AsrTasks)
      /\ Running(Clients) \cap CloudRequests = Running(CloudRequests)
  BY DEF Running, Clients, DeviceClients
<1>2. DeviceExclusive /\ WithinLimits
  BY ExclusiveFromInv, LimitsFromInv
<1> QED BY <1>1, <1>2 DEF Limits!Admissible, DeviceExclusive, WithinLimits, Limits!Cardinality, Cardinality

\* A step of the scheduler starts at most one execution, ends at most one, and
\* never both.
LEMMA StepImplements ==
  ASSUME IInv, IInv', [Next]_vars
  PROVE  [Limits!Next]_(Running(Clients))
<1> USE DEF IInv
<1>1. Limits!Admissible(Running(Clients))'
  BY RunningAdmissible, PTL
<1>2. ASSUME NEW c \in Clients, phase[c] # "running",
             Running(Clients)' = Running(Clients) \cup {c}
      PROVE  Limits!Next
  <2>1. c \notin Running(Clients)
    BY <1>2 DEF Running
  <2>2. Limits!Start(c)
    BY <1>1, <1>2, <2>1 DEF Limits!Start
  <2> QED BY <2>2 DEF Limits!Next, Limits!Clients, Clients, DeviceClients
<1>3. CASE UNCHANGED vars
  BY <1>3 DEF vars, Running
<1>4. ASSUME NEW c \in Clients, Request(c)
      PROVE  [Limits!Next]_(Running(Clients))
  <2>1. phase[c] = "idle" /\ \A d \in Clients \ {c} : phase'[d] = phase[d]
    BY <1>4 DEF Request, TypeOK
  <2>2. CASE phase'[c] = "running"
    <3>1. Running(Clients)' = Running(Clients) \cup {c}
      BY <2>1, <2>2 DEF Running
    <3> QED BY <1>2, <2>1, <3>1
  <2>3. CASE phase'[c] # "running"
    <3>1. Running(Clients)' = Running(Clients)
      BY <2>1, <2>3 DEF Running
    <3> QED BY <3>1
  <2> QED BY <2>2, <2>3
<1>5. ASSUME NEW c \in Clients, Resume(c)
      PROVE  Limits!Next
  <2>1. phase[c] = "granted" /\ Running(Clients)' = Running(Clients) \cup {c}
    BY <1>5 DEF Resume, TypeOK, Running
  <2> QED BY <1>2, <2>1
<1>6. ASSUME NEW c \in Clients, Release(c)
      PROVE  [Limits!Next]_(Running(Clients))
  <2>1. Running(Clients)' = Running(Clients) \ {c}
    BY <1>6 DEF Release, Running, Waiters
  <2>2. CASE c \in Running(Clients)
    BY <2>1, <2>2 DEF Limits!Next, Limits!Stop, Limits!Clients, Clients, DeviceClients
  <2>3. CASE c \notin Running(Clients)
    BY <2>1, <2>3
  <2> QED BY <2>2, <2>3
<1> QED BY <1>3, <1>4, <1>5, <1>6 DEF Next, Complete, Cancel

\* The semaphores implement the promised limits, for any capacities: the
\* executions under way are always an admissible combination, and they start
\* and stop one at a time.
THEOREM Implementation == Spec => ImplementsLimits
<1>1. Init => Limits!Init
  BY DEF Init, Limits!Init, Running
<1>2. IInv /\ IInv' /\ [Next]_vars => [Limits!Next]_(Running(Clients))
  BY StepImplements
<1> QED BY <1>1, <1>2, Invariance, PTL DEF Spec, ImplementsLimits, Limits!Spec
=============================================================================
