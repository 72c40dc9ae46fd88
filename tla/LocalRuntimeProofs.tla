------------------------- MODULE LocalRuntimeProofs -------------------------
(***************************************************************************)
(* Theorems about LocalRuntime, for every value of its constants: first    *)
(* what is true of its rows in every state, then what the store does with  *)
(* a job over time: which moves a job makes, that these moves implement    *)
(* JobPromise, and that an ambiguous effect is recorded until a human has  *)
(* decided it; then what it announces through its outbox, the backlog and  *)
(* the evidence of deliveries, and the sweep's care for live owners and    *)
(* for the number of attempts.                                             *)
(***************************************************************************)
EXTENDS LocalRuntime, FiniteSetTheorems, TLAPS

DeliveryOK(d) == DOMAIN d \subseteq Event /\ d \in [DOMAIN d -> Delivery]

USE DEF Procs

\* Emitting well-formed events keeps the outbox well-formed.
LEMMA EmittedType ==
  ASSUME DeliveryOK(delivery), NEW E \in SUBSET Event
  PROVE  DeliveryOK(Emitted(E))
<1>1. Pending \in Delivery
  BY DEF Pending, Delivery, DeliveryStates, OpenStates
<1>2. DOMAIN Emitted(E) = (DOMAIN delivery) \cup E
  BY DEF Emitted
<1>3. \A e \in DOMAIN Emitted(E) : Emitted(E)[e] \in Delivery
  BY <1>1 DEF Emitted, DeliveryOK
<1>4. Emitted(E) = [e \in DOMAIN Emitted(E) |-> Emitted(E)[e]]
  BY <1>2 DEF Emitted
<1> QED
  BY <1>2, <1>3, <1>4 DEF DeliveryOK

\* Moving abandoned deliveries to recovery keeps the outbox well-formed.
LEMMA RecoveredOutboxType ==
  ASSUME DeliveryOK(delivery), NEW m, NEW dead
  PROVE  /\ DeliveryOK(RecoveredOutbox(m, dead))
         /\ DOMAIN RecoveredOutbox(m, dead) = DOMAIN delivery
<1>1. \A d \in Delivery : AsUnknown(d) \in Delivery
  BY DEF AsUnknown, Delivery, DeliveryStates, OpenStates
<1>2. DOMAIN RecoveredOutbox(m, dead) = DOMAIN delivery
  BY DEF RecoveredOutbox
<1>3. \A e \in DOMAIN delivery : RecoveredOutbox(m, dead)[e] \in Delivery
  BY <1>1 DEF RecoveredOutbox, DeliveryOK
<1>4. RecoveredOutbox(m, dead) = [e \in DOMAIN delivery |-> RecoveredOutbox(m, dead)[e]]
  BY DEF RecoveredOutbox
<1> QED
  BY <1>2, <1>3, <1>4 DEF DeliveryOK

\* Every step on the outbox alone keeps the outbox, the clock and the set of
\* live processes well-formed.
LEMMA OutboxStepType ==
  ASSUME DeliveryOK(delivery), now \in Nat, alive \subseteq Procs, OutboxStep
  PROVE  DeliveryOK(delivery') /\ now' \in Nat /\ alive' \subseteq Procs
<1> USE BoundsAssumption
<1>1. ASSUME NEW m, NEW d, RecoverOutbox(m, d)
      PROVE  DeliveryOK(delivery') /\ now' \in Nat /\ alive' \subseteq Procs
  BY <1>1, RecoveredOutboxType DEF RecoverOutbox
<1>2. ASSUME NEW p \in Publishers, NEW e \in DOMAIN delivery, NEW m \in Moments, ClaimOutbox(p, e, m)
      PROVE  DeliveryOK(delivery') /\ now' \in Nat /\ alive' \subseteq Procs
  <2> DEFINE R == RecoveredOutbox(m, {})
  <2>1. DeliveryOK(R) /\ DOMAIN R = DOMAIN delivery
    BY RecoveredOutboxType
  <2>2. m + LeaseSeconds \in Nat
    BY DEF Moments
  <2>3. ClaimedBy(delivery[e], p, m + LeaseSeconds) \in Delivery
    BY <2>2 DEF DeliveryOK, ClaimedBy, Delivery, DeliveryStates, OpenStates
  <2>4. delivery' = [R EXCEPT ![e] = ClaimedBy(delivery[e], p, m + LeaseSeconds)]
    BY <1>2 DEF ClaimOutbox
  <2> HIDE DEF R
  <2>5. DeliveryOK(delivery')
    BY <2>1, <2>3, <2>4 DEF DeliveryOK
  <2> QED
    BY <1>2, <2>5 DEF ClaimOutbox
<1>3. ASSUME NEW p \in Publishers, NEW e \in DOMAIN delivery, NEW m \in Moments,
             HeartbeatOutbox(p, e, delivery[e].expires, m)
      PROVE  DeliveryOK(delivery') /\ now' \in Nat /\ alive' \subseteq Procs
  <2>1. m + LeaseSeconds \in Nat
    BY DEF Moments
  <2>2. [delivery[e] EXCEPT !.expires = m + LeaseSeconds] \in Delivery
    BY <2>1 DEF DeliveryOK, Delivery
  <2>3. delivery' = [delivery EXCEPT ![e] = [delivery[e] EXCEPT !.expires = m + LeaseSeconds]]
    BY <1>3 DEF HeartbeatOutbox
  <2>4. DeliveryOK(delivery')
    BY <2>2, <2>3 DEF DeliveryOK
  <2> QED
    BY <1>3, <2>4 DEF HeartbeatOutbox
<1>4. ASSUME NEW p \in Publishers, NEW e \in DOMAIN delivery, NEW m \in Moments,
             NEW s \in {"delivered", "failed", "unknown"},
             RecordOutboxReceipt(p, e, delivery[e].expires, s, m)
      PROVE  DeliveryOK(delivery') /\ now' \in Nat /\ alive' \subseteq Procs
  <2>1. Receipted(delivery[e], s) \in Delivery
    BY DEF DeliveryOK, Delivery, DeliveryStates, OpenStates, Receipted, AsUnknown
  <2>2. delivery' = [delivery EXCEPT ![e] = Receipted(delivery[e], s)]
    BY <1>4 DEF RecordOutboxReceipt
  <2>3. DeliveryOK(delivery')
    BY <2>1, <2>2 DEF DeliveryOK
  <2> QED
    BY <1>4, <2>3 DEF RecordOutboxReceipt
<1>5. ASSUME NEW e \in DOMAIN delivery, NEW o \in {"delivered", "failed"}, ResolveDelivery(e, o)
      PROVE  DeliveryOK(delivery') /\ now' \in Nat /\ alive' \subseteq Procs
  <2>1. Resolved(delivery[e], o) \in Delivery
    BY DEF DeliveryOK, Delivery, DeliveryStates, Resolved
  <2>2. delivery' = [delivery EXCEPT ![e] = Resolved(delivery[e], o)]
    BY <1>5 DEF ResolveDelivery
  <2>3. DeliveryOK(delivery')
    BY <2>1, <2>2 DEF DeliveryOK
  <2> QED
    BY <1>5, <2>3 DEF ResolveDelivery
<1>6. ASSUME Tick
      PROVE  DeliveryOK(delivery') /\ now' \in Nat /\ alive' \subseteq Procs
  BY <1>6 DEF Tick
<1>7. ASSUME NEW p \in Procs, Die(p)
      PROVE  DeliveryOK(delivery') /\ now' \in Nat /\ alive' \subseteq Procs
  BY <1>7 DEF Die
<1> QED
  BY <1>1, <1>2, <1>3, <1>4, <1>5, <1>6, <1>7 DEF OutboxStep

-----------------------------------------------------------------------------
(* Type correctness *)

\* The states that the sweep gives a job.
LEMMA SweepStateRange ==
  ASSUME NEW j, NEW m
  PROVE  SweepState(j, m) \in {"recovery-required", "completed", "failed", "ready"}
BY DEF SweepState

\* What the sweep writes is well-formed.
LEMMA SweepType ==
  ASSUME TypeOK, NEW m, NEW O
  PROVE  /\ SweepEvents(m, O) \subseteq Event
         /\ SweptState(m, O) \in [Jobs -> JobStates]
         /\ SweptLease(m, O) \in [Jobs -> Lease \cup {None}]
         /\ SweptLock(m, O) \in [Resources -> Holder \cup {None}]
         /\ SweptCase(m, O) \in [Effects -> {"none", "open", "resolved"}]
<1>1. ASSUME NEW j \in Due(m, O)
      PROVE  Ev(j, "sweep", lease[j].fence, SweepState(j, m)) \in Event
  <2>1. j \in Jobs /\ lease[j] \in Lease
    BY DEF Due, TypeOK
  <2>2. lease[j].fence \in Nat
    BY <2>1 DEF Lease
  <2>3. SweepState(j, m) \in Kinds
    BY SweepStateRange DEF Kinds
  <2> QED
    BY <2>1, <2>2, <2>3 DEF Ev, Event, Tags
<1>2. ASSUME NEW j \in ReadyTimeouts(m)
      PROVE  Ev(j, "ready-timeout", 0, "failed") \in Event
  BY DEF ReadyTimeouts, Ev, Event, Tags, Kinds
<1>3. SweepEvents(m, O) \subseteq Event
  BY <1>1, <1>2 DEF SweepEvents
<1>4. SweptState(m, O) \in [Jobs -> JobStates]
  BY SweepStateRange DEF SweptState, JobStates, TypeOK
<1>5. SweptLease(m, O) \in [Jobs -> Lease \cup {None}]
  BY DEF SweptLease, TypeOK
<1>6. SweptLock(m, O) \in [Resources -> Holder \cup {None}]
  BY DEF SweptLock, Unlocked, TypeOK
<1>7. SweptCase(m, O) \in [Effects -> {"none", "open", "resolved"}]
  BY DEF SweptCase, TypeOK
<1> QED
  BY <1>3, <1>4, <1>5, <1>6, <1>7

\* A moment is a time.
LEMMA MomentType ==
  ASSUME now \in Nat, NEW m \in Moments
  PROVE  m \in Nat /\ m <= now /\ m + LeaseSeconds \in Nat
BY BoundsAssumption DEF Moments

\* The initial state is well-formed.
LEMMA InitType == Init => TypeOK
<1> SUFFICES ASSUME Init PROVE TypeOK
  OBVIOUS
<1>1. [max |-> 1, available |-> 0, timeout |-> None] \in Request
  BY DEF Request
<1>2. DOMAIN delivery = {} /\ delivery \in [DOMAIN delivery -> Delivery]
  BY DEF Init, OutboxInit
<1> QED
  BY <1>1, <1>2 DEF Init, OutboxInit, TypeOK, JobStates, Statuses

\* Every method of the store keeps the tables well-formed.
LEMMA QueueStepType ==
  ASSUME TypeOK, QueueStep
  PROVE  TypeOK'
<1>0. DeliveryOK(delivery)
  BY DEF TypeOK, DeliveryOK
<1> USE DEF jobVars, leaseVars, effectVars
<1>1. ASSUME NEW j \in Jobs, NEW q \in Request, InsertJob(j, q), slot' \in [Slots -> Jobs \cup {None}]
      PROVE  TypeOK'
  <2>1. Ev(j, "enqueued", 0, "enqueued") \in Event
    BY DEF Ev, Event, Tags, Kinds
  <2>2. DeliveryOK(delivery')
    BY <1>0, <1>1, <2>1, EmittedType DEF InsertJob
  <2> QED
    BY <1>1, <2>2 DEF InsertJob, TypeOK, DeliveryOK, JobStates
<1>2. ASSUME NEW j \in Jobs, NEW q \in Requests, Enqueue(j, q)
      PROVE  TypeOK'
  BY <1>1, <1>2, StoreAssumption DEF Enqueue, TypeOK
<1>3. ASSUME NEW s \in Slots, NEW j \in Jobs, NEW m \in Moments, ScheduleOnce(s, j, m)
      PROVE  TypeOK'
  <2>1. [max |-> 1, available |-> m, timeout |-> None] \in Request
    BY MomentType DEF Request, TypeOK
  <2>2. slot' \in [Slots -> Jobs \cup {None}]
    BY <1>3 DEF ScheduleOnce, TypeOK
  <2> QED
    BY <1>1, <1>3, <2>1, <2>2 DEF ScheduleOnce
<1>4. ASSUME NEW m, NEW O, Sweep(m, O), orphans' \subseteq Holder
      PROVE  TypeOK'
  <2>1. DeliveryOK(delivery')
    BY <1>0, <1>4, EmittedType, SweepType DEF Sweep
  <2> QED
    BY <1>4, <2>1, SweepType DEF Sweep, TypeOK, DeliveryOK
<1>5. ASSUME NEW m, RecoverExpired(m) \/ RecoverOrphans(m) \/ AbandonOrphans(m)
      PROVE  TypeOK'
  <2>1. CASE RecoverExpired(m)
    BY <1>4, <2>1 DEF RecoverExpired, TypeOK
  <2>2. CASE RecoverOrphans(m)
    BY <1>4, <2>2 DEF RecoverOrphans
  <2>3. CASE AbandonOrphans(m)
    BY <2>3 DEF AbandonOrphans, TypeOK
  <2> QED
    BY <1>5, <2>1, <2>2, <2>3
<1>6. ASSUME ProbeOrphans
      PROVE  TypeOK'
  <2>1. \A j \in {i \in Jobs : lease[i] # None /\ lease[i].owner \in Unrecognised} :
           [job |-> j, fence |-> lease[j].fence] \in Holder
    BY DEF TypeOK, Lease, Holder
  <2>2. orphans' \subseteq Holder
    BY <1>6, <2>1 DEF ProbeOrphans
  <2> QED
    BY <1>6, <2>2 DEF ProbeOrphans, TypeOK
<1>7. ASSUME NEW p \in Workers, NEW j \in Jobs, NEW m \in Moments, NEW R \in SUBSET Resources,
             ClaimNext(p, j, R, m)
      PROVE  TypeOK'
  <2>1. DeliveryOK(delivery')
    BY <1>0, <1>7, EmittedType, SweepType DEF ClaimNext
  <2>2. fence[j] + 1 \in Nat /\ attempts[j] + 1 \in Nat
    BY DEF TypeOK
  <2>3. [owner |-> p, fence |-> fence[j] + 1, expires |-> m + LeaseSeconds] \in Lease
    BY <2>2, MomentType DEF Lease, TypeOK
  <2>4. [job |-> j, fence |-> fence[j] + 1] \in Holder
    BY <2>2 DEF Holder
  <2>5. lease' \in [Jobs -> Lease \cup {None}]
    BY <1>7, <2>3, SweepType DEF ClaimNext
  <2>6. lock' \in [Resources -> Holder \cup {None}]
    BY <1>7, <2>4, SweepType DEF ClaimNext
  <2>7. state' \in [Jobs -> JobStates] /\ case' \in [Effects -> {"none", "open", "resolved"}]
    BY <1>7, SweepType DEF ClaimNext, JobStates
  <2>8. fence' \in [Jobs -> Nat] /\ attempts' \in [Jobs -> Nat]
    BY <1>7, <2>2 DEF ClaimNext, TypeOK
  <2> QED
    BY <1>7, <2>1, <2>5, <2>6, <2>7, <2>8 DEF ClaimNext, TypeOK, DeliveryOK
<1>8. ASSUME NEW p \in Workers, NEW j \in Jobs, NEW m \in Moments, NEW f \in 1..fence[j],
             Heartbeat(p, j, f, m)
      PROVE  TypeOK'
  <2>1. [lease[j] EXCEPT !.expires = m + LeaseSeconds] \in Lease
    BY <1>8, MomentType DEF Heartbeat, LiveLease, TypeOK, Lease
  <2>2. lease' = [lease EXCEPT ![j] = [lease[j] EXCEPT !.expires = m + LeaseSeconds]]
    BY <1>8 DEF Heartbeat
  <2>3. lease' \in [Jobs -> Lease \cup {None}]
    BY <2>1, <2>2 DEF TypeOK
  <2> QED
    BY <1>8, <2>3 DEF Heartbeat, TypeOK
<1>9. ASSUME NEW p \in Workers, NEW j \in Jobs, NEW m \in Moments, NEW f \in 1..fence[j],
             NEW k \in Effects, ClaimEffect(p, j, f, k, m)
      PROVE  TypeOK'
  <2>1. [job |-> j, fence |-> f] \in Holder
    BY DEF Holder, TypeOK
  <2> QED
    BY <1>9, <2>1 DEF ClaimEffect, TypeOK
<1>10. ASSUME NEW j \in Jobs, NEW to \in {"completed", "failed", "recovery-required", "quarantined"},
              NEW t \in Tags, EndLease(j, to, t), case' \in [Effects -> {"none", "open", "resolved"}]
       PROVE  TypeOK'
  <2>1. Ev(j, t, 0, to) \in Event
    BY DEF Ev, Event, Kinds
  <2>2. DeliveryOK(delivery')
    BY <1>0, <1>10, <2>1, EmittedType DEF EndLease
  <2>3. lock' \in [Resources -> Holder \cup {None}]
    BY <1>10 DEF EndLease, Unlocked, TypeOK
  <2> QED
    BY <1>10, <2>2, <2>3 DEF EndLease, TypeOK, DeliveryOK, JobStates
<1>11. ASSUME NEW p, NEW j \in Jobs, NEW f, NEW m, NEW to \in {"completed", "failed"},
              FinishTerminal(p, j, f, to, m)
       PROVE  TypeOK'
  BY <1>10, <1>11 DEF FinishTerminal, TypeOK, Tags
<1>12. ASSUME NEW p, NEW j \in Jobs, NEW f, NEW m, FinishRecovery(p, j, f, m)
       PROVE  TypeOK'
  <2>1. case' \in [Effects -> {"none", "open", "resolved"}]
    BY <1>12 DEF FinishRecovery, TypeOK
  <2> QED
    BY <1>10, <1>12, <2>1 DEF FinishRecovery, Tags
<1>13. ASSUME NEW p, NEW j \in Jobs, NEW f, NEW m, Quarantine(p, j, f, m)
       PROVE  TypeOK'
  BY <1>10, <1>13 DEF Quarantine, TypeOK, Tags
<1>14. ASSUME NEW k \in Effects, NEW s \in Statuses, RecordReceipt(k, s)
       PROVE  TypeOK'
  BY <1>14 DEF RecordReceipt, TypeOK
<1>15. ASSUME NEW k \in Effects, NEW o \in {"completed", "failed"}, ResolveEffect(k, o)
       PROVE  TypeOK'
  BY <1>15 DEF ResolveEffect, TypeOK
<1>16. ASSUME NEW j \in Jobs, ReconcileRecovery(j)
       PROVE  TypeOK'
  <2> DEFINE failed == \E k \in ClaimsOf(j) : receipt[k] = "failed" \/ resolution[k] = "failed"
             to == IF failed THEN "failed" ELSE "completed"
  <2>1. to \in {"completed", "failed"}
    OBVIOUS
  <2>2. /\ state' = [state EXCEPT ![j] = to]
        /\ delivery' = Emitted({Ev(j, "reconciled", 0, to)})
        /\ UNCHANGED <<now, alive, request, attempts, fence, leaseVars, effectVars,
                       slot, current, orphans>>
    BY <1>16 DEF ReconcileRecovery
  <2> HIDE DEF failed, to
  <2>3. Ev(j, "reconciled", 0, to) \in Event
    BY <2>1 DEF Ev, Event, Kinds, Tags
  <2>4. DeliveryOK(delivery')
    BY <1>0, <2>2, <2>3, EmittedType
  <2> QED
    BY <2>1, <2>2, <2>4 DEF TypeOK, DeliveryOK, JobStates
<1>17. ASSUME NEW C \in SUBSET Bound, AuthorityChange(C)
       PROVE  TypeOK'
  BY <1>17 DEF AuthorityChange, TypeOK
<1> QED
  BY <1>2, <1>3, <1>5, <1>6, <1>7, <1>8, <1>9, <1>11, <1>12, <1>13, <1>14, <1>15, <1>16, <1>17
     DEF QueueStep, JobStep

\* Every step of the specification keeps the tables well-formed.
LEMMA NextType ==
  ASSUME TypeOK, [Next]_vars
  PROVE  TypeOK'
<1>1. CASE QueueStep
  BY <1>1, QueueStepType
<1>2. CASE OutboxStep /\ UNCHANGED storeVars
  <2>1. DeliveryOK(delivery') /\ now' \in Nat /\ alive' \subseteq Procs
    BY <1>2, OutboxStepType DEF TypeOK, DeliveryOK
  <2> QED
    BY <1>2, <2>1 DEF TypeOK, DeliveryOK, storeVars, jobVars, leaseVars, effectVars
<1>3. CASE UNCHANGED vars
  BY <1>3 DEF TypeOK, vars, storeVars, jobVars, leaseVars, effectVars
<1> QED
  BY <1>1, <1>2, <1>3 DEF Next

\* The columns of every table hold values of their declared domains in every
\* reachable state of the store.
THEOREM TypeCorrect == Spec => []TypeOK
BY InitType, NextType, PTL DEF Spec

-----------------------------------------------------------------------------
(***************************************************************************)
(* Leases, locks and fencing tokens.  No part is inductive alone:          *)
(* ClaimEffect needs RunningIffLeased to know that the handle's token is   *)
(* the job's, claim_next needs ClaimPinsAttempt to raise a token without   *)
(* unpinning a claim, and the locks stay backed only because a swept or    *)
(* finished lease carries the token its locks name.                        *)
(***************************************************************************)
StoreInv == TypeOK /\ RunningIffLeased /\ LocksBackedByLease /\ ClaimPinsAttempt

\* A holder is the job and the token it was made of.
LEMMA HolderIs ==
  ASSUME NEW h \in Holder
  PROVE  h = [job |-> h.job, fence |-> h.fence]
BY DEF Holder

\* A claim is among the claims of its job.
LEMMA ClaimIsOfItsJob ==
  ASSUME TypeOK, NEW k \in Effects, claim[k] # None
  PROVE  /\ claim[k] \in Holder /\ claim[k].job \in Jobs /\ claim[k].fence \in Nat
         /\ k \in ClaimsOf(claim[k].job)
BY DEF TypeOK, Holder, ClaimsOf

\* The sweep queues a job again only if it has no claim at all.
LEMMA SweepStateClaims ==
  ASSUME NEW j, NEW m, ClaimsOf(j) # {}
  PROVE  SweepState(j, m) \in {"recovery-required", "completed", "failed"}
BY DEF SweepState

\* A lock that outlives the end of the leases of D belongs to a job outside D.
LEMMA UnlockedBacked ==
  ASSUME StoreInv, NEW D \in SUBSET Jobs, NEW r \in Resources,
         Unlocked({[job |-> j, fence |-> lease[j].fence] : j \in D})[r] # None
  PROVE  /\ Unlocked({[job |-> j, fence |-> lease[j].fence] : j \in D})[r] = lock[r]
         /\ lock[r] # None /\ lock[r].job \in Jobs \ D
<1> DEFINE L == {[job |-> j, fence |-> lease[j].fence] : j \in D}
<1>1. lock[r] # None /\ lock[r] \notin L /\ Unlocked(L)[r] = lock[r]
  BY DEF Unlocked
<1>2. lock[r] \in Holder
  BY <1>1 DEF StoreInv, TypeOK
<1>3. lock[r] = [job |-> lock[r].job, fence |-> lease[lock[r].job].fence]
  BY <1>1, <1>2, HolderIs DEF StoreInv, LocksBackedByLease
<1>4. lock[r].job \notin D
  BY <1>1, <1>3
<1>5. lock[r].job \in Jobs
  BY <1>2 DEF Holder
<1> QED
  BY <1>1, <1>4, <1>5

\* After the sweep: leases, states and claims still agree.
LEMMA SweepKeeps ==
  ASSUME StoreInv, NEW m, NEW O
  PROVE  /\ \A j \in Jobs : SweptState(m, O)[j] = "running" <=> SweptLease(m, O)[j] # None
         /\ \A j \in Jobs : SweptLease(m, O)[j] \in {lease[j], None}
         /\ \A k \in Effects : claim[k] # None =>
              SweptState(m, O)[claim[k].job] \notin {"absent", "ready", "quarantined"}
         /\ \A r \in Resources : SweptLock(m, O)[r] # None =>
              /\ SweptLock(m, O)[r] = lock[r]
              /\ lock[r].job \in Jobs
              /\ SweptLease(m, O)[lock[r].job] = lease[lock[r].job]
<1>0. Due(m, O) \in SUBSET Jobs
  BY DEF Due
<1>1. ASSUME NEW j \in Jobs
      PROVE  /\ SweptState(m, O)[j] = "running" <=> SweptLease(m, O)[j] # None
             /\ SweptLease(m, O)[j] \in {lease[j], None}
  <2>1. CASE j \in Due(m, O)
    BY <2>1, SweepStateRange DEF SweptState, SweptLease
  <2>2. CASE j \notin Due(m, O)
    BY <2>2 DEF SweptState, SweptLease, ReadyTimeouts, StoreInv, RunningIffLeased
  <2> QED
    BY <2>1, <2>2
<1>2. ASSUME NEW k \in Effects, claim[k] # None
      PROVE  SweptState(m, O)[claim[k].job] \notin {"absent", "ready", "quarantined"}
  <2>1. claim[k].job \in Jobs /\ ClaimsOf(claim[k].job) # {}
    BY <1>2, ClaimIsOfItsJob DEF StoreInv
  <2>2. state[claim[k].job] \notin {"absent", "ready", "quarantined"}
    BY <1>2 DEF StoreInv, ClaimPinsAttempt
  <2> QED
    BY <2>1, <2>2, SweepStateClaims DEF SweptState
<1>3. ASSUME NEW r \in Resources, SweptLock(m, O)[r] # None
      PROVE  /\ SweptLock(m, O)[r] = lock[r]
             /\ lock[r].job \in Jobs
             /\ SweptLease(m, O)[lock[r].job] = lease[lock[r].job]
  BY <1>0, <1>3, UnlockedBacked DEF SweptLock, SweptLease
<1> QED
  BY <1>1, <1>2, <1>3

\* Leases, locks and claims agree after every method of the store.
LEMMA QueueStepKeepsStore ==
  ASSUME StoreInv, QueueStep
  PROVE  RunningIffLeased' /\ LocksBackedByLease' /\ ClaimPinsAttempt'
<1> DEFINE Goal == RunningIffLeased' /\ LocksBackedByLease' /\ ClaimPinsAttempt'
<1> USE DEF jobVars, leaseVars, effectVars
<1>0. TypeOK
  BY DEF StoreInv
<1>1. ASSUME NEW j \in Jobs, NEW q, InsertJob(j, q)
      PROVE  Goal
  <2>1. lease[j] = None /\ \A k \in Effects : claim[k] # None => claim[k].job # j
    BY <1>1 DEF InsertJob, StoreInv, RunningIffLeased, ClaimPinsAttempt
  <2>2. RunningIffLeased'
    BY <1>0, <1>1, <2>1 DEF InsertJob, StoreInv, RunningIffLeased, TypeOK
  <2>3. ClaimPinsAttempt'
    BY <1>0, <1>1, <2>1, ClaimIsOfItsJob DEF InsertJob, StoreInv, ClaimPinsAttempt, TypeOK
  <2>4. LocksBackedByLease'
    BY <1>1 DEF InsertJob, StoreInv, LocksBackedByLease
  <2> QED
    BY <2>2, <2>3, <2>4
<1>2. ASSUME NEW m, NEW O, Sweep(m, O)
      PROVE  Goal
  <2>1. RunningIffLeased'
    BY <1>2, SweepKeeps DEF Sweep, StoreInv, RunningIffLeased
  <2>2. ClaimPinsAttempt'
    BY <1>2, SweepKeeps DEF Sweep, StoreInv, ClaimPinsAttempt
  <2>3. LocksBackedByLease'
    BY <1>2, SweepKeeps DEF Sweep, StoreInv, LocksBackedByLease
  <2> QED
    BY <2>1, <2>2, <2>3
<1>3. ASSUME NEW p \in Workers, NEW j \in Jobs, NEW m \in Moments, NEW R \in SUBSET Resources,
             ClaimNext(p, j, R, m)
      PROVE  Goal
  <2> DEFINE l == [owner |-> p, fence |-> fence[j] + 1, expires |-> m + LeaseSeconds]
  <2>1. l \in Lease
    BY <1>0, MomentType DEF Lease, TypeOK
  <2>2. l # None /\ l.fence = fence[j] + 1
    BY <2>1, SentinelAssumption
  <2>3. SweptState(m, {})[j] = "ready" /\ SweptLease(m, {})[j] = None
    BY <1>3, SweepKeeps DEF ClaimNext, Claimable
  <2>4. /\ lease' = [SweptLease(m, {}) EXCEPT ![j] = l]
        /\ state' = [SweptState(m, {}) EXCEPT ![j] = "running"]
        /\ fence' = [fence EXCEPT ![j] = fence[j] + 1]
        /\ lock' = [r \in Resources |->
                      IF r \in R THEN [job |-> j, fence |-> fence[j] + 1] ELSE SweptLock(m, {})[r]]
        /\ claim' = claim
    BY <1>3 DEF ClaimNext
  <2>5. /\ SweptLease(m, {}) \in [Jobs -> Lease \cup {None}]
        /\ SweptState(m, {}) \in [Jobs -> JobStates]
        /\ fence \in [Jobs -> Nat]
    BY <1>0, SweepType DEF TypeOK
  <2> HIDE DEF l
  <2>6. RunningIffLeased'
    <3>1. ASSUME NEW i \in Jobs, i # j
          PROVE  /\ state'[i] = "running" <=> lease'[i] # None
                 /\ lease'[i] # None => lease'[i].fence = fence'[i]
      BY <2>4, <2>5, <3>1, SweepKeeps DEF StoreInv, RunningIffLeased
    <3>2. state'[j] = "running" /\ lease'[j] = l /\ fence'[j] = fence[j] + 1
      BY <2>4, <2>5
    <3> QED
      BY <2>2, <3>1, <3>2 DEF RunningIffLeased
  <2>7. ClaimPinsAttempt'
    <3>1. ASSUME NEW k \in Effects, claim[k] # None
          PROVE  claim[k].job \in Jobs /\ claim[k].job # j
      BY <1>0, <2>3, <3>1, SweepKeeps, ClaimIsOfItsJob
    <3> QED
      BY <2>4, <2>5, <3>1, SweepKeeps DEF StoreInv, ClaimPinsAttempt
  <2>8. LocksBackedByLease'
    <3>1. ASSUME NEW r \in Resources, lock'[r] # None
          PROVE  lease'[lock'[r].job] # None /\ lease'[lock'[r].job].fence = lock'[r].fence
      <4>1. CASE r \in R
        <5>1. lock'[r].job = j /\ lock'[r].fence = fence[j] + 1
          BY <2>4, <4>1
        <5> QED
          BY <2>2, <2>4, <2>5, <5>1
      <4>2. CASE r \notin R
        <5>1. SweptLock(m, {})[r] # None /\ lock'[r] = SweptLock(m, {})[r]
          BY <2>4, <3>1, <4>2
        <5>2. /\ lock'[r] = lock[r] /\ lock[r] # None /\ lock[r].job \in Jobs
              /\ SweptLease(m, {})[lock[r].job] = lease[lock[r].job]
          BY <5>1, SweepKeeps
        <5>3. lease[lock[r].job] # None /\ lease[lock[r].job].fence = lock[r].fence
          BY <5>2 DEF StoreInv, LocksBackedByLease
        <5>4. lock[r].job # j
          BY <2>3, <5>2, <5>3
        <5> QED
          BY <2>4, <2>5, <5>2, <5>3, <5>4
      <4> QED
        BY <4>1, <4>2
    <3> QED
      BY <3>1 DEF LocksBackedByLease
  <2> QED
    BY <2>6, <2>7, <2>8
<1>4. ASSUME NEW p, NEW j \in Jobs, NEW m \in Moments, NEW f, Heartbeat(p, j, f, m)
      PROVE  Goal
  <2> DEFINE l == [lease[j] EXCEPT !.expires = m + LeaseSeconds]
  <2>1. lease[j] \in Lease /\ lease[j] # None
    BY <1>0, <1>4 DEF Heartbeat, LiveLease, TypeOK
  <2>2. l \in Lease /\ l.fence = lease[j].fence
    BY <1>0, <2>1, MomentType DEF Lease, TypeOK
  <2>3. l # None
    BY <2>2, SentinelAssumption
  <2>4. lease' = [lease EXCEPT ![j] = l]
    BY <1>4 DEF Heartbeat
  <2> HIDE DEF l
  <2>5. \A i \in Jobs : /\ lease'[i] # None <=> lease[i] # None
                        /\ lease[i] # None => lease'[i].fence = lease[i].fence
    BY <1>0, <2>1, <2>2, <2>3, <2>4 DEF TypeOK
  <2>6. RunningIffLeased'
    BY <1>4, <2>5 DEF Heartbeat, StoreInv, RunningIffLeased
  <2>7. ClaimPinsAttempt'
    BY <1>4 DEF Heartbeat, StoreInv, ClaimPinsAttempt
  <2>8. \A r \in Resources : lock[r] # None => lock[r].job \in Jobs
    BY <1>0 DEF TypeOK, Holder
  <2>9. LocksBackedByLease'
    BY <1>4, <2>5, <2>8 DEF Heartbeat, StoreInv, LocksBackedByLease
  <2> QED
    BY <2>6, <2>7, <2>9
<1>5. ASSUME NEW p, NEW j \in Jobs, NEW m, NEW f \in 1..fence[j], NEW k \in Effects,
             ClaimEffect(p, j, f, k, m)
      PROVE  Goal
  <2>1. lease[j] # None /\ fence[j] = f /\ state[j] = "running"
    BY <1>5 DEF ClaimEffect, LiveLease, StoreInv, RunningIffLeased
  <2>2. claim' = [claim EXCEPT ![k] = [job |-> j, fence |-> f]]
    BY <1>5 DEF ClaimEffect
  <2>3. ClaimPinsAttempt'
    BY <1>0, <1>5, <2>1, <2>2 DEF ClaimEffect, StoreInv, ClaimPinsAttempt, TypeOK
  <2> QED
    BY <1>5, <2>3 DEF ClaimEffect, StoreInv, RunningIffLeased, LocksBackedByLease
<1>6. ASSUME NEW j \in Jobs, NEW t,
             NEW to \in {"completed", "failed", "recovery-required", "quarantined"},
             EndLease(j, to, t), lease[j] # None, to = "quarantined" => ClaimsOf(j) = {}
      PROVE  Goal
  <2>1. /\ state' = [state EXCEPT ![j] = to] /\ lease' = [lease EXCEPT ![j] = None]
        /\ lock' = Unlocked({[job |-> i, fence |-> lease[i].fence] : i \in {j}})
        /\ fence' = fence /\ claim' = claim
    BY <1>6 DEF EndLease, Unlocked
  <2>2. RunningIffLeased'
    BY <1>0, <2>1 DEF StoreInv, RunningIffLeased, TypeOK
  <2>3. ClaimPinsAttempt'
    <3>1. ASSUME NEW k \in Effects, claim[k] # None
          PROVE  state'[claim[k].job] \notin {"absent", "ready", "quarantined"}
      <4>1. claim[k].job \in Jobs /\ ClaimsOf(claim[k].job) # {}
        BY <1>0, <3>1, ClaimIsOfItsJob
      <4> QED
        BY <1>0, <1>6, <2>1, <3>1, <4>1 DEF StoreInv, ClaimPinsAttempt, TypeOK
    <3> QED
      BY <2>1, <3>1 DEF StoreInv, ClaimPinsAttempt
  <2>4. LocksBackedByLease'
    <3>1. ASSUME NEW r \in Resources, lock'[r] # None
          PROVE  lock'[r] = lock[r] /\ lock[r] # None /\ lock[r].job \in Jobs \ {j}
      BY <2>1, <3>1, UnlockedBacked
    <3>2. \A i \in Jobs \ {j} : lease'[i] = lease[i]
      BY <1>0, <2>1 DEF TypeOK
    <3> QED
      BY <3>1, <3>2 DEF StoreInv, LocksBackedByLease
  <2> QED
    BY <2>2, <2>3, <2>4
<1>7. ASSUME NEW p, NEW j \in Jobs, NEW f, NEW m, NEW to \in {"completed", "failed"},
             FinishTerminal(p, j, f, to, m)
      PROVE  Goal
  BY <1>6, <1>7 DEF FinishTerminal, LiveLease
<1>8. ASSUME NEW p, NEW j \in Jobs, NEW f, NEW m, FinishRecovery(p, j, f, m)
      PROVE  Goal
  BY <1>6, <1>8 DEF FinishRecovery, LiveLease
<1>9. ASSUME NEW p, NEW j \in Jobs, NEW f, NEW m, Quarantine(p, j, f, m)
      PROVE  Goal
  BY <1>6, <1>9 DEF Quarantine, LiveLease
<1>10. ASSUME NEW j \in Jobs, ReconcileRecovery(j)
       PROVE  Goal
  <2>1. PICK to \in {"completed", "failed"} : state' = [state EXCEPT ![j] = to]
    BY <1>10 DEF ReconcileRecovery
  <2>2. state[j] = "recovery-required" /\ UNCHANGED <<fence, lease, lock, claim>>
    BY <1>10 DEF ReconcileRecovery
  <2>3. RunningIffLeased'
    BY <1>0, <2>1, <2>2 DEF StoreInv, RunningIffLeased, TypeOK
  <2>4. ClaimPinsAttempt'
    BY <1>0, <2>1, <2>2, ClaimIsOfItsJob DEF StoreInv, ClaimPinsAttempt, TypeOK
  <2> QED
    BY <2>2, <2>3, <2>4 DEF StoreInv, LocksBackedByLease
<1>11. ASSUME UNCHANGED <<state, fence, lease, lock, claim>>
       PROVE  Goal
  BY <1>11 DEF StoreInv, RunningIffLeased, LocksBackedByLease, ClaimPinsAttempt
<1>12. ASSUME NEW m, RecoverExpired(m) \/ RecoverOrphans(m) \/ AbandonOrphans(m)
       PROVE  Goal
  <2>1. CASE RecoverExpired(m)
    BY <1>2, <2>1 DEF RecoverExpired
  <2>2. CASE RecoverOrphans(m)
    BY <1>2, <2>2 DEF RecoverOrphans
  <2>3. CASE AbandonOrphans(m)
    BY <1>11, <2>3 DEF AbandonOrphans
  <2> QED
    BY <1>12, <2>1, <2>2, <2>3
<1>13. CASE \E j \in Jobs, q \in Requests : Enqueue(j, q)
  BY <1>1, <1>13 DEF Enqueue
<1>14. CASE \E s \in Slots, j \in Jobs, m \in Moments : ScheduleOnce(s, j, m)
  BY <1>1, <1>14 DEF ScheduleOnce
<1>15. CASE ProbeOrphans
  BY <1>11, <1>15 DEF ProbeOrphans
<1>16. CASE \E k \in Effects, s \in Statuses : RecordReceipt(k, s)
  BY <1>11, <1>16 DEF RecordReceipt
<1>17. CASE \E k \in Effects, o \in {"completed", "failed"} : ResolveEffect(k, o)
  BY <1>11, <1>17 DEF ResolveEffect
<1>18. CASE \E C \in SUBSET Bound : AuthorityChange(C)
  BY <1>11, <1>18 DEF AuthorityChange
<1> HIDE DEF Goal
<1> QED
  BY <1>3, <1>4, <1>5, <1>7, <1>8, <1>9, <1>10, <1>12, <1>13, <1>14, <1>15, <1>16, <1>17, <1>18
     DEF QueueStep, JobStep, Goal

\* Every step keeps leases, locks, tokens and claims in agreement.
LEMMA NextKeepsStore ==
  ASSUME StoreInv, [Next]_vars
  PROVE  StoreInv'
<1>1. TypeOK'
  BY NextType DEF StoreInv
<1>2. CASE QueueStep
  BY <1>1, <1>2, QueueStepKeepsStore DEF StoreInv
<1>3. CASE UNCHANGED storeVars
  BY <1>1, <1>3 DEF storeVars, jobVars, leaseVars, effectVars, StoreInv,
                    RunningIffLeased, LocksBackedByLease, ClaimPinsAttempt
<1>4. QueueStep \/ UNCHANGED storeVars
  BY DEF Next, vars
<1> QED
  BY <1>2, <1>3, <1>4

\* Leases, locks, tokens and claims agree in the initial state.
LEMMA InitStore == Init => StoreInv
BY InitType DEF Init, StoreInv, RunningIffLeased, LocksBackedByLease, ClaimPinsAttempt

\* Leases, locks, tokens and claims agree in every reachable state.
THEOREM StoreConsistent == Spec => []StoreInv
BY InitStore, NextKeepsStore, PTL DEF Spec

\* A job runs exactly while it has a lease, and that lease carries the job's
\* current fencing token.
THEOREM LeaseDiscipline == Spec => []RunningIffLeased
BY StoreConsistent, PTL DEF StoreInv

\* A resource is locked only by the lease that its holder has now.
THEOREM LockDiscipline == Spec => []LocksBackedByLease
BY StoreConsistent, PTL DEF StoreInv

\* A job with an effect claim is never queued, claimed or quarantined again.
THEOREM ClaimsPinTheirAttempt == Spec => []ClaimPinsAttempt
BY StoreConsistent, PTL DEF StoreInv

-----------------------------------------------------------------------------
(* A job over time *)

\* The moves of one job in one transaction that commits no effect.
JobMove(j) ==
  \/ state'[j] = state[j]
  \/ state[j] = "absent" /\ state'[j] = "ready"
  \/ state[j] = "ready" /\ state'[j] \in {"running", "failed"}
  \/ /\ state[j] = "running" /\ ClaimsOf(j) = {}
     /\ state'[j] \in {"ready", "completed", "failed", "quarantined"}
  \/ /\ state[j] = "running" /\ ClaimsOf(j) # {}
     /\ state'[j] \in {"completed", "failed", "recovery-required"}
  \/ state[j] = "recovery-required" /\ state'[j] \in {"completed", "failed"}

\* A job that has a claim is not queued.
LEMMA ReadyHasNoClaims ==
  ASSUME StoreInv, NEW j \in Jobs, state[j] \in {"absent", "ready"}
  PROVE  ClaimsOf(j) = {}
BY DEF StoreInv, ClaimPinsAttempt, ClaimsOf

\* Unresolved claims are claims.
LEMMA UnresolvedClaims ==
  ASSUME NEW j
  PROVE  Unresolved(j) \subseteq ClaimsOf(j)
BY DEF Unresolved

\* What the sweep does to one job.
LEMMA SweptMove ==
  ASSUME StoreInv, NEW m, NEW O, NEW j \in Jobs
  PROVE  \/ SweptState(m, O)[j] = state[j] /\ j \notin Due(m, O)
         \/ state[j] = "ready" /\ SweptState(m, O)[j] = "failed"
         \/ /\ j \in Due(m, O) /\ state[j] = "running" /\ ClaimsOf(j) = {}
            /\ SweptState(m, O)[j] \in {"ready", "failed"}
         \/ /\ j \in Due(m, O) /\ state[j] = "running" /\ ClaimsOf(j) # {}
            /\ SweptState(m, O)[j] = SweepState(j, m)
            /\ SweptState(m, O)[j] \in {"completed", "failed", "recovery-required"}
<1>1. CASE j \in Due(m, O)
  <2>1. state[j] = "running"
    BY <1>1 DEF Due, StoreInv, RunningIffLeased
  <2>2. SweptState(m, O)[j] = SweepState(j, m)
    BY <1>1 DEF SweptState
  <2>3. CASE ClaimsOf(j) = {}
    BY <1>1, <2>1, <2>2, <2>3, UnresolvedClaims DEF SweepState
  <2>4. CASE ClaimsOf(j) # {}
    BY <1>1, <2>1, <2>2, <2>4, SweepStateClaims
  <2> QED
    BY <2>3, <2>4
<1>2. CASE j \notin Due(m, O)
  BY <1>2 DEF SweptState, ReadyTimeouts
<1> QED
  BY <1>1, <1>2

\* Every step either commits one effect or moves jobs as JobMove says.
LEMMA QueueStepMoves ==
  ASSUME StoreInv, QueueStep
  PROVE  \/ claim' = claim /\ \A j \in Jobs : JobMove(j)
         \/ /\ state' = state
            /\ \E p \in Workers, j \in Jobs, m \in Moments, k \in Effects :
                 \E f \in 1..fence[j] : ClaimEffect(p, j, f, k, m)
<1> DEFINE Goal == claim' = claim /\ \A j \in Jobs : JobMove(j)
<1> USE DEF jobVars, leaseVars, effectVars
<1>0. TypeOK
  BY DEF StoreInv
<1>1. ASSUME NEW j \in Jobs, NEW q, InsertJob(j, q)
      PROVE  Goal
  BY <1>0, <1>1 DEF InsertJob, JobMove, TypeOK
<1>2. ASSUME NEW m, NEW O, Sweep(m, O)
      PROVE  Goal
  BY <1>2, SweptMove DEF Sweep, JobMove
<1>3. ASSUME NEW p, NEW j \in Jobs, NEW R, NEW m, ClaimNext(p, j, R, m)
      PROVE  Goal
  <2>1. /\ claim' = claim /\ SweptState(m, {})[j] = "ready"
        /\ state' = [SweptState(m, {}) EXCEPT ![j] = "running"]
    BY <1>3 DEF ClaimNext, Claimable
  <2>2. SweptState(m, {}) \in [Jobs -> JobStates]
    BY <1>0, SweepType
  <2>3. \A i \in Jobs : i # j => JobMove(i)
    BY <2>1, <2>2, SweptMove DEF JobMove
  <2>4. JobMove(j)
    BY <2>1, <2>2, SweptMove DEF JobMove
  <2> QED
    BY <2>1, <2>3, <2>4
<1>4. ASSUME NEW j \in Jobs, NEW t,
             NEW to \in {"completed", "failed", "recovery-required", "quarantined"},
             EndLease(j, to, t), lease[j] # None,
             to = "quarantined" => ClaimsOf(j) = {}, to = "recovery-required" => ClaimsOf(j) # {}
      PROVE  Goal
  <2>1. state[j] = "running"
    BY <1>4 DEF StoreInv, RunningIffLeased
  <2> QED
    BY <1>0, <1>4, <2>1 DEF EndLease, JobMove, TypeOK
<1>5. ASSUME NEW p, NEW j \in Jobs, NEW f, NEW m, NEW to \in {"completed", "failed"},
             FinishTerminal(p, j, f, to, m)
      PROVE  Goal
  BY <1>4, <1>5 DEF FinishTerminal, LiveLease
<1>6. ASSUME NEW p, NEW j \in Jobs, NEW f, NEW m, FinishRecovery(p, j, f, m)
      PROVE  Goal
  BY <1>4, <1>6, UnresolvedClaims DEF FinishRecovery, LiveLease
<1>7. ASSUME NEW p, NEW j \in Jobs, NEW f, NEW m, Quarantine(p, j, f, m)
      PROVE  Goal
  BY <1>4, <1>7 DEF Quarantine, LiveLease
<1>8. ASSUME NEW j \in Jobs, ReconcileRecovery(j)
      PROVE  Goal
  <2>1. PICK to \in {"completed", "failed"} : state' = [state EXCEPT ![j] = to]
    BY <1>8 DEF ReconcileRecovery
  <2> QED
    BY <1>0, <1>8, <2>1 DEF ReconcileRecovery, JobMove, TypeOK
<1>9. ASSUME UNCHANGED <<state, claim>>
      PROVE  Goal
  BY <1>9 DEF JobMove
<1>10. ASSUME NEW m, RecoverExpired(m) \/ RecoverOrphans(m) \/ AbandonOrphans(m)
       PROVE  Goal
  <2>1. CASE RecoverExpired(m)
    BY <1>2, <2>1 DEF RecoverExpired
  <2>2. CASE RecoverOrphans(m)
    BY <1>2, <2>2 DEF RecoverOrphans
  <2>3. CASE AbandonOrphans(m)
    BY <1>9, <2>3 DEF AbandonOrphans
  <2> QED
    BY <1>10, <2>1, <2>2, <2>3
<1>11. ASSUME \E j \in Jobs, q \in Requests : Enqueue(j, q)
       PROVE  Goal
  BY <1>1, <1>11 DEF Enqueue
<1>12. ASSUME \E s \in Slots, j \in Jobs, m \in Moments : ScheduleOnce(s, j, m)
       PROVE  Goal
  BY <1>1, <1>12 DEF ScheduleOnce
<1>13. ASSUME ProbeOrphans
       PROVE  Goal
  BY <1>9, <1>13 DEF ProbeOrphans
<1>14. ASSUME \E k \in Effects, s \in Statuses : RecordReceipt(k, s)
       PROVE  Goal
  BY <1>9, <1>14 DEF RecordReceipt
<1>15. ASSUME \E k \in Effects, o \in {"completed", "failed"} : ResolveEffect(k, o)
       PROVE  Goal
  BY <1>9, <1>15 DEF ResolveEffect
<1>16. ASSUME \E C \in SUBSET Bound : AuthorityChange(C)
       PROVE  Goal
  BY <1>9, <1>16 DEF AuthorityChange
<1>17. ASSUME NEW p, NEW j, NEW f, NEW m, Heartbeat(p, j, f, m)
       PROVE  Goal
  BY <1>9, <1>17 DEF Heartbeat
<1>18. ASSUME NEW p, NEW j, NEW f, NEW k, NEW m, ClaimEffect(p, j, f, k, m)
       PROVE  state' = state
  BY <1>18 DEF ClaimEffect
<1> DEFINE Commits == \E p \in Workers, j \in Jobs, m \in Moments, k \in Effects :
                        \E f \in 1..fence[j] : ClaimEffect(p, j, f, k, m)
<1>19. CASE Commits
  <2>1. PICK p \in Workers, j \in Jobs, m \in Moments, k \in Effects :
               \E f \in 1..fence[j] : ClaimEffect(p, j, f, k, m)
    BY <1>19
  <2>2. PICK f \in 1..fence[j] : ClaimEffect(p, j, f, k, m)
    BY <2>1
  <2>3. state' = state
    BY <1>18, <2>2
  <2> QED
    BY <1>19, <2>3
<1> HIDE DEF Goal
<1>20. ASSUME ~Commits, NEW p \in Workers, NEW j \in Jobs, NEW m \in Moments,
              NEW f \in 1..fence[j],
              \/ Heartbeat(p, j, f, m)
              \/ \E k \in Effects : ClaimEffect(p, j, f, k, m)
              \/ \E to \in {"completed", "failed"} : FinishTerminal(p, j, f, to, m)
              \/ FinishRecovery(p, j, f, m)
              \/ Quarantine(p, j, f, m)
       PROVE  Goal
  <2>1. ~ \E k \in Effects : ClaimEffect(p, j, f, k, m)
    BY <1>20
  <2> HIDE DEF Commits
  <2> QED
    BY <1>5, <1>6, <1>7, <1>17, <1>20, <2>1
<1>21. CASE ~Commits
  <2> HIDE DEF Commits
  <2>1. Goal
    BY <1>3, <1>8, <1>10, <1>11, <1>12, <1>13, <1>14, <1>15, <1>16, <1>20, <1>21
       DEF QueueStep, JobStep
  <2> QED
    BY <2>1 DEF Goal
<1> QED
  BY <1>19, <1>21

\* The ends completed, failed and quarantined are final, and a job that needs
\* recovery only moves to completed or failed.
THEOREM EndsStayFinal == Spec => EndsAreFinal
<1>1. ASSUME StoreInv, [Next]_vars
      PROVE  [\A j \in Jobs :
                /\ state[j] \in TerminalStates => state'[j] = state[j]
                /\ state[j] = "recovery-required" =>
                     state'[j] \in {"recovery-required", "completed", "failed"}]_vars
  <2>1. CASE QueueStep
    BY <1>1, <2>1, QueueStepMoves DEF JobMove, TerminalStates
  <2>2. CASE UNCHANGED storeVars
    BY <2>2 DEF storeVars, jobVars
  <2>3. QueueStep \/ UNCHANGED storeVars
    BY <1>1 DEF Next, vars
  <2> QED
    BY <2>1, <2>2, <2>3
<1> QED
  BY <1>1, StoreConsistent, PTL DEF Spec, EndsAreFinal

-----------------------------------------------------------------------------
(* The refinement of JobPromise *)

phaseBar == [j \in Jobs |-> Phase(j)]
committedBar == [j \in Jobs |-> ClaimsOf(j)]

\* The phase of a stored job is one of the promise's phases.
LEMMA PhaseType ==
  ASSUME TypeOK, NEW j \in Jobs
  PROVE  Phase(j) \in Promise!Phases
<1>1. state[j] \in JobStates
  BY DEF TypeOK
<1> QED
  BY <1>1 DEF Phase, JobStates, Promise!Phases

\* A move of a job is a move, or a stutter, of its phase.
LEMMA PhaseMove ==
  ASSUME StoreInv, NEW j \in Jobs, claim' = claim, JobMove(j)
  PROVE  Phase(j)' = Phase(j) \/ <<Phase(j), Phase(j)'>> \in Promise!Moves
<1>1. ClaimsOf(j)' = ClaimsOf(j)
  BY DEF ClaimsOf
<1>2. state[j] = "ready" => ClaimsOf(j) = {}
  BY ReadyHasNoClaims
<1> QED
  BY <1>1, <1>2 DEF JobMove, Phase, Promise!Moves

\* A stored effect claim is the promise's Commit.
LEMMA ClaimIsCommit ==
  ASSUME StoreInv, NEW p, NEW j \in Jobs, NEW m, NEW k \in Effects, NEW f,
         ClaimEffect(p, j, f, k, m)
  PROVE  Promise!Commit(j, k)
<1>1. state[j] = "running" /\ state' = state /\ claim[k] = None
  BY DEF ClaimEffect, LiveLease, StoreInv, RunningIffLeased, jobVars
<1>2. claim' = [claim EXCEPT ![k] = [job |-> j, fence |-> f]] /\ claim \in [Effects -> Holder \cup {None}]
  BY DEF ClaimEffect, StoreInv, TypeOK
<1>3. None # [job |-> j, fence |-> f]
  <2>1. f = lease[j].fence /\ lease[j] # None
    BY DEF ClaimEffect, LiveLease
  <2>2. [job |-> j, fence |-> f] \in Holder
    BY <2>1 DEF StoreInv, TypeOK, Lease, Holder
  <2> QED
    BY <2>2, SentinelAssumption
<1>4. ClaimsOf(j)' = ClaimsOf(j) \cup {k}
  BY <1>1, <1>2, <1>3 DEF ClaimsOf
<1>5. \A i \in Jobs : i # j => ClaimsOf(i)' = ClaimsOf(i)
  BY <1>1, <1>2, <1>3 DEF ClaimsOf
<1>6. \A i \in Jobs : k \notin ClaimsOf(i)
  BY <1>1 DEF ClaimsOf
<1>7. Phase(j) \in {"open", "committed"} /\ Phase(j)' = "committed"
  BY <1>1, <1>4 DEF Phase
<1>8. \A i \in Jobs : i # j => Phase(i)' = Phase(i)
  BY <1>1, <1>5 DEF Phase
<1>9. phaseBar' = [phaseBar EXCEPT ![j] = "committed"]
  BY <1>7, <1>8 DEF phaseBar
<1>10. committedBar' = [committedBar EXCEPT ![j] = committedBar[j] \cup {k}]
  BY <1>4, <1>5 DEF committedBar
<1> QED
  BY <1>6, <1>7, <1>9, <1>10 DEF Promise!Commit, phaseBar, committedBar

\* The store implements the job's promise: leases, retries, sweeps and recovery
\* never take back a committed effect or a known end.
THEOREM StoreKeepsPromise == Spec => KeepsPromise
<1>1. Init => Promise!PromiseInit
  <2> SUFFICES ASSUME Init PROVE Promise!PromiseInit
    OBVIOUS
  <2>1. \A j \in Jobs : Phase(j) = "absent" /\ ClaimsOf(j) = {}
    BY DEF Init, Phase, ClaimsOf
  <2> QED
    BY <2>1 DEF Promise!PromiseInit
<1>2. ASSUME StoreInv, StoreInv', [Next]_vars
      PROVE  [Promise!PromiseNext]_<<phaseBar, committedBar>>
  <2>1. CASE QueueStep /\ claim' = claim /\ \A j \in Jobs : JobMove(j)
    <3>1. \A j \in Jobs : Phase(j)' = Phase(j) \/ <<Phase(j), Phase(j)'>> \in Promise!Moves
      BY <1>2, <2>1, PhaseMove
    <3>2. \A j \in Jobs : Phase(j)' \in Promise!Phases
      <4>1. TypeOK'
        BY <1>2 DEF StoreInv
      <4>2. \A j \in Jobs : state'[j] \in JobStates
        BY <4>1 DEF TypeOK
      <4> QED
        BY <4>2 DEF Phase, JobStates, Promise!Phases
    <3>3. committedBar' = committedBar
      BY <2>1 DEF committedBar, ClaimsOf
    <3>4. Promise!Move
      BY <3>1, <3>2, <3>3 DEF Promise!Move, committedBar
    <3> QED
      BY <3>4 DEF Promise!PromiseNext
  <2>2. CASE \E p \in Workers, j \in Jobs, m \in Moments, k \in Effects :
               \E f \in 1..fence[j] : ClaimEffect(p, j, f, k, m)
    BY <1>2, <2>2, ClaimIsCommit DEF Promise!PromiseNext
  <2>3. CASE UNCHANGED storeVars
    BY <2>3 DEF storeVars, jobVars, effectVars, phaseBar, committedBar, Phase, ClaimsOf
  <2>4. QueueStep \/ UNCHANGED storeVars
    BY <1>2 DEF Next, vars
  <2> QED
    BY <1>2, <2>1, <2>2, <2>3, <2>4, QueueStepMoves
<1> QED
  BY <1>1, <1>2, StoreConsistent, PTL
     DEF Spec, KeepsPromise, Promise!PromiseSpec, phaseBar, committedBar

-----------------------------------------------------------------------------
(***************************************************************************)
(* Ambiguous effects.  AmbiguityRecorded is inductive over StoreInv, but   *)
(* CompletionJustified also needs to know that a job which still runs has  *)
(* a recovery case only for an unknown receipt: a case of a receiptless    *)
(* claim is opened together with the end of the run, so no receipt can     *)
(* arrive between the case and the job's end.                              *)
(***************************************************************************)
RunningCases ==
  \A k \in Effects :
    case[k] # "none" /\ state[claim[k].job] = "running" => receipt[k] = "unknown"

RecoveryInv == StoreInv /\ AmbiguityRecorded /\ RunningCases

\* The cases after an admissible sweep.
LEMMA SweptCases ==
  ASSUME RecoveryInv, NEW m, NEW O, SweepAdmissible(m, O), NEW k \in Effects
  PROVE  \/ SweptCase(m, O)[k] = case[k]
         \/ /\ SweptCase(m, O)[k] = "open" /\ case[k] = "none"
            /\ claim[k] # None /\ claim[k].job \in Due(m, O)
<1>1. CASE \E j \in Due(m, O) : k \in Unresolved(j)
  <2>1. PICK j \in Due(m, O) : k \in Unresolved(j)
    BY <1>1
  <2>2. claim[k] # None /\ claim[k].job = j
    BY <2>1 DEF Unresolved, ClaimsOf
  <2>3. case[k] \in {"open", "none"}
    BY <2>1 DEF SweepAdmissible, CaseAdmissible
  <2> QED
    BY <1>1, <2>1, <2>2, <2>3 DEF SweptCase
<1>2. CASE ~ \E j \in Due(m, O) : k \in Unresolved(j)
  BY <1>2 DEF SweptCase
<1> QED
  BY <1>1, <1>2

\* What an admissible sweep leaves of the recovery invariant.
LEMMA SweepKeepsRecovery ==
  ASSUME RecoveryInv, NEW m, NEW O, SweepAdmissible(m, O)
  PROVE  /\ \A k \in Effects :
              /\ receipt[k] = "unknown" => SweptCase(m, O)[k] # "none"
              /\ SweptCase(m, O)[k] = "resolved" <=> resolution[k] # "none"
              /\ SweptCase(m, O)[k] # "none" => claim[k] # None
              /\ SweptCase(m, O)[k] # "none" /\ SweptState(m, O)[claim[k].job] = "running" =>
                   receipt[k] = "unknown"
         /\ \A j \in Jobs : SweptState(m, O)[j] = "recovery-required" =>
              \E k \in ClaimsOf(j) : SweptCase(m, O)[k] # "none"
<1>0. TypeOK
  BY DEF RecoveryInv, StoreInv
<1>1. ASSUME NEW k \in Effects
      PROVE  /\ receipt[k] = "unknown" => SweptCase(m, O)[k] # "none"
             /\ SweptCase(m, O)[k] = "resolved" <=> resolution[k] # "none"
             /\ SweptCase(m, O)[k] # "none" => claim[k] # None
  BY SweptCases DEF RecoveryInv, AmbiguityRecorded
<1>2. ASSUME NEW k \in Effects, SweptCase(m, O)[k] # "none",
             SweptState(m, O)[claim[k].job] = "running"
      PROVE  receipt[k] = "unknown"
  <2>1. claim[k] # None /\ claim[k].job \in Jobs
    BY <1>0, <1>1, <1>2, ClaimIsOfItsJob
  <2>2. claim[k].job \notin Due(m, O) /\ state[claim[k].job] = "running"
    BY <1>2, <2>1, SweptMove DEF RecoveryInv
  <2>3. case[k] # "none"
    BY <1>2, <2>2, SweptCases
  <2> QED
    BY <2>2, <2>3 DEF RecoveryInv, RunningCases
<1>3. ASSUME NEW j \in Jobs, SweptState(m, O)[j] = "recovery-required"
      PROVE  \E k \in ClaimsOf(j) : SweptCase(m, O)[k] # "none"
  <2>1. CASE j \in Due(m, O)
    <3>1. SweepState(j, m) = "recovery-required"
      BY <1>3, <2>1 DEF SweptState
    <3>2. PICK k \in Unresolved(j) : TRUE
      BY <3>1 DEF SweepState
    <3>3. k \in ClaimsOf(j) /\ k \in Effects /\ SweptCase(m, O)[k] = "open"
      BY <2>1, <3>2 DEF Unresolved, ClaimsOf, SweptCase
    <3> QED
      BY <3>3
  <2>2. CASE j \notin Due(m, O)
    <3>1. state[j] = "recovery-required"
      BY <1>3, <2>2, SweptMove DEF RecoveryInv
    <3>2. PICK k \in ClaimsOf(j) : case[k] # "none"
      BY <3>1 DEF RecoveryInv, AmbiguityRecorded
    <3>3. k \in Effects
      BY DEF ClaimsOf
    <3>4. SweptCase(m, O)[k] # "none"
      BY <3>2, <3>3, SweptCases
    <3> QED
      BY <3>4
  <2> QED
    BY <2>1, <2>2
<1> QED
  BY <1>1, <1>2, <1>3

\* Every method of the store keeps ambiguous effects recorded.
LEMMA QueueStepKeepsRecovery ==
  ASSUME RecoveryInv, StoreInv', QueueStep
  PROVE  AmbiguityRecorded' /\ RunningCases'
<1> DEFINE Goal == AmbiguityRecorded' /\ RunningCases'
<1> USE DEF jobVars, leaseVars, effectVars
<1>0. TypeOK
  BY DEF RecoveryInv, StoreInv
<1>a. \A k \in Effects : case[k] # "none" => claim[k] # None /\ claim[k].job \in Jobs
  BY <1>0, ClaimIsOfItsJob DEF RecoveryInv, AmbiguityRecorded
\* Steps that touch no effect table and move jobs only away from "running".
<1>1. ASSUME UNCHANGED <<claim, receipt, case, resolution>>,
             \A j \in Jobs : state'[j] = "running" => state[j] = "running",
             \A j \in Jobs : state'[j] = "recovery-required" => state[j] = "recovery-required"
      PROVE  Goal
  <2>1. \A j \in Jobs : ClaimsOf(j)' = ClaimsOf(j)
    BY <1>1 DEF ClaimsOf
  <2>2. AmbiguityRecorded'
    BY <1>1, <2>1 DEF RecoveryInv, AmbiguityRecorded
  <2>3. RunningCases'
    BY <1>a, <1>1 DEF RecoveryInv, RunningCases
  <2> QED
    BY <2>2, <2>3
<1>2. ASSUME NEW j \in Jobs, NEW q, InsertJob(j, q)
      PROVE  Goal
  BY <1>0, <1>1, <1>2 DEF InsertJob, TypeOK
<1>3. ASSUME NEW m, NEW O, Sweep(m, O)
      PROVE  Goal
  <2>1. \A j \in Jobs : ClaimsOf(j)' = ClaimsOf(j)
    BY <1>3 DEF Sweep, ClaimsOf
  <2>2. AmbiguityRecorded'
    BY <1>3, <2>1, SweepKeepsRecovery DEF Sweep, AmbiguityRecorded
  <2>3. RunningCases'
    BY <1>3, SweepKeepsRecovery DEF Sweep, RunningCases
  <2> QED
    BY <2>2, <2>3
<1>4. ASSUME NEW p, NEW j \in Jobs, NEW R, NEW m, ClaimNext(p, j, R, m)
      PROVE  Goal
  <2>1. /\ SweepAdmissible(m, {}) /\ SweptState(m, {})[j] = "ready"
        /\ state' = [SweptState(m, {}) EXCEPT ![j] = "running"]
        /\ case' = SweptCase(m, {}) /\ UNCHANGED <<claim, receipt, resolution>>
    BY <1>4 DEF ClaimNext, Claimable
  <2>2. SweptState(m, {}) \in [Jobs -> JobStates]
    BY <1>0, SweepType
  <2>3. \A i \in Jobs : ClaimsOf(i)' = ClaimsOf(i)
    BY <2>1 DEF ClaimsOf
  <2>4. AmbiguityRecorded'
    BY <2>1, <2>2, <2>3, SweepKeepsRecovery DEF AmbiguityRecorded
  <2>5. \A k \in Effects : claim[k] # None => claim[k].job \in Jobs /\ claim[k].job # j
    BY <1>0, <2>1, SweepKeeps, ClaimIsOfItsJob DEF RecoveryInv
  <2>6. RunningCases'
    BY <2>1, <2>2, <2>5, SweepKeepsRecovery DEF RunningCases
  <2> QED
    BY <2>4, <2>6
<1>5. ASSUME NEW p, NEW j \in Jobs, NEW f, NEW k \in Effects, NEW m, ClaimEffect(p, j, f, k, m)
      PROVE  Goal
  <2>1. /\ claim[k] = None /\ claim' = [claim EXCEPT ![k] = [job |-> j, fence |-> f]]
        /\ UNCHANGED <<state, receipt, case, resolution>>
    BY <1>5 DEF ClaimEffect
  <2>2. case[k] = "none"
    BY <1>a, <2>1
  <2>3. \A i \in Effects \ {k} : claim'[i] = claim[i]
    BY <1>0, <2>1 DEF TypeOK
  <2>4. \A i \in Jobs : ClaimsOf(i) \subseteq ClaimsOf(i)'
    BY <2>1, <2>3 DEF ClaimsOf
  <2>5. AmbiguityRecorded'
    BY <2>1, <2>2, <2>3, <2>4 DEF RecoveryInv, AmbiguityRecorded
  <2>6. RunningCases'
    BY <2>1, <2>2, <2>3 DEF RecoveryInv, RunningCases
  <2> QED
    BY <2>5, <2>6
<1>6. ASSUME NEW k \in Effects, NEW s \in Statuses, RecordReceipt(k, s)
      PROVE  Goal
  <2>1. /\ receipt' = [receipt EXCEPT ![k] = s] /\ receipt[k] = "none"
        /\ case' = IF s = "unknown" THEN [case EXCEPT ![k] = "open"] ELSE case
        /\ s = "unknown" => case[k] = "none"
        /\ claim[k] # None /\ UNCHANGED <<state, claim, resolution>>
    BY <1>6 DEF RecordReceipt
  <2>2. \A i \in Jobs : ClaimsOf(i)' = ClaimsOf(i) /\ ClaimsOf(i) \subseteq Effects
    BY <2>1 DEF ClaimsOf
  <2>3. \A i \in Effects : case[i] # "none" => case'[i] = case[i]
    BY <1>0, <2>1 DEF TypeOK
  <2>4. \A i \in Effects : i # k => receipt'[i] = receipt[i] /\ case'[i] = case[i]
    BY <1>0, <2>1 DEF TypeOK
  <2>5. /\ receipt'[k] = s /\ case'[k] = IF s = "unknown" THEN "open" ELSE case[k]
    BY <1>0, <2>1 DEF TypeOK
  <2>6. AmbiguityRecorded'
    BY <2>1, <2>2, <2>3, <2>4, <2>5 DEF RecoveryInv, AmbiguityRecorded
  <2>7. RunningCases'
    BY <2>1, <2>4, <2>5 DEF RecoveryInv, RunningCases
  <2> QED
    BY <2>6, <2>7
<1>7. ASSUME NEW k \in Effects, NEW o \in {"completed", "failed"}, ResolveEffect(k, o)
      PROVE  Goal
  <2>1. /\ resolution' = [resolution EXCEPT ![k] = o] /\ case[k] = "open"
        /\ case' = [case EXCEPT ![k] = "resolved"] /\ UNCHANGED <<state, claim, receipt>>
    BY <1>7 DEF ResolveEffect
  <2>2. \A i \in Jobs : ClaimsOf(i)' = ClaimsOf(i) /\ ClaimsOf(i) \subseteq Effects
    BY <2>1 DEF ClaimsOf
  <2>3. \A i \in Effects : case'[i] # "none" <=> case[i] # "none"
    BY <1>0, <2>1 DEF TypeOK
  <2>4. AmbiguityRecorded'
    BY <1>0, <2>1, <2>2, <2>3 DEF RecoveryInv, AmbiguityRecorded, TypeOK
  <2>5. RunningCases'
    BY <2>1, <2>3 DEF RecoveryInv, RunningCases
  <2> QED
    BY <2>4, <2>5
<1>8. ASSUME NEW j \in Jobs, NEW t, NEW to \in {"completed", "failed", "quarantined"},
             EndLease(j, to, t), case' = case
      PROVE  Goal
  <2>1. state' = [state EXCEPT ![j] = to] /\ UNCHANGED <<claim, receipt, case, resolution>>
    BY <1>8 DEF EndLease
  <2> QED
    BY <1>0, <1>1, <2>1 DEF TypeOK
<1>9. ASSUME NEW p, NEW j \in Jobs, NEW f, NEW m, FinishRecovery(p, j, f, m)
      PROVE  Goal
  <2> DEFINE fresh == IF OpenCases(j) = {} THEN Unresolved(j) ELSE {}
  <2>1. /\ case' = [k \in Effects |-> IF k \in fresh THEN "open" ELSE case[k]]
        /\ \A k \in fresh : receipt[k] = "none" /\ case[k] = "none"
        /\ Unresolved(j) # {}
        /\ state' = [state EXCEPT ![j] = "recovery-required"]
        /\ UNCHANGED <<claim, receipt, resolution>>
    BY <1>9 DEF FinishRecovery, EndLease
  <2>2. \A k \in fresh : k \in Effects /\ claim[k] # None /\ claim[k].job = j
    BY DEF Unresolved, ClaimsOf
  <2>3. \E k \in ClaimsOf(j) : k \in Effects /\ (k \in fresh \/ case[k] = "open")
    BY <2>1 DEF OpenCases, Unresolved, ClaimsOf
  <2> HIDE DEF fresh
  <2>4. \A i \in Jobs : ClaimsOf(i)' = ClaimsOf(i) /\ ClaimsOf(i) \subseteq Effects
    BY <2>1 DEF ClaimsOf
  <2>5. \A i \in Jobs : i # j => state'[i] = state[i]
    BY <1>0, <2>1 DEF TypeOK
  <2>6. \A k \in Effects : case[k] # "none" => case'[k] = case[k]
    BY <2>1
  <2>7. \A i \in Jobs : state'[i] = "recovery-required" => \E k \in ClaimsOf(i)' : case'[k] # "none"
    <3>1. \E k \in ClaimsOf(j) : case'[k] # "none"
      BY <2>1, <2>3
    <3>2. \A i \in Jobs : i # j /\ state[i] = "recovery-required" =>
             \E k \in ClaimsOf(i) : case'[k] # "none"
      BY <2>4, <2>6 DEF RecoveryInv, AmbiguityRecorded
    <3> QED
      BY <2>4, <2>5, <3>1, <3>2
  <2>8. AmbiguityRecorded'
    BY <2>1, <2>2, <2>7 DEF RecoveryInv, AmbiguityRecorded
  <2>9. state'[j] = "recovery-required"
    BY <1>0, <2>1 DEF TypeOK
  <2>10. RunningCases'
    BY <1>a, <2>1, <2>2, <2>5, <2>9 DEF RecoveryInv, RunningCases
  <2> QED
    BY <2>8, <2>10
<1>10. ASSUME NEW j \in Jobs, ReconcileRecovery(j)
       PROVE  Goal
  <2>1. PICK to \in {"completed", "failed"} : state' = [state EXCEPT ![j] = to]
    BY <1>10 DEF ReconcileRecovery
  <2>2. UNCHANGED <<claim, receipt, case, resolution>>
    BY <1>10 DEF ReconcileRecovery
  <2> QED
    BY <1>0, <1>1, <2>1, <2>2 DEF TypeOK
<1>11. ASSUME UNCHANGED <<state, claim, receipt, case, resolution>>
       PROVE  Goal
  BY <1>1, <1>11
<1>12. ASSUME NEW m, RecoverExpired(m) \/ RecoverOrphans(m) \/ AbandonOrphans(m)
       PROVE  Goal
  <2>1. CASE RecoverExpired(m)
    BY <1>3, <2>1 DEF RecoverExpired
  <2>2. CASE RecoverOrphans(m)
    BY <1>3, <2>2 DEF RecoverOrphans
  <2>3. CASE AbandonOrphans(m)
    BY <1>11, <2>3 DEF AbandonOrphans
  <2> QED
    BY <1>12, <2>1, <2>2, <2>3
<1>13. ASSUME NEW p, NEW j \in Jobs, NEW f, NEW m, NEW to \in {"completed", "failed"},
              FinishTerminal(p, j, f, to, m)
       PROVE  Goal
  BY <1>8, <1>13 DEF FinishTerminal
<1>14. ASSUME NEW p, NEW j \in Jobs, NEW f, NEW m, Quarantine(p, j, f, m)
       PROVE  Goal
  BY <1>8, <1>14 DEF Quarantine
<1>15. CASE \E j \in Jobs, q \in Requests : Enqueue(j, q)
  BY <1>2, <1>15 DEF Enqueue
<1>16. CASE \E s \in Slots, j \in Jobs, m \in Moments : ScheduleOnce(s, j, m)
  BY <1>2, <1>16 DEF ScheduleOnce
<1>17. CASE ProbeOrphans
  BY <1>11, <1>17 DEF ProbeOrphans
<1>18. ASSUME NEW p, NEW j, NEW f, NEW m, Heartbeat(p, j, f, m)
       PROVE  Goal
  BY <1>11, <1>18 DEF Heartbeat
<1>19. CASE \E C \in SUBSET Bound : AuthorityChange(C)
  BY <1>11, <1>19 DEF AuthorityChange
<1> HIDE DEF Goal
<1> QED
  BY <1>4, <1>5, <1>6, <1>7, <1>9, <1>10, <1>12, <1>13, <1>14, <1>15, <1>16, <1>17, <1>18, <1>19
     DEF QueueStep, JobStep, Goal

\* Nothing is ambiguous in the initial state.
LEMMA InitRecovery == Init => RecoveryInv
BY InitStore DEF Init, RecoveryInv, AmbiguityRecorded, RunningCases

\* Every step keeps the ambiguous effects recorded.
LEMMA NextKeepsRecovery ==
  ASSUME RecoveryInv, [Next]_vars
  PROVE  RecoveryInv'
<1>1. StoreInv'
  BY NextKeepsStore DEF RecoveryInv
<1>2. CASE QueueStep
  BY <1>1, <1>2, QueueStepKeepsRecovery DEF RecoveryInv
<1>3. CASE UNCHANGED storeVars
  BY <1>1, <1>3 DEF storeVars, jobVars, effectVars, RecoveryInv, AmbiguityRecorded, RunningCases, ClaimsOf
<1>4. QueueStep \/ UNCHANGED storeVars
  BY DEF Next, vars
<1> QED
  BY <1>2, <1>3, <1>4

\* Every reachable state of the store has its ambiguous effects recorded.
THEOREM RecoverySound == Spec => []RecoveryInv
BY InitRecovery, NextKeepsRecovery, PTL DEF Spec

\* No ambiguous effect is lost: an unknown receipt and a recovery-required job
\* each have a recovery case, resolved exactly when a resolution exists.
THEOREM AmbiguityStaysRecorded == Spec => []AmbiguityRecorded
BY RecoverySound, PTL DEF RecoveryInv

\* A job that runs with every receipt known and none failed has only completed
\* effects, and no human verdict about any of them.
LEMMA RunningEffectsKnown ==
  ASSUME RecoveryInv, NEW j \in Jobs, state[j] = "running", Unresolved(j) = {},
         ~HasFailedReceipt(j), NEW k \in ClaimsOf(j)
  PROVE  receipt[k] = "completed" /\ resolution[k] = "none"
<1>1. k \in Effects /\ claim[k].job = j /\ receipt[k] \in Statuses \cup {"none"}
  BY DEF ClaimsOf, RecoveryInv, StoreInv, TypeOK
<1>2. receipt[k] = "completed"
  BY <1>1 DEF Unresolved, HasFailedReceipt, Statuses
<1>3. case[k] = "none"
  BY <1>1, <1>2 DEF RecoveryInv, RunningCases
<1> QED
  BY <1>1, <1>2, <1>3 DEF RecoveryInv, AmbiguityRecorded

\* A job becomes completed only when each of its effects is known to have
\* completed, by a receipt or by a human resolution, and none to have failed.
THEOREM CompletionIsJustified == Spec => CompletionJustified
<1> DEFINE Known(j) == \A k \in ClaimsOf(j) : /\ "completed" \in {receipt[k], resolution[k]}
                                              /\ "failed" \notin {receipt[k], resolution[k]}
           Justified == \A j \in Jobs : state[j] # "completed" /\ state'[j] = "completed" => Known(j)
<1>1. ASSUME RecoveryInv, QueueStep
      PROVE  Justified
  <2> USE DEF jobVars, leaseVars, effectVars
  <2>0. TypeOK /\ StoreInv
    BY <1>1 DEF RecoveryInv, StoreInv
  <2>1. ASSUME NEW j \in Jobs, state[j] = "running", Unresolved(j) = {}, ~HasFailedReceipt(j)
        PROVE  Known(j)
    BY <1>1, <2>1, RunningEffectsKnown
  <2>2. ASSUME NEW m, NEW O, NEW j \in Jobs, state[j] # "completed",
               SweptState(m, O)[j] = "completed"
        PROVE  Known(j)
    <3>1. state[j] = "running" /\ SweepState(j, m) = "completed" /\ ClaimsOf(j) # {}
      BY <2>0, <2>2, SweptMove
    <3>2. Unresolved(j) = {} /\ ~HasFailedReceipt(j)
      BY <3>1 DEF SweepState
    <3> QED
      BY <2>1, <3>1, <3>2
  <2> HIDE DEF Known
  <2>3. ASSUME NEW m, NEW O, Sweep(m, O)
        PROVE  Justified
    BY <2>2, <2>3 DEF Sweep
  <2>4. ASSUME NEW p, NEW j \in Jobs, NEW R, NEW m, ClaimNext(p, j, R, m)
        PROVE  Justified
    <3>1. state' = [SweptState(m, {}) EXCEPT ![j] = "running"]
      BY <2>4 DEF ClaimNext
    <3>2. SweptState(m, {}) \in [Jobs -> JobStates]
      BY <2>0, SweepType
    <3> QED
      BY <2>2, <3>1, <3>2
  <2>5. ASSUME NEW p, NEW j \in Jobs, NEW f, NEW m, NEW to \in {"completed", "failed"},
               FinishTerminal(p, j, f, to, m)
        PROVE  Justified
    <3>1. state' = [state EXCEPT ![j] = to]
      BY <2>5 DEF FinishTerminal, EndLease
    <3>2. to = "completed" => Known(j)
      BY <2>1, <2>5 DEF FinishTerminal
    <3> QED
      BY <2>0, <3>1, <3>2 DEF TypeOK
  <2>6. ASSUME NEW j \in Jobs, NEW to \in {"recovery-required", "quarantined"}, NEW t,
               EndLease(j, to, t)
        PROVE  Justified
    BY <2>0, <2>6 DEF EndLease, TypeOK
  <2>7. ASSUME NEW j \in Jobs, ReconcileRecovery(j)
        PROVE  Justified
    <3> DEFINE failed == \E k \in ClaimsOf(j) : receipt[k] = "failed" \/ resolution[k] = "failed"
    <3>1. state' = [state EXCEPT ![j] = IF failed THEN "failed" ELSE "completed"]
      BY <2>7 DEF ReconcileRecovery
    <3>2. ~failed => Known(j)
      <4> SUFFICES ASSUME ~failed, NEW k \in ClaimsOf(j)
                   PROVE  /\ "completed" \in {receipt[k], resolution[k]}
                          /\ "failed" \notin {receipt[k], resolution[k]}
        BY DEF Known
      <4>1. receipt[k] # "failed" /\ resolution[k] # "failed"
        OBVIOUS
      <4>2. /\ k \in Effects /\ receipt[k] \in Statuses \cup {"none"}
            /\ resolution[k] \in {"none", "completed", "failed"}
        BY <2>0 DEF ClaimsOf, TypeOK
      <4>3. k \notin Unreconciled(j)
        BY <2>7 DEF ReconcileRecovery
      <4>4. /\ case[k] # "none" => resolution[k] # "none"
            /\ case[k] = "none" => receipt[k] \notin {"none", "unknown"}
        BY <4>3 DEF Unreconciled
      <4> QED
        BY <4>1, <4>2, <4>4 DEF Statuses
    <3> HIDE DEF failed
    <3> QED
      BY <2>0, <3>1, <3>2 DEF TypeOK
  <2>8. ASSUME NEW j \in Jobs, NEW q, InsertJob(j, q)
        PROVE  Justified
    BY <2>0, <2>8 DEF InsertJob, TypeOK
  <2>9. ASSUME state' = state
        PROVE  Justified
    BY <2>9
  <2> HIDE DEF Justified
  <2>10. ASSUME NEW m, RecoverExpired(m) \/ RecoverOrphans(m) \/ AbandonOrphans(m)
         PROVE  Justified
    BY <2>3, <2>9, <2>10 DEF RecoverExpired, RecoverOrphans, AbandonOrphans
  <2>11. ASSUME NEW p, NEW j \in Jobs, NEW f, NEW m, FinishRecovery(p, j, f, m) \/ Quarantine(p, j, f, m)
         PROVE  Justified
    BY <2>6, <2>11 DEF FinishRecovery, Quarantine
  <2>12. ASSUME NEW p, NEW j, NEW f, NEW m, Heartbeat(p, j, f, m) \/ \E k \in Effects : ClaimEffect(p, j, f, k, m)
         PROVE  Justified
    BY <2>9, <2>12 DEF Heartbeat, ClaimEffect
  <2>13. CASE \/ \E j \in Jobs, q \in Requests : Enqueue(j, q)
              \/ \E s \in Slots, j \in Jobs, m \in Moments : ScheduleOnce(s, j, m)
    BY <2>8, <2>13 DEF Enqueue, ScheduleOnce
  <2>14. CASE \/ ProbeOrphans
              \/ \E k \in Effects, s \in Statuses : RecordReceipt(k, s)
              \/ \E k \in Effects, o \in {"completed", "failed"} : ResolveEffect(k, o)
              \/ \E C \in SUBSET Bound : AuthorityChange(C)
    BY <2>9, <2>14 DEF ProbeOrphans, RecordReceipt, ResolveEffect, AuthorityChange
  <2> QED
    BY <1>1, <2>4, <2>5, <2>7, <2>10, <2>11, <2>12, <2>13, <2>14 DEF QueueStep, JobStep
<1>2. ASSUME RecoveryInv, [Next]_vars
      PROVE  [Justified]_vars
  <2>1. CASE UNCHANGED storeVars
    BY <2>1 DEF storeVars, jobVars
  <2>2. QueueStep \/ UNCHANGED storeVars
    BY <1>2 DEF Next, vars
  <2> QED
    BY <1>1, <1>2, <2>1, <2>2
<1> QED
  BY <1>2, RecoverySound, PTL DEF Spec, CompletionJustified

-----------------------------------------------------------------------------
(* The outbox *)

\* The rows of local_job.
Stored == {j \in Jobs : state[j] # "absent"}

\* The event announces a job of this state.
Tells(e, j, s) == e.job = j /\ (e.kind = s \/ (s = "ready" /\ e.kind = "enqueued"))

\* The events E are true of the step that emits them: every job it moves (other
\* than to "running") is announced, no end is announced that the step does not
\* make, and a sweep event names a lease that is over or was probed as ownerless.
TrueOfStep(E) ==
  /\ \A j \in Jobs : state'[j] # state[j] /\ state'[j] # "running" =>
       \E e \in E : Tells(e, j, state'[j])
  /\ \A e \in E :
       e.kind \in TerminalStates \cup {"recovery-required"} => state'[e.job] = e.kind
  /\ \A e \in E : e.tag = "sweep" =>
       /\ lease[e.job] # None /\ lease[e.job].fence = e.fence
       /\ \/ lease[e.job].expires <= now
          \/ [job |-> e.job, fence |-> lease[e.job].fence] \in orphans

-----------------------------------------------------------------------------
(* What the sweep emits *)

\* One sweep emits finitely many events: it looks at stored jobs only.
LEMMA SweepEventsFinite ==
  ASSUME StoreInv, IsFiniteSet(Stored), NEW m, NEW O
  PROVE  IsFiniteSet(SweepEvents(m, O))
<1> DEFINE D == Due(m, O)
           T == ReadyTimeouts(m)
           f == [j \in D |-> Ev(j, "sweep", lease[j].fence, SweepState(j, m))]
           g == [j \in T |-> Ev(j, "ready-timeout", 0, "failed")]
           F == {Ev(j, "sweep", lease[j].fence, SweepState(j, m)) : j \in D}
           G == {Ev(j, "ready-timeout", 0, "failed") : j \in T}
<1>1. D \in SUBSET Stored /\ T \in SUBSET Stored
  BY DEF Due, ReadyTimeouts, Stored, StoreInv, RunningIffLeased
<1>2. IsFiniteSet(D) /\ IsFiniteSet(T)
  BY <1>1, FS_Subset
<1>3. f \in Surjection(D, F)
  BY DEF Surjection
<1>4. g \in Surjection(T, G)
  BY DEF Surjection
<1>5. IsFiniteSet(F) /\ IsFiniteSet(G)
  <2> HIDE DEF D, T, f, g, F, G
  <2> QED
    BY <1>2, <1>3, <1>4, FS_Surjection
<1>6. SweepEvents(m, O) = F \cup G
  BY DEF SweepEvents
<1> HIDE DEF F, G
<1> QED
  BY <1>5, <1>6, FS_Union

\* An event of the sweep is that of a due lease or of a ready job past its
\* timeout.
LEMMA SweepEventIs ==
  ASSUME NEW m, NEW O, NEW e \in SweepEvents(m, O)
  PROVE  \/ /\ e.tag = "sweep" /\ e.job \in Due(m, O)
            /\ e.fence = lease[e.job].fence /\ e.kind = SweepState(e.job, m)
         \/ e.tag = "ready-timeout" /\ e.job \in ReadyTimeouts(m) /\ e.kind = "failed"
BY DEF SweepEvents, Ev

\* What the sweep announces, before a claim moves one more job to "running".
LEMMA SweepTells ==
  ASSUME StoreInv, NEW m, NEW O
  PROVE  /\ \A j \in Jobs : SweptState(m, O)[j] # state[j] =>
              \E e \in SweepEvents(m, O) : Tells(e, j, SweptState(m, O)[j])
         /\ \A e \in SweepEvents(m, O) : e.job \in Jobs /\ SweptState(m, O)[e.job] = e.kind
<1>1. ASSUME NEW j \in Jobs, SweptState(m, O)[j] # state[j]
      PROVE  \E e \in SweepEvents(m, O) : Tells(e, j, SweptState(m, O)[j])
  <2>1. CASE j \in Due(m, O)
    <3> DEFINE e == Ev(j, "sweep", lease[j].fence, SweepState(j, m))
    <3>1. e \in SweepEvents(m, O)
      BY <2>1 DEF SweepEvents
    <3>2. Tells(e, j, SweptState(m, O)[j])
      BY <2>1 DEF Tells, Ev, SweptState
    <3> QED
      BY <3>1, <3>2
  <2>2. CASE j \notin Due(m, O)
    <3> DEFINE e == Ev(j, "ready-timeout", 0, "failed")
    <3>1. j \in ReadyTimeouts(m)
      BY <1>1, <2>2 DEF SweptState
    <3>2. e \in SweepEvents(m, O)
      BY <3>1 DEF SweepEvents
    <3>3. Tells(e, j, SweptState(m, O)[j])
      BY <2>2, <3>1 DEF Tells, Ev, SweptState
    <3> QED
      BY <3>2, <3>3
  <2> QED
    BY <2>1, <2>2
<1>2. ASSUME NEW e \in SweepEvents(m, O)
      PROVE  e.job \in Jobs /\ SweptState(m, O)[e.job] = e.kind
  <2>1. CASE e.job \in Due(m, O) /\ e.kind = SweepState(e.job, m)
    BY <2>1 DEF Due, SweptState
  <2>2. CASE e.job \in ReadyTimeouts(m) /\ e.kind = "failed"
    <3>1. e.job \in Jobs /\ e.job \notin Due(m, O)
      BY <2>2 DEF ReadyTimeouts, Due, StoreInv, RunningIffLeased
    <3> QED
      BY <2>2, <3>1 DEF SweptState
  <2> QED
    BY <2>1, <2>2, SweepEventIs
<1> QED
  BY <1>1, <1>2

\* A sweep event names a lease that is over, or that was in the list O.
LEMMA SweepNamesEndedLease ==
  ASSUME NEW m, NEW O, NEW e \in SweepEvents(m, O), e.tag = "sweep"
  PROVE  /\ e.job \in Jobs /\ lease[e.job] # None /\ lease[e.job].fence = e.fence
         /\ \/ lease[e.job].expires <= m
            \/ [job |-> e.job, fence |-> lease[e.job].fence] \in O
BY SweepEventIs DEF Due

-----------------------------------------------------------------------------
(* What one transaction announces *)

\* Every method of the store either leaves the jobs' states and the outbox
\* alone, or inserts finitely many events that fit and are true of it.
LEMMA QueueStepTells ==
  ASSUME StoreInv, QueueStep, IsFiniteSet(Stored)
  PROVE  \/ state' = state /\ delivery' = delivery
         \/ \E E : /\ IsFiniteSet(E) /\ CanEmit(E) /\ delivery' = Emitted(E)
                   /\ TrueOfStep(E)
<1> DEFINE Told(E) == /\ IsFiniteSet(E) /\ CanEmit(E) /\ delivery' = Emitted(E) /\ TrueOfStep(E)
           Goal == (state' = state /\ delivery' = delivery) \/ \E E : Told(E)
<1> USE DEF jobVars, leaseVars, effectVars
<1>0. TypeOK
  BY DEF StoreInv
\* A transaction that moves one job and emits one event about it.
<1>1. ASSUME NEW j \in Jobs, NEW s \in JobStates \ {"running"}, NEW e,
             state' = [state EXCEPT ![j] = s], CanEmit({e}), delivery' = Emitted({e}),
             e.tag # "sweep", Tells(e, j, s)
      PROVE  Goal
  <2>1. IsFiniteSet({e})
    BY FS_Singleton
  <2>2. \A i \in Jobs : state'[i] # state[i] => i = j
    BY <1>0, <1>1 DEF TypeOK
  <2>3. state'[j] = s
    BY <1>0, <1>1 DEF TypeOK
  <2>4. TrueOfStep({e})
    BY <1>1, <2>2, <2>3 DEF TrueOfStep, Tells, TerminalStates
  <2> QED
    BY <1>1, <2>1, <2>4
<1>2. ASSUME NEW j \in Jobs, NEW q, InsertJob(j, q)
      PROVE  Goal
  <2> DEFINE e == Ev(j, "enqueued", 0, "enqueued")
  <2>1. e.tag # "sweep" /\ Tells(e, j, "ready")
    BY DEF Ev, Tells
  <2>2. state' = [state EXCEPT ![j] = "ready"] /\ CanEmit({e}) /\ delivery' = Emitted({e})
    BY <1>2 DEF InsertJob
  <2> HIDE DEF e, Goal
  <2> QED
    BY <1>1, <2>1, <2>2 DEF JobStates
<1>3. ASSUME NEW m \in Nat, m <= now, NEW O, O \subseteq orphans, Sweep(m, O)
      PROVE  Goal
  <2> DEFINE E == SweepEvents(m, O)
  <2>1. IsFiniteSet(E)
    BY SweepEventsFinite
  <2>2. CanEmit(E) /\ delivery' = Emitted(E) /\ state' = SweptState(m, O)
    BY <1>3 DEF Sweep, SweepAdmissible
  <2>3. ASSUME NEW e \in E, e.tag = "sweep"
        PROVE  /\ lease[e.job] # None /\ lease[e.job].fence = e.fence
               /\ \/ lease[e.job].expires <= now
                  \/ [job |-> e.job, fence |-> lease[e.job].fence] \in orphans
    <3>1. /\ e.job \in Jobs /\ lease[e.job] # None /\ lease[e.job].fence = e.fence
          /\ \/ lease[e.job].expires <= m
             \/ [job |-> e.job, fence |-> lease[e.job].fence] \in O
      BY <2>3, SweepNamesEndedLease
    <3>2. lease[e.job].expires \in Nat /\ now \in Nat
      BY <1>0, <3>1 DEF TypeOK, Lease
    <3> QED
      BY <1>3, <3>1, <3>2
  <2>4. /\ \A j \in Jobs : state'[j] # state[j] => \E e \in E : Tells(e, j, state'[j])
        /\ \A e \in E : state'[e.job] = e.kind
    BY <2>2, SweepTells
  <2> HIDE DEF E
  <2>5. TrueOfStep(E)
    BY <2>3, <2>4 DEF TrueOfStep
  <2> QED
    BY <2>1, <2>2, <2>5
<1>4. ASSUME NEW p, NEW j \in Jobs, NEW R, NEW m \in Moments, ClaimNext(p, j, R, m)
      PROVE  Goal
  <2> DEFINE E == SweepEvents(m, {})
  <2>0. m \in Nat /\ m <= now
    BY <1>0, MomentType DEF TypeOK
  <2>1. IsFiniteSet(E)
    BY SweepEventsFinite
  <2>2. /\ CanEmit(E) /\ delivery' = Emitted(E)
        /\ state' = [SweptState(m, {}) EXCEPT ![j] = "running"]
        /\ SweptState(m, {})[j] = "ready"
    BY <1>4 DEF ClaimNext, SweepAdmissible, Claimable
  <2>3. SweptState(m, {}) \in [Jobs -> JobStates]
    BY <1>0, SweepType
  <2>4. ASSUME NEW e \in E, e.tag = "sweep"
        PROVE  lease[e.job] # None /\ lease[e.job].fence = e.fence /\ lease[e.job].expires <= now
    <3>1. /\ e.job \in Jobs /\ lease[e.job] # None /\ lease[e.job].fence = e.fence
          /\ lease[e.job].expires <= m
      <4>1. PICK O : O = {}
        OBVIOUS
      <4>2. e \in SweepEvents(m, O)
        BY <4>1
      <4>3. /\ e.job \in Jobs /\ lease[e.job] # None /\ lease[e.job].fence = e.fence
            /\ \/ lease[e.job].expires <= m
               \/ [job |-> e.job, fence |-> lease[e.job].fence] \in O
        BY <2>4, <4>2, SweepNamesEndedLease
      <4> QED
        BY <4>1, <4>3
    <3>2. lease[e.job].expires \in Nat /\ now \in Nat
      BY <1>0, <3>1 DEF TypeOK, Lease
    <3> QED
      BY <2>0, <3>1, <3>2
  <2>5. /\ \A i \in Jobs : SweptState(m, {})[i] # state[i] =>
             \E e \in E : Tells(e, i, SweptState(m, {})[i])
        /\ \A e \in E : e.job \in Jobs /\ SweptState(m, {})[e.job] = e.kind
    BY SweepTells
  <2> HIDE DEF E
  <2>6. \A i \in Jobs : state'[i] # state[i] /\ state'[i] # "running" =>
          \E e \in E : Tells(e, i, state'[i])
    BY <2>2, <2>3, <2>5
  <2>7. \A e \in E : e.kind \in TerminalStates \cup {"recovery-required"} => state'[e.job] = e.kind
    BY <2>2, <2>3, <2>5 DEF TerminalStates
  <2>8. TrueOfStep(E)
    BY <2>4, <2>6, <2>7 DEF TrueOfStep
  <2> QED
    BY <2>1, <2>2, <2>8
<1>5. ASSUME NEW j \in Jobs, NEW t \in {"terminal", "quarantined"},
             NEW to \in {"completed", "failed", "recovery-required", "quarantined"},
             EndLease(j, to, t)
      PROVE  Goal
  <2> DEFINE e == Ev(j, t, 0, to)
  <2>1. e.tag # "sweep" /\ Tells(e, j, to)
    BY DEF Ev, Tells
  <2>2. state' = [state EXCEPT ![j] = to] /\ CanEmit({e}) /\ delivery' = Emitted({e})
    BY <1>5 DEF EndLease
  <2> HIDE DEF e, Goal
  <2> QED
    BY <1>1, <2>1, <2>2 DEF JobStates
<1>6. ASSUME NEW p, NEW j \in Jobs, NEW f, NEW m, NEW to \in {"completed", "failed"},
             FinishTerminal(p, j, f, to, m)
      PROVE  Goal
  BY <1>5, <1>6 DEF FinishTerminal
<1>7. ASSUME NEW p, NEW j \in Jobs, NEW f, NEW m, FinishRecovery(p, j, f, m)
      PROVE  Goal
  BY <1>5, <1>7 DEF FinishRecovery
<1>8. ASSUME NEW p, NEW j \in Jobs, NEW f, NEW m, Quarantine(p, j, f, m)
      PROVE  Goal
  BY <1>5, <1>8 DEF Quarantine
<1>9. ASSUME NEW j \in Jobs, ReconcileRecovery(j)
      PROVE  Goal
  <2>1. PICK to \in {"completed", "failed"} :
               /\ state' = [state EXCEPT ![j] = to]
               /\ CanEmit({Ev(j, "reconciled", 0, to)})
               /\ delivery' = Emitted({Ev(j, "reconciled", 0, to)})
    BY <1>9 DEF ReconcileRecovery
  <2> DEFINE e == Ev(j, "reconciled", 0, to)
  <2>2. e.tag # "sweep" /\ Tells(e, j, to)
    BY DEF Ev, Tells
  <2> HIDE DEF e, Goal
  <2>3. to \in JobStates \ {"running"}
    BY <2>1 DEF JobStates
  <2> QED
    BY <1>1, <2>1, <2>2, <2>3 DEF e
<1>10. ASSUME state' = state, delivery' = delivery
       PROVE  Goal
  BY <1>10
<1>11. ASSUME RecoverOrphans(now)
       PROVE  Goal
  BY <1>0, <1>3, <1>11 DEF RecoverOrphans, TypeOK
<1>12. ASSUME NEW m \in Moments, RecoverExpired(m)
       PROVE  Goal
  BY <1>0, <1>3, <1>12, MomentType DEF RecoverExpired, TypeOK
<1>13. ASSUME \E j \in Jobs, q \in Requests : Enqueue(j, q)
       PROVE  Goal
  BY <1>2, <1>13 DEF Enqueue
<1>14. ASSUME \E s \in Slots, j \in Jobs, m \in Moments : ScheduleOnce(s, j, m)
       PROVE  Goal
  BY <1>2, <1>14 DEF ScheduleOnce
<1>15. ASSUME \/ AbandonOrphans(now) \/ ProbeOrphans
              \/ \E k \in Effects, s \in Statuses : RecordReceipt(k, s)
              \/ \E k \in Effects, o \in {"completed", "failed"} : ResolveEffect(k, o)
              \/ \E C \in SUBSET Bound : AuthorityChange(C)
       PROVE  Goal
  BY <1>10, <1>15 DEF AbandonOrphans, ProbeOrphans, RecordReceipt, ResolveEffect, AuthorityChange
<1>16. ASSUME NEW p, NEW j, NEW f, NEW m, Heartbeat(p, j, f, m) \/ \E k \in Effects : ClaimEffect(p, j, f, k, m)
       PROVE  Goal
  BY <1>10, <1>16 DEF Heartbeat, ClaimEffect
<1>17. Goal
  <2> HIDE DEF Goal
  <2> QED
    BY <1>4, <1>6, <1>7, <1>8, <1>9, <1>11, <1>12, <1>13, <1>14, <1>15, <1>16 DEF QueueStep, JobStep
<1> QED
  BY <1>17

-----------------------------------------------------------------------------
(* What happens to one delivery *)

\* The moves of one delivery in one transaction.
DeliveryMove(e) ==
  LET d == delivery[e]
      b == delivery'[e]
  IN
  \/ b = d
  \/ d.state = "pending" /\ \E p \in Publishers, x \in Nat : b = ClaimedBy(d, p, x)
  \/ d.state = "claimed" /\ \E x \in Nat : b = [d EXCEPT !.expires = x]
  \/ d.state = "claimed" /\ \E s \in {"delivered", "failed", "unknown"} : b = Receipted(d, s)
  \/ d.case = "open" /\ \E o \in {"delivered", "failed"} : b = Resolved(d, o)

\* An abandoned delivery moves as if its publisher had said "unknown".
LEMMA RecoveredMove ==
  ASSUME NEW m, NEW dead, NEW e \in DOMAIN delivery
  PROVE  \/ RecoveredOutbox(m, dead)[e] = delivery[e]
         \/ delivery[e].state = "claimed" /\ RecoveredOutbox(m, dead)[e] = Receipted(delivery[e], "unknown")
BY DEF RecoveredOutbox, Abandoned, Receipted

\* A step on the outbox alone inserts nothing, removes nothing and moves each
\* delivery as DeliveryMove says.
LEMMA OutboxStepMoves ==
  ASSUME DeliveryOK(delivery), now \in Nat, OutboxStep
  PROVE  DOMAIN delivery' = DOMAIN delivery /\ \A e \in DOMAIN delivery : DeliveryMove(e)
<1> DEFINE Goal == DOMAIN delivery' = DOMAIN delivery /\ \A e \in DOMAIN delivery : DeliveryMove(e)
\* One delivery moves, the others stay.
<1>1. ASSUME NEW e \in DOMAIN delivery, NEW b, delivery' = [delivery EXCEPT ![e] = b],
             delivery'[e] = b => DeliveryMove(e)
      PROVE  Goal
  BY <1>1 DEF DeliveryMove
<1>2. ASSUME NEW m, NEW d, RecoverOutbox(m, d)
      PROVE  Goal
  <2>1. delivery' = RecoveredOutbox(m, d)
    BY <1>2 DEF RecoverOutbox
  <2>2. DOMAIN delivery' = DOMAIN delivery
    BY <2>1 DEF RecoveredOutbox
  <2>3. \A e \in DOMAIN delivery : DeliveryMove(e)
    BY <2>1, RecoveredMove DEF DeliveryMove
  <2> QED
    BY <2>2, <2>3
<1>3. ASSUME NEW p \in Publishers, NEW e \in DOMAIN delivery, NEW m \in Moments, ClaimOutbox(p, e, m)
      PROVE  Goal
  <2> DEFINE R == RecoveredOutbox(m, {})
             b == ClaimedBy(delivery[e], p, m + LeaseSeconds)
  <2>1. delivery[e].state = "pending" /\ delivery' = [R EXCEPT ![e] = b]
    BY <1>3 DEF ClaimOutbox
  <2>2. DOMAIN R = DOMAIN delivery
    BY DEF RecoveredOutbox
  <2>3. m + LeaseSeconds \in Nat
    BY MomentType
  <2>4. DeliveryMove(e)
    <3>1. delivery'[e] = b
      BY <2>1, <2>2
    <3> QED
      BY <2>1, <2>3, <3>1 DEF DeliveryMove
  <2> HIDE DEF b
  <2>5. ASSUME NEW i \in DOMAIN delivery, i # e
        PROVE  DeliveryMove(i)
    <3>1. delivery'[i] = R[i]
      BY <2>1, <2>2, <2>5
    <3>2. \/ R[i] = delivery[i]
          \/ delivery[i].state = "claimed" /\ R[i] = Receipted(delivery[i], "unknown")
      BY RecoveredMove
    <3> QED
      BY <3>1, <3>2 DEF DeliveryMove
  <2> QED
    BY <2>1, <2>2, <2>4, <2>5
<1>4. ASSUME NEW p, NEW e \in DOMAIN delivery, NEW x, NEW m \in Moments, HeartbeatOutbox(p, e, x, m)
      PROVE  Goal
  <2>1. m + LeaseSeconds \in Nat
    BY MomentType
  <2>2. /\ delivery[e].state = "claimed"
        /\ delivery' = [delivery EXCEPT ![e] = [delivery[e] EXCEPT !.expires = m + LeaseSeconds]]
    BY <1>4 DEF HeartbeatOutbox
  <2> QED
    BY <1>1, <2>1, <2>2 DEF DeliveryMove
<1>5. ASSUME NEW p, NEW e \in DOMAIN delivery, NEW x, NEW m,
             NEW s \in {"delivered", "failed", "unknown"}, RecordOutboxReceipt(p, e, x, s, m)
      PROVE  Goal
  <2>1. delivery[e].state = "claimed" /\ delivery' = [delivery EXCEPT ![e] = Receipted(delivery[e], s)]
    BY <1>5 DEF RecordOutboxReceipt
  <2> QED
    BY <1>1, <2>1 DEF DeliveryMove
<1>6. ASSUME NEW e \in DOMAIN delivery, NEW o \in {"delivered", "failed"}, ResolveDelivery(e, o)
      PROVE  Goal
  <2>1. delivery[e].case = "open" /\ delivery' = [delivery EXCEPT ![e] = Resolved(delivery[e], o)]
    BY <1>6 DEF ResolveDelivery
  <2> QED
    BY <1>1, <2>1 DEF DeliveryMove
<1>7. ASSUME Tick \/ \E p \in Procs : Die(p)
      PROVE  Goal
  BY <1>7 DEF Tick, Die, DeliveryMove
<1> HIDE DEF Goal
<1>8. Goal
  BY <1>2, <1>3, <1>4, <1>5, <1>6, <1>7 DEF OutboxStep
<1> QED
  BY <1>8 DEF Goal

\* A transaction that inserts events keeps every stored delivery as it is.
LEMMA EmittedMoves ==
  ASSUME NEW E, delivery' = Emitted(E)
  PROVE  /\ DOMAIN delivery' = (DOMAIN delivery) \cup E
         /\ \A e \in DOMAIN delivery : delivery'[e] = delivery[e]
         /\ \A e \in E \ DOMAIN delivery : delivery'[e] = Pending
BY DEF Emitted

-----------------------------------------------------------------------------
(***************************************************************************)
(* OutboxSound.  The evidence of a delivery is inductive only together     *)
(* with what its state says about its receipt and its case; the bound on   *)
(* the backlog needs that one sweep emits finitely many events, which      *)
(* holds because only finitely many jobs are stored at any time.           *)
(***************************************************************************)

\* What a delivery's state says about its receipt, its case and its outcome.
Evidence(d) ==
  /\ d.state \in {"pending", "claimed"} => d.receipt = "none" /\ d.case = "none"
  /\ d.state = "recovery-required" => d.receipt = "unknown"
  /\ d.state \in {"delivered", "failed"} =>
       d.receipt = d.state \/ (d.receipt = "unknown" /\ d.outcome = d.state)
  /\ d.state = "recovery-required" <=> d.case = "open"

OutboxInv ==
  /\ IsFiniteSet(Stored)
  /\ IsFiniteSet(Undelivered)
  /\ \A e \in DOMAIN delivery : Evidence(delivery[e])
  /\ OutboxTellsState
  /\ OutboxBounded

\* One move of a delivery keeps its evidence and opens no settled delivery.
LEMMA MoveKeepsEvidence ==
  ASSUME DeliveryOK(delivery), NEW e \in DOMAIN delivery, DeliveryMove(e), Evidence(delivery[e])
  PROVE  /\ Evidence(delivery'[e])
         /\ delivery'[e].state \in OpenStates => delivery[e].state \in OpenStates
<1> DEFINE d == delivery[e]
           b == delivery'[e]
<1>0. d \in Delivery
  BY DEF DeliveryOK
<1>1. CASE b = d
  BY <1>1
<1>2. ASSUME d.state = "pending", NEW p \in Publishers, NEW x \in Nat, b = ClaimedBy(d, p, x)
      PROVE  Evidence(b) /\ (b.state \in OpenStates => d.state \in OpenStates)
  BY <1>0, <1>2 DEF Delivery, ClaimedBy, Evidence, OpenStates
<1>3. ASSUME d.state = "claimed", NEW x \in Nat, b = [d EXCEPT !.expires = x]
      PROVE  Evidence(b) /\ (b.state \in OpenStates => d.state \in OpenStates)
  BY <1>0, <1>3 DEF Delivery, Evidence, OpenStates
<1>4. ASSUME d.state = "claimed", NEW s \in {"delivered", "failed", "unknown"}, b = Receipted(d, s)
      PROVE  Evidence(b) /\ (b.state \in OpenStates => d.state \in OpenStates)
  BY <1>0, <1>4 DEF Delivery, Receipted, AsUnknown, Evidence, OpenStates
<1>5. ASSUME d.case = "open", NEW o \in {"delivered", "failed"}, b = Resolved(d, o)
      PROVE  Evidence(b) /\ (b.state \in OpenStates => d.state \in OpenStates)
  BY <1>0, <1>5 DEF Delivery, Resolved, Evidence, OpenStates
<1> QED
  BY <1>1, <1>2, <1>3, <1>4, <1>5 DEF DeliveryMove

\* A step on the outbox alone keeps every part of the invariant.
LEMMA OutboxStepKeepsOutbox ==
  ASSUME TypeOK, OutboxInv, OutboxStep, UNCHANGED storeVars
  PROVE  OutboxInv'
<1> USE DEF storeVars, jobVars
<1>0. DeliveryOK(delivery)
  BY DEF TypeOK, DeliveryOK
<1>1. DOMAIN delivery' = DOMAIN delivery /\ \A e \in DOMAIN delivery : DeliveryMove(e)
  BY <1>0, OutboxStepMoves DEF TypeOK
<1>2. \A e \in DOMAIN delivery' : Evidence(delivery'[e])
  BY <1>0, <1>1, MoveKeepsEvidence DEF OutboxInv
<1>3. Undelivered' \in SUBSET Undelivered
  BY <1>0, <1>1, MoveKeepsEvidence DEF Undelivered, OutboxInv
<1>4. IsFiniteSet(Undelivered') /\ Cardinality(Undelivered') <= Cardinality(Undelivered)
  BY <1>3, FS_Subset DEF OutboxInv
<1>5. Cardinality(Undelivered) \in Nat /\ Cardinality(Undelivered') \in Nat
  BY <1>4, FS_CardinalityType DEF OutboxInv
<1>6. OutboxBounded'
  BY <1>4, <1>5, BoundsAssumption DEF OutboxInv, OutboxBounded
<1>7. OutboxTellsState'
  BY <1>1 DEF OutboxInv, OutboxTellsState
<1>8. Stored' = Stored
  BY DEF Stored
<1> QED
  BY <1>2, <1>4, <1>6, <1>7, <1>8 DEF OutboxInv

\* The insert of finitely many events that fit keeps the backlog bounded and
\* every delivery's evidence.
LEMMA EmitKeepsDeliveries ==
  ASSUME OutboxInv, NEW E, IsFiniteSet(E), CanEmit(E), delivery' = Emitted(E)
  PROVE  /\ IsFiniteSet(Undelivered') /\ OutboxBounded'
         /\ \A e \in DOMAIN delivery' : Evidence(delivery'[e])
<1>1. Undelivered' \in SUBSET (Undelivered \cup E)
  BY EmittedMoves DEF Undelivered
<1>2. /\ IsFiniteSet(Undelivered \cup E)
      /\ Cardinality(Undelivered \cup E) =
           Cardinality(Undelivered) + Cardinality(E) - Cardinality(Undelivered \cap E)
  BY FS_Union DEF OutboxInv
<1>3. IsFiniteSet(Undelivered \cap E)
  BY FS_Intersection DEF OutboxInv
<1>4. IsFiniteSet(Undelivered') /\ Cardinality(Undelivered') <= Cardinality(Undelivered \cup E)
  BY <1>1, <1>2, FS_Subset
<1>5. /\ Cardinality(Undelivered) \in Nat /\ Cardinality(E) \in Nat
      /\ Cardinality(Undelivered \cap E) \in Nat /\ Cardinality(Undelivered') \in Nat
  BY <1>3, <1>4, FS_CardinalityType DEF OutboxInv
<1>6. Cardinality(Undelivered) + Cardinality(E) <= MaxPendingOutbox
  BY DEF CanEmit, HasRoom
<1>7. OutboxBounded'
  BY <1>2, <1>4, <1>5, <1>6, BoundsAssumption DEF OutboxBounded
<1>8. Evidence(Pending)
  BY DEF Pending, Evidence
<1>9. \A e \in DOMAIN delivery' : Evidence(delivery'[e])
  BY <1>8, EmittedMoves DEF OutboxInv
<1> QED
  BY <1>4, <1>7, <1>9

\* A transaction that emits finitely many true events stores finitely many jobs:
\* a job appears as "ready", which one of the events says.
LEMMA TellsKeepsStored ==
  ASSUME StoreInv, QueueStep, IsFiniteSet(Stored), NEW E, IsFiniteSet(E), TrueOfStep(E)
  PROVE  IsFiniteSet(Stored')
<1> DEFINE J == {e.job : e \in E}
           f == [e \in E |-> e.job]
<1>1. f \in Surjection(E, J)
  BY DEF Surjection
<1>2. IsFiniteSet(J)
  <2> HIDE DEF f, J
  <2> QED
    BY <1>1, FS_Surjection
<1>3. \A j \in Jobs : state[j] = "absent" => state'[j] \in {"absent", "ready"}
  BY QueueStepMoves DEF JobMove
<1>4. ASSUME NEW j \in Jobs, state[j] = "absent", state'[j] # "absent"
      PROVE  j \in J
  BY <1>3, <1>4 DEF TrueOfStep, Tells
<1>5. Stored' \in SUBSET (Stored \cup J)
  BY <1>4 DEF Stored
<1> HIDE DEF J
<1> QED
  BY <1>2, <1>5, FS_Union, FS_Subset

\* True events keep the outbox telling the truth: the ends they announce are
\* made, and an end once announced stays.
LEMMA TellsKeepsTruth ==
  ASSUME StoreInv, QueueStep, OutboxTellsState, NEW E, delivery' = Emitted(E), TrueOfStep(E)
  PROVE  OutboxTellsState'
<1>1. /\ DOMAIN delivery' = (DOMAIN delivery) \cup E
  BY EmittedMoves
<1>2. ASSUME NEW j \in Jobs, state'[j] \notin {"absent", "running"}
      PROVE  \E e \in DOMAIN delivery' : Tells(e, j, state'[j])
  <2>1. CASE state'[j] = state[j]
    BY <1>1, <1>2, <2>1 DEF OutboxTellsState, Tells
  <2>2. CASE state'[j] # state[j]
    BY <1>1, <1>2, <2>2 DEF TrueOfStep
  <2> QED
    BY <2>1, <2>2
<1>3. \A j \in Jobs :
         /\ state[j] \in TerminalStates => state'[j] = state[j]
         /\ state[j] \in {"recovery-required", "completed", "failed"} =>
              state'[j] \in {"recovery-required", "completed", "failed"}
  BY QueueStepMoves DEF JobMove, TerminalStates
<1>4. ASSUME NEW e \in DOMAIN delivery'
      PROVE  /\ e.kind \in TerminalStates => state'[e.job] = e.kind
             /\ e.kind = "recovery-required" =>
                  state'[e.job] \in {"recovery-required", "completed", "failed"}
  <2>1. CASE e \in E
    BY <2>1 DEF TrueOfStep
  <2>2. CASE e \in DOMAIN delivery
    <3>1. e.job \in Jobs
      BY <2>2 DEF StoreInv, TypeOK, Event
    <3> QED
      BY <1>3, <2>2, <3>1 DEF OutboxTellsState, TerminalStates
  <2> QED
    BY <1>1, <2>1, <2>2
<1> QED
  BY <1>2, <1>4 DEF OutboxTellsState, Tells

\* Every method of the store keeps the invariant.
LEMMA QueueStepKeepsOutbox ==
  ASSUME StoreInv, OutboxInv, QueueStep
  PROVE  OutboxInv'
<1>1. CASE state' = state /\ delivery' = delivery
  <2>1. Undelivered' = Undelivered /\ Stored' = Stored
    BY <1>1 DEF Undelivered, Stored
  <2> QED
    BY <1>1, <2>1 DEF OutboxInv, OutboxTellsState, OutboxBounded
<1>2. ASSUME NEW E, IsFiniteSet(E), CanEmit(E), delivery' = Emitted(E), TrueOfStep(E)
      PROVE  OutboxInv'
  <2>1. IsFiniteSet(Stored')
    BY <1>2, TellsKeepsStored DEF OutboxInv
  <2>2. /\ IsFiniteSet(Undelivered') /\ OutboxBounded'
        /\ \A e \in DOMAIN delivery' : Evidence(delivery'[e])
    BY <1>2, EmitKeepsDeliveries
  <2>3. OutboxTellsState'
    BY <1>2, TellsKeepsTruth DEF OutboxInv
  <2> QED
    BY <2>1, <2>2, <2>3 DEF OutboxInv
<1> QED
  BY <1>1, <1>2, QueueStepTells DEF OutboxInv

\* A fresh store has nothing to announce.
LEMMA InitOutbox == Init => OutboxInv
<1> SUFFICES ASSUME Init PROVE OutboxInv
  OBVIOUS
<1>1. DOMAIN delivery = {} /\ Stored = {}
  BY DEF Init, OutboxInit, Stored
<1>2. Undelivered = {}
  BY <1>1 DEF Undelivered
<1>3. OutboxTellsState
  BY <1>1 DEF OutboxTellsState, Init
<1> QED
  BY <1>1, <1>2, <1>3, FS_EmptySet, BoundsAssumption DEF OutboxInv, OutboxBounded

\* Every step keeps the outbox sound.
LEMMA NextKeepsOutbox ==
  ASSUME StoreInv, OutboxInv, [Next]_vars
  PROVE  OutboxInv'
<1>1. CASE QueueStep
  BY <1>1, QueueStepKeepsOutbox
<1>2. CASE OutboxStep /\ UNCHANGED storeVars
  BY <1>2, OutboxStepKeepsOutbox DEF StoreInv
<1>3. CASE UNCHANGED vars
  BY <1>3 DEF vars, storeVars, jobVars, OutboxInv, Stored, Undelivered, OutboxTellsState, OutboxBounded
<1> QED
  BY <1>1, <1>2, <1>3 DEF Next

\* The outbox is sound in every reachable state of the store.
LEMMA OutboxConsistent == Spec => []OutboxInv
BY InitOutbox, NextKeepsOutbox, StoreConsistent, PTL DEF Spec

\* The outbox tells the truth, stays within its bound and settles deliveries
\* only on evidence, in every reachable state.
THEOREM OutboxStaysSound == Spec => []OutboxSound
<1>1. OutboxInv => OutboxSound
  BY DEF OutboxInv, OutboxSound, DeliveryEvidence, Evidence
<1> QED
  BY <1>1, OutboxConsistent, PTL

-----------------------------------------------------------------------------
(* Deliveries are handed out once *)

\* No step removes a delivery, and a claimed one keeps its owner.
LEMMA NextKeepsOwners ==
  ASSUME StoreInv, OutboxInv, [Next]_vars
  PROVE  \A e \in DOMAIN delivery :
           /\ e \in DOMAIN delivery'
           /\ delivery[e].state # "pending" =>
                delivery'[e].state # "pending" /\ delivery'[e].owner = delivery[e].owner
<1>0. DeliveryOK(delivery) /\ now \in Nat
  BY DEF StoreInv, TypeOK, DeliveryOK
<1>1. CASE OutboxStep
  <2>1. ASSUME NEW e \in DOMAIN delivery, delivery[e].state # "pending", DeliveryMove(e)
        PROVE  delivery'[e].state # "pending" /\ delivery'[e].owner = delivery[e].owner
    <3>1. delivery[e] \in Delivery
      BY <1>0 DEF DeliveryOK
    <3> QED
      BY <2>1, <3>1 DEF DeliveryMove, Delivery, Receipted, AsUnknown, Resolved
  <2> QED
    BY <1>0, <1>1, <2>1, OutboxStepMoves
<1>2. CASE QueueStep
  BY <1>2, QueueStepTells, EmittedMoves DEF OutboxInv
<1>3. CASE UNCHANGED vars
  BY <1>3 DEF vars
<1> QED
  BY <1>1, <1>2, <1>3 DEF Next

\* An event is handed to one publisher incarnation at most: a claimed delivery
\* keeps its owner for ever and is never offered again.
THEOREM DeliveriesAreHandedOnce == Spec => HandedOnce
<1>1. StoreInv /\ OutboxInv /\ [Next]_vars =>
        [\A e \in DOMAIN delivery :
           delivery[e].state # "pending" =>
             delivery'[e].state # "pending" /\ delivery'[e].owner = delivery[e].owner]_vars
  BY NextKeepsOwners
<1> QED
  BY <1>1, StoreConsistent, OutboxConsistent, PTL DEF Spec, HandedOnce

-----------------------------------------------------------------------------
(***************************************************************************)
(* The sweep.  recover_orphans acts on a list it made in an earlier        *)
(* transaction.  What keeps that list harmless is that a listed token is   *)
(* never given out again: either the listed lease is still there, with an  *)
(* owner the probe still does not recognise (a dead process stays dead, a  *)
(* token is not changed), or the job's token has moved on.                 *)
(***************************************************************************)
OrphansEnded ==
  \A o \in orphans :
    /\ o.fence <= fence[o.job]
    /\ lease[o.job] # None /\ lease[o.job].fence = o.fence => lease[o.job].owner \in Unrecognised

\* The attempts of a job start at zero and a queued job has some left.
AttemptsOK ==
  \A j \in Jobs :
    /\ state[j] = "absent" => attempts[j] = 0
    /\ state[j] = "ready" => attempts[j] < request[j].max

SweepInv == StoreInv /\ OrphansEnded /\ AttemptsOK

\* What one transaction may do to a job's lease and token: end the lease, keep
\* it for its owner, or hand out a new one under the next token.
LeaseMove(j) ==
  \/ fence'[j] = fence[j] /\ lease'[j] = None
  \/ /\ fence'[j] = fence[j] /\ lease[j] # None /\ lease'[j] # None
     /\ lease'[j].owner = lease[j].owner /\ lease'[j].fence = lease[j].fence
  \/ fence'[j] = fence[j] + 1 /\ lease'[j] # None /\ lease'[j].fence = fence[j] + 1

\* What one transaction may do to a job's attempts: nothing, unless it moves the
\* job to "running"; and a job it queues has attempts left.
AttemptMove(j) ==
  \/ state'[j] = state[j] /\ attempts'[j] = attempts[j] /\ request'[j] = request[j]
  \/ state'[j] \notin {"absent", "ready"}
  \/ state[j] = "absent" /\ attempts'[j] = attempts[j] /\ state'[j] = "ready" /\ request'[j].max > 0
  \/ state'[j] = "ready" /\ attempts'[j] < request'[j].max

\* The sweep queues a job again only if it has attempts left.
LEMMA SweepStateAttempts ==
  ASSUME TypeOK, NEW j \in Jobs, NEW m, SweepState(j, m) = "ready"
  PROVE  attempts[j] < request[j].max
<1>1. ~(attempts[j] >= request[j].max)
  BY DEF SweepState
<1>2. attempts[j] \in Nat /\ request[j].max \in Nat
  BY DEF TypeOK, Request
<1> QED
  BY <1>1, <1>2

\* Every transaction moves leases and attempts as LeaseMove and AttemptMove say.
LEMMA QueueStepLeases ==
  ASSUME StoreInv, QueueStep
  PROVE  \A j \in Jobs : LeaseMove(j) /\ AttemptMove(j)
<1> DEFINE Goal == \A j \in Jobs : LeaseMove(j) /\ AttemptMove(j)
<1> USE DEF jobVars, leaseVars, effectVars
<1>0. TypeOK
  BY DEF StoreInv
<1>a. \A j \in Jobs : lease[j] = None \/ lease[j] \in Lease
  BY <1>0 DEF TypeOK
<1>1. ASSUME NEW j \in Jobs, NEW q \in Request, q.max > 0, InsertJob(j, q)
      PROVE  Goal
  BY <1>0, <1>1 DEF InsertJob, LeaseMove, AttemptMove, TypeOK
<1>2. ASSUME NEW m, NEW O, NEW i \in Jobs
      PROVE  \/ i \notin Due(m, O) /\ SweptLease(m, O)[i] = lease[i] /\ SweptState(m, O)[i] \in {state[i], "failed"}
             \/ /\ SweptLease(m, O)[i] = None /\ SweptState(m, O)[i] \notin {"absent"}
                /\ SweptState(m, O)[i] = "ready" => attempts[i] < request[i].max
  <2>1. CASE i \in Due(m, O)
    BY <1>0, <2>1, SweepStateRange, SweepStateAttempts DEF SweptLease, SweptState
  <2>2. CASE i \notin Due(m, O)
    BY <2>2 DEF SweptLease, SweptState
  <2> QED
    BY <2>1, <2>2
<1>3. ASSUME NEW m, NEW O, Sweep(m, O)
      PROVE  Goal
  BY <1>2, <1>3 DEF Sweep, LeaseMove, AttemptMove
<1>4. ASSUME NEW p \in Workers, NEW j \in Jobs, NEW R, NEW m \in Moments, ClaimNext(p, j, R, m)
      PROVE  Goal
  <2> DEFINE l == [owner |-> p, fence |-> fence[j] + 1, expires |-> m + LeaseSeconds]
  <2>1. l \in Lease
    BY <1>0, MomentType DEF Lease, TypeOK, Procs
  <2>2. l # None /\ l.fence = fence[j] + 1
    BY <2>1, SentinelAssumption
  <2>3. /\ lease' = [SweptLease(m, {}) EXCEPT ![j] = l]
        /\ state' = [SweptState(m, {}) EXCEPT ![j] = "running"]
        /\ fence' = [fence EXCEPT ![j] = fence[j] + 1]
        /\ attempts' = [attempts EXCEPT ![j] = attempts[j] + 1]
        /\ request' = request
    BY <1>4 DEF ClaimNext
  <2>4. /\ SweptLease(m, {}) \in [Jobs -> Lease \cup {None}]
        /\ SweptState(m, {}) \in [Jobs -> JobStates]
        /\ fence \in [Jobs -> Nat] /\ attempts \in [Jobs -> Nat]
    BY <1>0, SweepType DEF TypeOK
  <2> HIDE DEF l
  <2>5. LeaseMove(j) /\ AttemptMove(j)
    BY <2>1, <2>2, <2>3, <2>4 DEF LeaseMove, AttemptMove
  <2>6. ASSUME NEW i \in Jobs, i # j
        PROVE  LeaseMove(i) /\ AttemptMove(i)
    BY <1>2, <2>3, <2>4, <2>6 DEF LeaseMove, AttemptMove
  <2> QED
    BY <2>5, <2>6
<1>5. ASSUME NEW p, NEW j \in Jobs, NEW f, NEW m \in Moments, Heartbeat(p, j, f, m)
      PROVE  Goal
  <2> DEFINE l == [lease[j] EXCEPT !.expires = m + LeaseSeconds]
  <2>1. lease[j] \in Lease /\ lease[j] # None
    BY <1>0, <1>5 DEF Heartbeat, LiveLease, TypeOK
  <2>2. l \in Lease /\ l.fence = lease[j].fence /\ l.owner = lease[j].owner
    BY <1>0, <2>1, MomentType DEF Lease, TypeOK
  <2>3. l # None
    BY <2>2, SentinelAssumption
  <2>4. lease' = [lease EXCEPT ![j] = l]
    BY <1>5 DEF Heartbeat
  <2> HIDE DEF l
  <2> QED
    BY <1>0, <1>5, <2>1, <2>2, <2>3, <2>4 DEF Heartbeat, LeaseMove, AttemptMove, TypeOK
<1>6. ASSUME NEW j \in Jobs, NEW t,
             NEW to \in {"completed", "failed", "recovery-required", "quarantined"},
             EndLease(j, to, t)
      PROVE  Goal
  BY <1>0, <1>6 DEF EndLease, LeaseMove, AttemptMove, TypeOK
<1>7. ASSUME NEW j \in Jobs, ReconcileRecovery(j)
      PROVE  Goal
  <2>1. PICK to \in {"completed", "failed"} : state' = [state EXCEPT ![j] = to]
    BY <1>7 DEF ReconcileRecovery
  <2> QED
    BY <1>0, <1>7, <2>1 DEF ReconcileRecovery, LeaseMove, AttemptMove, TypeOK
<1>8. ASSUME UNCHANGED <<jobVars, leaseVars>>
      PROVE  Goal
  BY <1>8 DEF LeaseMove, AttemptMove
<1>9. ASSUME \E j \in Jobs, q \in Requests : Enqueue(j, q)
      PROVE  Goal
  BY <1>1, <1>9, StoreAssumption DEF Enqueue
<1>10. ASSUME NEW s \in Slots, NEW j \in Jobs, NEW m \in Moments, ScheduleOnce(s, j, m)
       PROVE  Goal
  <2> DEFINE q == [max |-> 1, available |-> m, timeout |-> None]
  <2>1. q \in Request /\ q.max > 0
    BY <1>0, MomentType DEF Request, TypeOK
  <2> HIDE DEF q
  <2> QED
    BY <1>1, <1>10, <2>1 DEF ScheduleOnce, q
<1>11. ASSUME NEW m, RecoverExpired(m) \/ RecoverOrphans(m)
       PROVE  Goal
  BY <1>3, <1>11 DEF RecoverExpired, RecoverOrphans
<1>12. ASSUME \/ AbandonOrphans(now) \/ ProbeOrphans
              \/ \E k \in Effects, s \in Statuses : RecordReceipt(k, s)
              \/ \E k \in Effects, o \in {"completed", "failed"} : ResolveEffect(k, o)
              \/ \E C \in SUBSET Bound : AuthorityChange(C)
       PROVE  Goal
  BY <1>8, <1>12 DEF AbandonOrphans, ProbeOrphans, RecordReceipt, ResolveEffect, AuthorityChange
<1>13. ASSUME NEW p, NEW j, NEW f, NEW m, \E k \in Effects : ClaimEffect(p, j, f, k, m)
       PROVE  Goal
  BY <1>8, <1>13 DEF ClaimEffect
<1>14. ASSUME NEW p, NEW j \in Jobs, NEW f, NEW m,
              \/ \E to \in {"completed", "failed"} : FinishTerminal(p, j, f, to, m)
              \/ FinishRecovery(p, j, f, m)
              \/ Quarantine(p, j, f, m)
       PROVE  Goal
  BY <1>6, <1>14 DEF FinishTerminal, FinishRecovery, Quarantine
<1> HIDE DEF Goal
<1>15. Goal
  BY <1>4, <1>5, <1>7, <1>9, <1>10, <1>11, <1>12, <1>13, <1>14 DEF QueueStep, JobStep
<1> QED
  BY <1>15 DEF Goal

\* The list of orphans changes only by a new probe or by being used up, and no
\* transaction revives a process.
LEMMA QueueStepOrphans ==
  ASSUME QueueStep
  PROVE  alive' = alive /\ now' = now /\ (orphans' \subseteq orphans \/ ProbeOrphans)
<1> USE DEF jobVars, leaseVars, effectVars
<1> DEFINE Goal == alive' = alive /\ now' = now /\ (orphans' \subseteq orphans \/ ProbeOrphans)
<1>1. ASSUME NEW j, NEW q, InsertJob(j, q)
      PROVE  Goal
  BY <1>1 DEF InsertJob
<1>2. ASSUME NEW m, RecoverExpired(m) \/ RecoverOrphans(m) \/ AbandonOrphans(m)
      PROVE  Goal
  BY <1>2 DEF RecoverExpired, RecoverOrphans, AbandonOrphans, Sweep
<1>3. ASSUME ProbeOrphans
      PROVE  Goal
  BY <1>3 DEF ProbeOrphans
<1>4. ASSUME NEW p, NEW j, NEW R, NEW m, ClaimNext(p, j, R, m)
      PROVE  Goal
  BY <1>4 DEF ClaimNext
<1>5. ASSUME NEW p, NEW j, NEW f, NEW m,
             \/ Heartbeat(p, j, f, m)
             \/ \E k \in Effects : ClaimEffect(p, j, f, k, m)
             \/ \E to \in {"completed", "failed"} : FinishTerminal(p, j, f, to, m)
             \/ FinishRecovery(p, j, f, m)
             \/ Quarantine(p, j, f, m)
      PROVE  Goal
  BY <1>5 DEF Heartbeat, ClaimEffect, FinishTerminal, FinishRecovery, Quarantine, EndLease
<1>6. ASSUME \/ \E k \in Effects, s \in Statuses : RecordReceipt(k, s)
             \/ \E k \in Effects, o \in {"completed", "failed"} : ResolveEffect(k, o)
             \/ \E j \in Jobs : ReconcileRecovery(j)
             \/ \E C \in SUBSET Bound : AuthorityChange(C)
      PROVE  Goal
  BY <1>6 DEF RecordReceipt, ResolveEffect, ReconcileRecovery, AuthorityChange
<1>7. ASSUME \/ \E j \in Jobs, q \in Requests : Enqueue(j, q)
             \/ \E s \in Slots, j \in Jobs, m \in Moments : ScheduleOnce(s, j, m)
      PROVE  Goal
  BY <1>1, <1>7 DEF Enqueue, ScheduleOnce
<1> HIDE DEF Goal
<1>8. Goal
  BY <1>2, <1>3, <1>4, <1>5, <1>6, <1>7 DEF QueueStep, JobStep
<1> QED
  BY <1>8 DEF Goal

\* Every step keeps the list of orphans harmless.
LEMMA NextKeepsOrphans ==
  ASSUME StoreInv, OrphansEnded, [Next]_vars
  PROVE  OrphansEnded'
<1>0. /\ orphans \subseteq Holder /\ fence \in [Jobs -> Nat]
      /\ \A j \in Jobs : lease[j] # None => lease[j].fence = fence[j]
  BY DEF StoreInv, TypeOK, RunningIffLeased
<1>1. \A o \in Holder : o.job \in Jobs /\ o.fence \in Nat
  BY DEF Holder
<1>2. CASE QueueStep /\ orphans' \subseteq orphans
  <2>1. alive' = alive
    BY <1>2, QueueStepOrphans
  <2>2. ASSUME NEW o \in orphans'
        PROVE  /\ o.fence <= fence'[o.job]
               /\ lease'[o.job] # None /\ lease'[o.job].fence = o.fence =>
                    lease'[o.job].owner \in Unrecognised'
    <3>1. /\ o.job \in Jobs /\ o.fence \in Nat /\ fence[o.job] \in Nat /\ o.fence <= fence[o.job]
          /\ lease[o.job] # None /\ lease[o.job].fence = o.fence => lease[o.job].owner \in Unrecognised
      BY <1>0, <1>1, <1>2 DEF OrphansEnded
    <3>2. LeaseMove(o.job)
      BY <1>2, <3>1, QueueStepLeases
    <3> QED
      BY <2>1, <3>1, <3>2 DEF LeaseMove, Unrecognised
  <2> QED
    BY <2>2 DEF OrphansEnded
<1>3. CASE ProbeOrphans
  <2>1. ASSUME NEW o \in orphans'
        PROVE  /\ o.fence <= fence[o.job]
               /\ lease[o.job].owner \in Unrecognised
    <3>1. PICK j \in Jobs : /\ lease[j] # None /\ lease[j].owner \in Unrecognised
                            /\ o = [job |-> j, fence |-> lease[j].fence]
      BY <1>3 DEF ProbeOrphans
    <3> QED
      BY <1>0, <3>1
  <2> QED
    BY <1>3, <2>1 DEF ProbeOrphans, OrphansEnded, Unrecognised, jobVars, leaseVars
<1>4. CASE OutboxStep /\ UNCHANGED storeVars
  <2>1. alive' \subseteq alive
    BY <1>4 DEF OutboxStep, RecoverOutbox, ClaimOutbox, HeartbeatOutbox, RecordOutboxReceipt,
                ResolveDelivery, Tick, Die
  <2> QED
    BY <1>4, <2>1 DEF OrphansEnded, Unrecognised, storeVars, jobVars, leaseVars
<1>5. CASE UNCHANGED vars
  BY <1>5 DEF vars, OrphansEnded, Unrecognised, storeVars, jobVars, leaseVars
<1> QED
  BY <1>2, <1>3, <1>4, <1>5, QueueStepOrphans DEF Next

\* Every step keeps the attempts in order.
LEMMA NextKeepsAttempts ==
  ASSUME StoreInv, AttemptsOK, [Next]_vars
  PROVE  AttemptsOK'
<1>1. CASE QueueStep
  <2>1. ASSUME NEW j \in Jobs
        PROVE  /\ state'[j] = "absent" => attempts'[j] = 0
               /\ state'[j] = "ready" => attempts'[j] < request'[j].max
    BY <1>1, QueueStepLeases DEF AttemptMove, AttemptsOK
  <2> QED
    BY <2>1 DEF AttemptsOK
<1>2. CASE UNCHANGED jobVars
  BY <1>2 DEF AttemptsOK, jobVars
<1> QED
  BY <1>1, <1>2 DEF Next, vars, storeVars

\* The inductive invariant of the sweep.
LEMMA SweepConsistent == Spec => []SweepInv
<1>1. Init => OrphansEnded /\ AttemptsOK
  BY DEF Init, OrphansEnded, AttemptsOK
<1>2. StoreInv /\ StoreInv' /\ SweepInv /\ [Next]_vars => SweepInv'
  BY NextKeepsOrphans, NextKeepsAttempts DEF SweepInv
<1>3. Init /\ StoreInv => SweepInv
  BY <1>1 DEF SweepInv
<1> QED
  BY <1>2, <1>3, StoreConsistent, PTL DEF Spec

\* A queued job can still be claimed: nothing queues a job whose attempts are
\* used up.
THEOREM QueuedCanBeClaimed == Spec => []ReadyHasAttemptsLeft
<1>1. SweepInv => ReadyHasAttemptsLeft
  BY DEF SweepInv, AttemptsOK, ReadyHasAttemptsLeft
<1> QED
  BY <1>1, SweepConsistent, PTL

\* A lease is swept only when its time is over or when the probe of its owner
\* would still not report its token, even though recover_orphans acts on what it
\* saw in an earlier transaction: a live worker that leased under its incarnation
\* token keeps its lease, whoever had the job when it was probed.
THEOREM RecognisedOwnersAreSpared == Spec => SweepSparesRecognised
<1> DEFINE Spared ==
      \A e \in DOMAIN delivery' \ DOMAIN delivery :
        e.tag = "sweep" =>
          LET l == lease[e.job] IN
          l # None /\ l.fence = e.fence /\ (l.expires <= now \/ l.owner \in Unrecognised)
<1>1. ASSUME SweepInv, OutboxInv, [Next]_vars
      PROVE  [Spared]_vars
  <2>0. StoreInv /\ DeliveryOK(delivery) /\ now \in Nat
    BY <1>1 DEF SweepInv, StoreInv, TypeOK, DeliveryOK
  <2>1. CASE QueueStep
    <3>1. ASSUME NEW E, delivery' = Emitted(E), TrueOfStep(E)
          PROVE  Spared
      <4>1. DOMAIN delivery' = (DOMAIN delivery) \cup E
        BY <3>1, EmittedMoves
      <4>2. \A e \in E : e.tag = "sweep" =>
              /\ lease[e.job] # None /\ lease[e.job].fence = e.fence
              /\ \/ lease[e.job].expires <= now
                 \/ [job |-> e.job, fence |-> lease[e.job].fence] \in orphans
        BY <3>1 DEF TrueOfStep
      <4>3. \A j, f : [job |-> j, fence |-> f] \in orphans /\ lease[j] # None /\ lease[j].fence = f
                         => lease[j].owner \in Unrecognised
        BY <1>1 DEF SweepInv, OrphansEnded
      <4> QED
        BY <4>1, <4>2, <4>3
    <3>2. CASE delivery' = delivery
      BY <3>2
    <3> QED
      BY <1>1, <2>0, <2>1, <3>1, <3>2, QueueStepTells DEF OutboxInv
  <2>2. CASE OutboxStep
    BY <2>0, <2>2, OutboxStepMoves
  <2>3. CASE UNCHANGED vars
    BY <2>3
  <2> QED
    BY <1>1, <2>1, <2>2, <2>3 DEF Next
<1> QED
  BY <1>1, SweepConsistent, OutboxConsistent, PTL DEF Spec, SweepSparesRecognised
=============================================================================
