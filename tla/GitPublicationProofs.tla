------------------------- MODULE GitPublicationProofs ------------------------
(***************************************************************************)
(* Theorems about run_canonical_job and about the publication that runs as *)
(* one: for any number of callers, jobs, deaths and sweeps, a key executes *)
(* at most once, a receipt is proved by its checkpoint, a push spends an   *)
(* authorization, and what is reported agrees with the remote.             *)
(***************************************************************************)
EXTENDS GitPublication, LocalRuntimeProofs

USE DEF Procs

(***************************************************************************)
(* The inductive invariant of the calls.  A call beyond its claim holds    *)
(* the very handle that the stored claim names, and a token is handed to   *)
(* one call, so all that was done for a claimed job was done by that call, *)
(* and the call's place says how far it came.  No receipt is ever          *)
(* "failed", so only a human verdict ends a claimed job as failed.         *)
(***************************************************************************)

\* The key of an effect claim is the job's own.
KeyIsJob == \A k \in Effects : claim[k] # None => claim[k].job = k

Claimed == Guarded \cup {"claimed", "caught", "ambiguous"}
Leased == Claimed \cup {"leased"}

\* The tokens of the handles were handed out, each to one call.
HandlesAreUnique ==
  /\ \A p \in Workers : handle[p] # None => handle[p].fence \in 0..fence[handle[p].job]
  /\ \A p, q \in Workers :
       handle[p] # None /\ handle[p].fence > 0 /\ handle[p] = handle[q] => p = q
  /\ \A p \in Workers : pc[p] # "idle" => handle[p] # None
  /\ \A p \in Workers : pc[p] \in Leased \/ keeper[p] => handle[p] # None /\ handle[p].fence > 0

\* What the place of a call says about its job.
PlaceIsTrue(p) ==
  LET j == handle[p].job IN
  /\ pc[p] \in Claimed => claim[j] = handle[p] /\ executed[j] = IF pc[p] = "claimed" THEN 0 ELSE 1
  /\ pc[p] \in {"claimed", "executing", "executed", "confirmed"} => checkpoint[j] = 0
  /\ pc[p] \in {"checkpointed", "sealed", "receipted", "finished"} => checkpoint[j] = 1
  /\ pc[p] \in (Guarded \ {"receipted", "finished"}) \cup {"claimed"} => receipt[j] = "none"

PlacesAreTrue == \A p \in Workers : PlaceIsTrue(p)

\* What is known of a job, whatever its callers do now.
HistoryIsTrue ==
  \A j \in Jobs :
    /\ executed[j] \in 0..1
    /\ claim[j] = None => executed[j] = 0 /\ receipt[j] = "none"
    /\ checkpoint[j] <= executed[j]
    /\ receipt[j] = "completed" => checkpoint[j] = 1
    /\ receipt[j] # "failed"

CallInv == CanonicalTypeOK /\ KeyIsJob /\ HandlesAreUnique /\ PlacesAreTrue /\ HistoryIsTrue

\* Only a human verdict ends a claimed job as failed.
FailedIsJudged ==
  \A j \in Jobs : state[j] = "failed" /\ claim[j] # None => resolution[j] # "none"

CanonicalInv == RecoveryInv /\ CallInv /\ FailedIsJudged /\ AnswerIsProved

(***************************************************************************)
(* The inductive invariant of the publication: how far execute() came      *)
(* decides whether the authorization was spent and the push was made.      *)
(***************************************************************************)

\* What the step of execute() says about the push.
StepIsTrue(p) ==
  LET j == handle[p].job IN
  /\ pc[p] = "claimed" => pushed[j] = 0
  /\ pc[p] = "executing" /\ step[p] \in Steps \ {"pushed", "read"} => pushed[j] = 0
  /\ pc[p] = "executing" /\ step[p] \in {"consumed", "revalidated"} => j \in consumed
  /\ pc[p] = "executing" /\ step[p] \in {"pushed", "read"} => pushed[j] = 1
  /\ pc[p] \in Guarded \ {"executing"} => pushed[j] = 1

\* What is known of an authorization.
PushIsSpent ==
  \A j \in Jobs :
    /\ pushed[j] \in 0..1
    /\ pushed[j] = 1 => j \in consumed /\ claim[j] # None
    /\ j \in withdrawn => j \notin consumed
    /\ receipt[j] = "completed" => pushed[j] = 1

PublicationInv ==
  /\ CanonicalInv
  /\ PublicationTypeOK
  /\ \A p \in Workers : StepIsTrue(p)
  /\ PushIsSpent

-----------------------------------------------------------------------------
(* Facts about handles and the store *)

\* A handle that is there is one of the store's.
LEMMA HandleType ==
  ASSUME CallInv, NEW p \in Workers, handle[p] # None
  PROVE  /\ handle[p] \in Holder /\ handle[p].job \in Jobs
         /\ handle[p].fence \in 0..fence[handle[p].job] /\ handle[p].fence \in Nat
         /\ handle[p] = [job |-> handle[p].job, fence |-> handle[p].fence]
<1>1. handle[p] \in Holder
  BY DEF CallInv, CanonicalTypeOK
<1> QED
  BY <1>1, HolderIs DEF Holder, CallInv, HandlesAreUnique

\* A call that holds a lease or runs a keeper has a token of its own.
LEMMA LeasedHandle ==
  ASSUME CallInv, NEW p \in Workers, pc[p] \in Leased \/ keeper[p]
  PROVE  /\ handle[p] # None /\ handle[p].job \in Jobs /\ handle[p].fence \in 1..fence[handle[p].job]
         /\ handle[p] \in Holder /\ handle[p] = [job |-> handle[p].job, fence |-> handle[p].fence]
<1>1. handle[p] # None /\ handle[p].fence > 0
  BY DEF CallInv, HandlesAreUnique
<1> QED
  BY <1>1, HandleType

\* The claims of a job are its own key, if that is claimed.
LEMMA OwnClaim ==
  ASSUME KeyIsJob, NEW j \in Jobs
  PROVE  ClaimsOf(j) = IF claim[j] # None THEN {j} ELSE {}
BY CanonicalAssumption DEF KeyIsJob, ClaimsOf

\* Every step of the calls and their surroundings is a step of the store or leaves
\* the store alone.
LEMMA CanonicalStepIsNext ==
  ASSUME CallInv, [CanonicalNext]_canonicalVars
  PROVE  [Next]_vars
<1>1. ASSUME NEW p \in Workers, NEW m \in Moments, NEW j \in Jobs, NEW f \in 1..fence[j],
             \/ Heartbeat(p, j, f, m) \/ FinishRecovery(p, j, f, m)
             \/ FinishTerminal(p, j, f, "completed", m) \/ ClaimEffect(p, j, f, j, m)
      PROVE  [Next]_vars
  <2>1. j \in Effects
    BY CanonicalAssumption
  <2> QED
    BY <1>1, <2>1 DEF Next, QueueStep, JobStep
<1>2. ASSUME NEW p \in Workers, NEW m \in Moments,
             \/ ClaimTheEffect(p, m) \/ Confirm(p, m) \/ Seal(p, m)
             \/ Finish(p, m) \/ HandleFinish(p, m) \/ KeeperRenews(p, m)
      PROVE  [Next]_vars
  <2>1. pc[p] \in Leased \/ keeper[p]
    BY <1>2 DEF ClaimTheEffect, Confirm, Seal, Finish, HandleFinish, KeeperRenews, At,
                Leased, Claimed, Guarded
  <2>2. handle[p].job \in Jobs /\ handle[p].fence \in 1..fence[handle[p].job]
    BY <2>1, LeasedHandle
  <2> QED
    BY <1>1, <1>2, <2>2 DEF ClaimTheEffect, Confirm, Seal, Finish, HandleFinish, KeeperRenews
<1>3. ASSUME NEW p \in Workers, NEW m \in Moments, TakeLease(p, m)
      PROVE  [Next]_vars
  <2>1. handle[p].job \in Jobs
    BY <1>3, HandleType DEF TakeLease, At, CallInv, HandlesAreUnique
  <2> QED
    BY <1>3, <2>1 DEF TakeLease, Next, QueueStep, JobStep
<1>4. ASSUME NEW p \in Workers, NEW q \in Requests, EnqueueNew(p, q)
      PROVE  [Next]_vars
  <2>1. handle[p].job \in Jobs
    BY <1>4, HandleType DEF EnqueueNew, At, CallInv, HandlesAreUnique
  <2> QED
    BY <1>4, <2>1 DEF EnqueueNew, Next, QueueStep, JobStep
<1>5. ASSUME NEW p \in Workers, Receipt(p) \/ Handle(p)
      PROVE  [Next]_vars
  <2>1. handle[p].job \in Effects
    BY <1>5, LeasedHandle, CanonicalAssumption DEF Receipt, Handle, At, Leased, Claimed, Guarded
  <2>2. RecordReceipt(handle[p].job, "completed") \/ RecordReceipt(handle[p].job, "unknown")
    BY <1>5 DEF Receipt, Handle
  <2> QED
    BY <2>1, <2>2 DEF Next, QueueStep, JobStep, Statuses
<1>6. ASSUME NEW p \in Workers,
             \/ \E j \in Jobs : Dispatch(p, j) \/ Replay(p, j)
             \/ EnqueueExisting(p) \/ Execute(p) \/ Return(p) \/ WriteCheckpoint(p) \/ ReadBack(p)
             \/ RaiseEarly(p) \/ RaiseGuarded(p) \/ HandleRaise(p) \/ Interrupt(p)
      PROVE  UNCHANGED vars
  BY <1>6 DEF Dispatch, Replay, EnqueueExisting, Execute, Return, WriteCheckpoint, ReadBack, RaiseEarly,
              RaiseGuarded, HandleRaise, Interrupt
<1>7. ASSUME Recovery
      PROVE  [Next]_vars
  BY <1>7 DEF Recovery, Next, QueueStep, JobStep
<1>8. ASSUME Environment
      PROVE  [Next]_vars
  BY <1>8 DEF Environment, Next, OutboxStep, QueueStep
<1> QED
  BY <1>2, <1>3, <1>4, <1>5, <1>6, <1>7, <1>8 DEF CanonicalNext, CallStep, canonicalVars

\* A transaction that emits events removes none.
LEMMA EmittedKeeps ==
  ASSUME NEW E, delivery' = Emitted(E)
  PROVE  DOMAIN delivery \subseteq DOMAIN delivery'
BY DEF Emitted

\* What the store never takes back: an event that was emitted and the end of a
\* completed job.
LEMMA StoreRemembers ==
  ASSUME RecoveryInv, [Next]_vars
  PROVE  /\ DOMAIN delivery \subseteq DOMAIN delivery'
         /\ \A j \in Jobs : state[j] = "completed" => state'[j] = "completed"
<1> USE DEF jobVars, leaseVars, effectVars
<1>1. \A j \in Jobs : state[j] = "completed" => state'[j] = "completed"
  <2>1. CASE QueueStep
    BY <2>1, QueueStepMoves DEF RecoveryInv, JobMove
  <2>2. CASE UNCHANGED storeVars
    BY <2>2 DEF storeVars
  <2> QED
    BY <2>1, <2>2 DEF Next, vars
<1>2. CASE OutboxStep \/ UNCHANGED vars
  <2>1. DOMAIN delivery' = DOMAIN delivery
    BY <1>2 DEF OutboxStep, RecoverOutbox, ClaimOutbox, HeartbeatOutbox, RecordOutboxReceipt,
       ResolveDelivery, Tick, Die, RecoveredOutbox, vars
  <2> QED
    BY <1>1, <2>1
<1>3. CASE QueueStep
  <2> DEFINE Goal == DOMAIN delivery \subseteq DOMAIN delivery'
  <2>1. ASSUME NEW j, NEW q, InsertJob(j, q)
        PROVE  Goal
    BY <2>1, EmittedKeeps DEF InsertJob
  <2>2. ASSUME NEW m, NEW O, Sweep(m, O)
        PROVE  Goal
    BY <2>2, EmittedKeeps DEF Sweep
  <2>3. ASSUME NEW p, NEW j, NEW R, NEW m, ClaimNext(p, j, R, m)
        PROVE  Goal
    BY <2>3, EmittedKeeps DEF ClaimNext
  <2>4. ASSUME NEW j, NEW to, NEW t, EndLease(j, to, t)
        PROVE  Goal
    BY <2>4, EmittedKeeps DEF EndLease
  <2>5. ASSUME NEW j, ReconcileRecovery(j)
        PROVE  Goal
    BY <2>5, EmittedKeeps DEF ReconcileRecovery
  <2>6. ASSUME delivery' = delivery
        PROVE  Goal
    BY <2>6
  <2> HIDE DEF Goal
  <2>7. ASSUME \/ \E j \in Jobs, q \in Requests : Enqueue(j, q)
               \/ \E s \in Slots, j \in Jobs, m \in Moments : ScheduleOnce(s, j, m)
        PROVE  Goal
    BY <2>1, <2>7 DEF Enqueue, ScheduleOnce
  <2>8. ASSUME NEW m, RecoverExpired(m) \/ RecoverOrphans(m) \/ AbandonOrphans(m) \/ ProbeOrphans
        PROVE  Goal
    BY <2>2, <2>6, <2>8 DEF RecoverExpired, RecoverOrphans, AbandonOrphans, ProbeOrphans
  <2>9. ASSUME NEW p, NEW j, NEW f, NEW m,
               \/ Heartbeat(p, j, f, m)
               \/ \E k \in Effects : ClaimEffect(p, j, f, k, m)
               \/ \E to \in {"completed", "failed"} : FinishTerminal(p, j, f, to, m)
               \/ FinishRecovery(p, j, f, m)
               \/ Quarantine(p, j, f, m)
        PROVE  Goal
    BY <2>4, <2>6, <2>9 DEF Heartbeat, ClaimEffect, FinishTerminal, FinishRecovery, Quarantine
  <2>10. ASSUME \/ \E k \in Effects, s \in Statuses : RecordReceipt(k, s)
                \/ \E k \in Effects, o \in {"completed", "failed"} : ResolveEffect(k, o)
                \/ \E C \in SUBSET Bound : AuthorityChange(C)
         PROVE  Goal
    BY <2>6, <2>10 DEF RecordReceipt, ResolveEffect, AuthorityChange
  <2>11. Goal
    BY <1>3, <2>3, <2>5, <2>7, <2>8, <2>9, <2>10 DEF QueueStep, JobStep
  <2> QED
    BY <1>1, <2>11 DEF Goal
<1> QED
  BY <1>2, <1>3 DEF Next

-----------------------------------------------------------------------------
(* The calls *)

\* What a step does about the job of one call's claim, or about an unclaimed
\* job, leaves the place of every other call true.
LEMMA OtherPlaces ==
  ASSUME CallInv, NEW p \in Workers, NEW q \in Workers \ {p},
         pc'[q] = pc[q], handle'[q] = handle[q],
         \A i \in Jobs : claim[i] # None /\ claim[i] # handle[p] =>
           /\ claim'[i] = claim[i] /\ receipt'[i] = receipt[i]
           /\ executed'[i] = executed[i] /\ checkpoint'[i] = checkpoint[i]
  PROVE  PlaceIsTrue(q)'
<1>0. PlaceIsTrue(q)
  BY DEF CallInv, PlacesAreTrue
<1>1. CASE pc[q] \in Claimed
  <2> DEFINE i == handle[q].job
  <2>1. handle[q] # None /\ i \in Jobs /\ handle[q].fence \in 1..fence[i]
    BY <1>1, LeasedHandle DEF Leased
  <2>2. claim[i] = handle[q]
    BY <1>0, <1>1 DEF PlaceIsTrue
  <2>3. handle[q] # handle[p]
    BY <2>1 DEF CallInv, HandlesAreUnique
  <2>4. /\ claim'[i] = claim[i] /\ receipt'[i] = receipt[i]
        /\ executed'[i] = executed[i] /\ checkpoint'[i] = checkpoint[i]
    BY <2>1, <2>2, <2>3
  <2> QED
    BY <1>0, <2>4 DEF PlaceIsTrue
<1>2. CASE pc[q] \notin Claimed
  BY <1>2 DEF PlaceIsTrue, Claimed, Guarded
<1> QED
  BY <1>1, <1>2

\* Steps that touch no call and neither a claim, a receipt nor a token.
LEMMA CallFrame ==
  ASSUME CallInv, UNCHANGED <<callVars, claim, receipt, fence>>
  PROVE  CallInv'
BY DEF callVars, CallInv, CanonicalTypeOK, KeyIsJob, HandlesAreUnique, PlacesAreTrue, PlaceIsTrue,
       HistoryIsTrue

\* Every step of a call keeps the invariant of the calls.
LEMMA CallStepKeepsCalls ==
  ASSUME TypeOK, CallInv, NEW p \in Workers, CallStep(p)
  PROVE  CallInv'
<1> USE DEF jobVars, leaseVars, effectVars
<1> DEFINE j == handle[p].job
<1>0. /\ CanonicalTypeOK /\ KeyIsJob /\ HandlesAreUnique /\ PlaceIsTrue(p) /\ HistoryIsTrue
      /\ fence \in [Jobs -> Nat] /\ claim \in [Jobs -> Holder \cup {None}]
      /\ receipt \in [Jobs -> Statuses \cup {"none"}]
  BY CanonicalAssumption DEF CallInv, PlacesAreTrue, TypeOK
\* A step that moves p to another place with the same handle.
<1>1. ASSUME NEW place \in Places, pc' = [pc EXCEPT ![p] = place], handle' = handle, fence' = fence,
             keeper' \in [Workers -> BOOLEAN],
             \A q \in Workers \ {p} : keeper'[q] = keeper[q],
             place \in Leased \/ keeper'[p] => pc[p] \in Leased \/ keeper[p],
             place # "idle" => pc[p] # "idle",
             \A i \in Jobs \ {j} : /\ claim'[i] = claim[i] /\ receipt'[i] = receipt[i]
                                   /\ executed'[i] = executed[i] /\ checkpoint'[i] = checkpoint[i],
             \/ claim[j] \in {None, handle[p]}
             \/ /\ claim'[j] = claim[j] /\ receipt'[j] = receipt[j]
                /\ executed'[j] = executed[j] /\ checkpoint'[j] = checkpoint[j],
             PlaceIsTrue(p)'
      PROVE  HandlesAreUnique' /\ PlacesAreTrue'
  <2>1. HandlesAreUnique'
    <3>1. \A q \in Workers : pc'[q] # "idle" => handle[q] # None
      BY <1>0, <1>1 DEF HandlesAreUnique, CanonicalTypeOK
    <3>2. \A q \in Workers : pc'[q] \in Leased \/ keeper'[q] => handle[q] # None /\ handle[q].fence > 0
      BY <1>0, <1>1 DEF HandlesAreUnique, CanonicalTypeOK
    <3> QED
      BY <1>0, <1>1, <3>1, <3>2 DEF HandlesAreUnique
  <2>2. ASSUME NEW q \in Workers \ {p}
        PROVE  PlaceIsTrue(q)'
    <3>1. pc'[q] = pc[q] /\ handle'[q] = handle[q]
      BY <1>0, <1>1 DEF CanonicalTypeOK
    <3>2. \A i \in Jobs : claim[i] # None /\ claim[i] # handle[p] =>
            /\ claim'[i] = claim[i] /\ receipt'[i] = receipt[i]
            /\ executed'[i] = executed[i] /\ checkpoint'[i] = checkpoint[i]
      BY <1>1
    <3> QED
      BY <3>1, <3>2, OtherPlaces
  <2> QED
    BY <1>1, <2>1, <2>2 DEF PlacesAreTrue
\* A step that moves p and leaves claims, receipts and history alone.
<1>2. ASSUME NEW place \in Places, pc' = [pc EXCEPT ![p] = place],
             UNCHANGED <<handle, claim, receipt, fence, executed, checkpoint>>,
             keeper' \in [Workers -> BOOLEAN], interrupted' \in [Workers -> BOOLEAN],
             answered' \subseteq Jobs,
             \A q \in Workers \ {p} : keeper'[q] = keeper[q],
             place \in Leased \/ keeper'[p] => pc[p] \in Leased \/ keeper[p],
             place # "idle" => pc[p] # "idle",
             PlaceIsTrue(p)'
      PROVE  CallInv'
  <2>1. HandlesAreUnique' /\ PlacesAreTrue'
    BY <1>1, <1>2
  <2>2. CanonicalTypeOK'
    BY <1>0, <1>2 DEF CanonicalTypeOK
  <2>3. KeyIsJob' /\ HistoryIsTrue'
    BY <1>0, <1>2 DEF KeyIsJob, HistoryIsTrue
  <2> QED
    BY <2>1, <2>2, <2>3 DEF CallInv
<1>a. /\ keeper \in [Workers -> BOOLEAN] /\ interrupted \in [Workers -> BOOLEAN]
      /\ pc \in [Workers -> Places] /\ handle \in [Workers -> Holder \cup {None}]
      /\ executed \in [Jobs -> Nat] /\ checkpoint \in [Jobs -> Nat] /\ answered \subseteq Jobs
  BY <1>0 DEF CanonicalTypeOK
<1>3. ASSUME pc[p] # "idle"
      PROVE  handle[p] # None /\ handle[p] \in Holder /\ j \in Jobs
  BY <1>0, <1>3, HandleType DEF HandlesAreUnique
<1>4. ASSUME pc[p] \in Leased
      PROVE  handle[p] # None /\ j \in Jobs /\ handle[p] = [job |-> j, fence |-> handle[p].fence]
  BY <1>4, LeasedHandle
<1> HIDE DEF j
\* The steps that only move p on, or nowhere.
<1>5. ASSUME \/ \E i \in Jobs : Replay(p, i)
             \/ \E m \in Moments : KeeperRenews(p, m)
             \/ Interrupt(p)
      PROVE  CallInv'
  <2>1. /\ UNCHANGED <<pc, handle, claim, receipt, fence, executed, checkpoint>>
        /\ pc' = [pc EXCEPT ![p] = pc[p]] /\ pc[p] \in Places
    BY <1>a, <1>5 DEF Replay, KeeperRenews, Interrupt, Heartbeat, vars, storeVars
  <2>2. /\ keeper' \in [Workers -> BOOLEAN] /\ interrupted' \in [Workers -> BOOLEAN]
        /\ answered' \subseteq Jobs /\ \A q \in Workers \ {p} : keeper'[q] = keeper[q]
        /\ keeper'[p] => keeper[p]
    BY <1>a, <1>5 DEF Replay, KeeperRenews, Interrupt
  <2>3. PlaceIsTrue(p)'
    BY <1>0, <2>1 DEF PlaceIsTrue
  <2> QED
    BY <1>2, <2>1, <2>2, <2>3
<1>6. ASSUME (\E q \in Requests : EnqueueNew(p, q)) \/ EnqueueExisting(p)
      PROVE  CallInv'
  <2>1. /\ pc' = [pc EXCEPT ![p] = "enqueued"] /\ "enqueued" \in Places /\ "enqueued" \notin Leased
        /\ UNCHANGED <<handle, keeper, interrupted, answered, claim, receipt, fence, executed, checkpoint>>
        /\ pc[p] # "idle"
    BY <1>6 DEF EnqueueNew, EnqueueExisting, Goto, At, Enqueue, InsertJob, vars, storeVars,
                Places, Leased, Claimed, Guarded
  <2>2. PlaceIsTrue(p)'
    BY <1>a, <2>1 DEF PlaceIsTrue, Claimed, Guarded
  <2> QED
    BY <1>2, <1>a, <2>1, <2>2
<1>7. ASSUME Return(p)
      PROVE  CallInv'
  <2>1. /\ pc[p] = "executing" /\ pc' = [pc EXCEPT ![p] = "executed"] /\ "executed" \in Places
        /\ UNCHANGED <<handle, keeper, interrupted, answered, claim, receipt, fence, executed, checkpoint>>
    BY <1>7 DEF Return, Goto, At, vars, storeVars, Places
  <2>2. PlaceIsTrue(p)' /\ "executing" \in Leased
    BY <1>0, <1>a, <2>1 DEF PlaceIsTrue, Leased, Claimed, Guarded
  <2> QED
    BY <1>2, <1>a, <2>1, <2>2
<1>8. ASSUME NEW m \in Moments, Confirm(p, m)
      PROVE  CallInv'
  <2>1. /\ pc[p] = "executed" /\ pc' = [pc EXCEPT ![p] = "confirmed"] /\ "confirmed" \in Places
        /\ UNCHANGED <<handle, keeper, interrupted, answered, claim, receipt, fence, executed, checkpoint>>
    BY <1>8 DEF Confirm, Goto, At, Heartbeat, Places
  <2>2. PlaceIsTrue(p)' /\ "executed" \in Leased
    BY <1>0, <1>a, <2>1 DEF PlaceIsTrue, Leased, Claimed, Guarded
  <2> QED
    BY <1>2, <1>a, <2>1, <2>2
<1>9. ASSUME NEW m \in Moments, Seal(p, m)
      PROVE  CallInv'
  <2>1. /\ pc[p] = "checkpointed" /\ pc' = [pc EXCEPT ![p] = "sealed"] /\ "sealed" \in Places
        /\ keeper' = [keeper EXCEPT ![p] = FALSE]
        /\ UNCHANGED <<handle, interrupted, answered, claim, receipt, fence, executed, checkpoint>>
    BY <1>9 DEF Seal, Goto, At, Heartbeat, Places
  <2>2. PlaceIsTrue(p)' /\ "checkpointed" \in Leased
    BY <1>0, <1>a, <2>1 DEF PlaceIsTrue, Leased, Claimed, Guarded
  <2>3. keeper' \in [Workers -> BOOLEAN] /\ \A q \in Workers \ {p} : keeper'[q] = keeper[q]
    BY <1>a, <2>1
  <2> QED
    BY <1>2, <1>a, <2>1, <2>2, <2>3
<1>10. ASSUME NEW m \in Moments, Finish(p, m)
       PROVE  CallInv'
  <2>1. /\ pc[p] = "receipted" /\ pc' = [pc EXCEPT ![p] = "finished"] /\ "finished" \in Places
        /\ UNCHANGED <<handle, keeper, interrupted, answered, claim, receipt, fence, executed, checkpoint>>
    BY <1>10 DEF Finish, Goto, At, FinishTerminal, EndLease, Places
  <2>2. PlaceIsTrue(p)' /\ "receipted" \in Leased
    BY <1>0, <1>a, <2>1 DEF PlaceIsTrue, Leased, Claimed, Guarded
  <2> QED
    BY <1>2, <1>a, <2>1, <2>2
<1>11. ASSUME ReadBack(p) \/ RaiseEarly(p) \/ HandleRaise(p)
       PROVE  CallInv'
  <2>1. /\ pc[p] # "idle" /\ pc' = [pc EXCEPT ![p] = "idle"] /\ "idle" \in Places /\ "idle" \notin Leased
        /\ UNCHANGED <<handle, keeper, interrupted, claim, receipt, fence, executed, checkpoint>>
        /\ answered' \subseteq answered \cup {j}
    BY <1>11 DEF ReadBack, RaiseEarly, HandleRaise, Goto, At, vars, storeVars, Places, Leased, Claimed,
                 Guarded, j
  <2>2. PlaceIsTrue(p)'
    BY <1>a, <2>1 DEF PlaceIsTrue, Claimed, Guarded
  <2>3. answered' \subseteq Jobs
    BY <1>3, <1>a, <2>1
  <2> QED
    BY <1>2, <1>a, <2>1, <2>2, <2>3
<1>12. ASSUME RaiseGuarded(p)
       PROVE  CallInv'
  <2>1. /\ pc[p] \in Guarded /\ pc' = [pc EXCEPT ![p] = "caught"] /\ "caught" \in Places
        /\ UNCHANGED <<handle, keeper, interrupted, answered, claim, receipt, fence, executed, checkpoint>>
    BY <1>12 DEF RaiseGuarded, Goto, vars, storeVars, Places
  <2>2. PlaceIsTrue(p)' /\ pc[p] \in Leased /\ pc[p] # "idle"
    BY <1>0, <1>a, <2>1 DEF PlaceIsTrue, Leased, Claimed, Guarded
  <2> QED
    BY <1>2, <1>a, <2>1, <2>2
<1>13. ASSUME NEW m \in Moments, HandleFinish(p, m)
       PROVE  CallInv'
  <2>1. /\ pc[p] = "ambiguous" /\ pc' = [pc EXCEPT ![p] = "idle"] /\ "idle" \in Places
        /\ "idle" \notin Leased /\ keeper' = [keeper EXCEPT ![p] = FALSE]
        /\ UNCHANGED <<handle, interrupted, answered, claim, receipt, fence, executed, checkpoint>>
    BY <1>13 DEF HandleFinish, Goto, At, FinishRecovery, EndLease, Places, Leased, Claimed, Guarded
  <2>2. PlaceIsTrue(p)'
    BY <1>a, <2>1 DEF PlaceIsTrue, Claimed, Guarded
  <2>3. keeper' \in [Workers -> BOOLEAN] /\ \A q \in Workers \ {p} : keeper'[q] = keeper[q]
        /\ ~keeper'[p]
    BY <1>a, <2>1
  <2> QED
    BY <1>2, <1>a, <2>1, <2>2, <2>3
\* The steps that change what is known of the job.
<1>14. ASSUME NEW m \in Moments, ClaimTheEffect(p, m)
       PROVE  CallInv'
  <2>0. pc[p] = "leased" /\ "leased" \in Leased /\ "leased" # "idle"
    BY <1>14 DEF ClaimTheEffect, At, Leased
  <2>1. handle[p] # None /\ j \in Jobs /\ handle[p] = [job |-> j, fence |-> handle[p].fence]
        /\ handle[p].job = j
    BY <1>4, <2>0 DEF j
  <2>2. /\ pc' = [pc EXCEPT ![p] = "claimed"] /\ "claimed" \in Places
        /\ claim[j] = None /\ claim' = [claim EXCEPT ![j] = handle[p]]
        /\ UNCHANGED <<handle, keeper, interrupted, answered, receipt, fence, executed, checkpoint>>
    BY <1>14, <2>1 DEF ClaimTheEffect, Goto, ClaimEffect, Places, j
  <2>3. executed[j] = 0 /\ receipt[j] = "none" /\ checkpoint[j] = 0
    BY <1>0, <1>a, <2>1, <2>2 DEF HistoryIsTrue
  <2>4. claim'[j] = handle[p] /\ \A i \in Jobs \ {j} : claim'[i] = claim[i]
    BY <1>0, <1>a, <2>1, <2>2, <2>3
  <2>5. PlaceIsTrue(p)'
    BY <1>a, <2>1, <2>2, <2>3, <2>4 DEF PlaceIsTrue, Claimed, Guarded
  <2>7. HandlesAreUnique' /\ PlacesAreTrue'
    BY <1>1, <1>a, <2>0, <2>2, <2>4, <2>5
  <2>8. CanonicalTypeOK'
    BY <1>a, <2>2, <2>1 DEF CanonicalTypeOK
  <2>9. KeyIsJob'
    BY <1>0, <2>1, <2>4, CanonicalAssumption DEF KeyIsJob
  <2>10. HistoryIsTrue'
    BY <1>0, <2>1, <2>2, <2>3, <2>4 DEF HistoryIsTrue
  <2> QED
    BY <2>7, <2>8, <2>9, <2>10 DEF CallInv
<1>22. ASSUME Execute(p)
       PROVE  CallInv'
  <2>0. pc[p] = "claimed" /\ "claimed" \in Leased /\ "claimed" # "idle"
    BY <1>22 DEF Execute, At, Leased, Claimed
  <2>1. handle[p] # None /\ j \in Jobs /\ handle[p].job = j
    BY <1>4, <2>0 DEF j
  <2>2. /\ pc' = [pc EXCEPT ![p] = "executing"] /\ "executing" \in Places
        /\ keeper' = [keeper EXCEPT ![p] = TRUE]
        /\ executed' = [executed EXCEPT ![j] = executed[j] + 1]
        /\ UNCHANGED <<handle, interrupted, answered, claim, receipt, fence, checkpoint>>
    BY <1>22 DEF Execute, Goto, vars, storeVars, Places, j
  <2>3. claim[j] = handle[p] /\ executed[j] = 0 /\ checkpoint[j] = 0 /\ receipt[j] = "none"
    BY <1>0, <2>0, <2>1 DEF PlaceIsTrue, Claimed
  <2>4. executed'[j] = 1 /\ \A i \in Jobs \ {j} : executed'[i] = executed[i]
    BY <1>a, <2>1, <2>2, <2>3
  <2>5. PlaceIsTrue(p)'
    BY <1>a, <2>1, <2>2, <2>3, <2>4 DEF PlaceIsTrue, Claimed, Guarded
  <2>6. keeper' \in [Workers -> BOOLEAN] /\ \A q \in Workers \ {p} : keeper'[q] = keeper[q]
    BY <1>a, <2>2
  <2>7. HandlesAreUnique' /\ PlacesAreTrue'
    BY <1>1, <1>a, <2>0, <2>2, <2>3, <2>4, <2>5, <2>6
  <2>8. CanonicalTypeOK' /\ KeyIsJob'
    BY <1>0, <1>a, <2>2, <2>1 DEF CanonicalTypeOK, KeyIsJob
  <2>9. HistoryIsTrue'
    BY <1>0, <2>1, <2>2, <2>3, <2>4 DEF HistoryIsTrue
  <2> QED
    BY <2>7, <2>8, <2>9 DEF CallInv
<1>15. ASSUME WriteCheckpoint(p)
       PROVE  CallInv'
  <2>0. pc[p] = "confirmed" /\ "confirmed" \in Leased /\ "confirmed" # "idle"
    BY <1>15 DEF WriteCheckpoint, At, Leased, Claimed, Guarded
  <2>1. handle[p] # None /\ j \in Jobs /\ handle[p].job = j
    BY <1>4, <2>0 DEF j
  <2>2. /\ pc' = [pc EXCEPT ![p] = "checkpointed"] /\ "checkpointed" \in Places
        /\ checkpoint' = [checkpoint EXCEPT ![j] = checkpoint[j] + 1]
        /\ UNCHANGED <<handle, keeper, interrupted, answered, claim, receipt, fence, executed>>
    BY <1>15 DEF WriteCheckpoint, Goto, vars, storeVars, Places, j
  <2>3. claim[j] = handle[p] /\ executed[j] = 1 /\ checkpoint[j] = 0 /\ receipt[j] = "none"
    BY <1>0, <2>0, <2>1 DEF PlaceIsTrue, Claimed, Guarded
  <2>4. checkpoint'[j] = 1 /\ \A i \in Jobs \ {j} : checkpoint'[i] = checkpoint[i]
    BY <1>a, <2>1, <2>2, <2>3
  <2>5. PlaceIsTrue(p)'
    BY <1>a, <2>1, <2>2, <2>3, <2>4 DEF PlaceIsTrue, Claimed, Guarded
  <2>7. HandlesAreUnique' /\ PlacesAreTrue'
    BY <1>1, <1>a, <2>0, <2>2, <2>3, <2>4, <2>5
  <2>8. CanonicalTypeOK' /\ KeyIsJob'
    BY <1>0, <1>a, <2>2, <2>1 DEF CanonicalTypeOK, KeyIsJob
  <2>9. HistoryIsTrue'
    BY <1>0, <2>1, <2>2, <2>3, <2>4 DEF HistoryIsTrue
  <2> QED
    BY <2>7, <2>8, <2>9 DEF CallInv
<1>16. ASSUME Receipt(p)
       PROVE  CallInv'
  <2>0. pc[p] = "sealed" /\ "sealed" \in Leased /\ "sealed" # "idle"
    BY <1>16 DEF Receipt, At, Leased, Claimed, Guarded
  <2>1. handle[p] # None /\ j \in Jobs /\ handle[p].job = j
    BY <1>4, <2>0 DEF j
  <2>2. /\ pc' = [pc EXCEPT ![p] = "receipted"] /\ "receipted" \in Places
        /\ receipt' = [receipt EXCEPT ![j] = "completed"]
        /\ UNCHANGED <<handle, keeper, interrupted, answered, claim, checkpoint, fence, executed>>
    BY <1>16 DEF Receipt, Goto, RecordReceipt, Places, j
  <2>3. claim[j] = handle[p] /\ executed[j] = 1 /\ checkpoint[j] = 1
    BY <1>0, <2>0, <2>1 DEF PlaceIsTrue, Claimed, Guarded
  <2>4. receipt'[j] = "completed" /\ \A i \in Jobs \ {j} : receipt'[i] = receipt[i]
    BY <1>0, <2>1, <2>2
  <2>5. PlaceIsTrue(p)'
    BY <1>a, <2>1, <2>2, <2>3, <2>4 DEF PlaceIsTrue, Claimed, Guarded
  <2>7. HandlesAreUnique' /\ PlacesAreTrue'
    BY <1>1, <1>a, <2>0, <2>2, <2>3, <2>4, <2>5
  <2>8. CanonicalTypeOK' /\ KeyIsJob'
    BY <1>0, <1>a, <2>2, <2>1 DEF CanonicalTypeOK, KeyIsJob
  <2>9. HistoryIsTrue'
    BY <1>0, <2>1, <2>2, <2>3, <2>4 DEF HistoryIsTrue
  <2> QED
    BY <2>7, <2>8, <2>9 DEF CallInv
<1>17. ASSUME Handle(p)
       PROVE  CallInv'
  <2>0. pc[p] = "caught" /\ "caught" \in Leased /\ "caught" # "idle"
    BY <1>17 DEF Handle, At, Leased, Claimed, Guarded
  <2>1. handle[p] # None /\ j \in Jobs /\ handle[p].job = j
    BY <1>4, <2>0 DEF j
  <2>2. /\ pc' = [pc EXCEPT ![p] = "ambiguous"] /\ "ambiguous" \in Places
        /\ receipt' = [receipt EXCEPT ![j] = "unknown"]
        /\ UNCHANGED <<handle, keeper, interrupted, answered, claim, checkpoint, fence, executed>>
    BY <1>17 DEF Handle, Goto, RecordReceipt, Places, j
  <2>3. claim[j] = handle[p] /\ executed[j] = 1
    BY <1>0, <2>0, <2>1 DEF PlaceIsTrue, Claimed, Guarded
  <2>4. receipt'[j] = "unknown" /\ \A i \in Jobs \ {j} : receipt'[i] = receipt[i]
    BY <1>0, <2>1, <2>2
  <2>5. PlaceIsTrue(p)'
    BY <1>a, <2>1, <2>2, <2>3, <2>4 DEF PlaceIsTrue, Claimed, Guarded
  <2>7. HandlesAreUnique' /\ PlacesAreTrue'
    BY <1>1, <1>a, <2>0, <2>2, <2>3, <2>4, <2>5
  <2>8. CanonicalTypeOK' /\ KeyIsJob'
    BY <1>0, <1>a, <2>2, <2>1 DEF CanonicalTypeOK, KeyIsJob
  <2>9. HistoryIsTrue'
    BY <1>0, <2>1, <2>2, <2>3, <2>4 DEF HistoryIsTrue
  <2> QED
    BY <2>7, <2>8, <2>9 DEF CallInv
\* The steps that give the call a new handle.
<1>18. ASSUME NEW h \in Holder, NEW place \in {"dispatched", "leased"},
              h.fence \in 0..fence'[h.job], h.fence > 0 \/ place = "dispatched",
              \A q \in Workers \ {p} : handle[q] # None =>
                /\ handle[q].fence \in 0..fence'[handle[q].job]
                /\ handle[q] # h \/ h.fence = 0,
              pc' = [pc EXCEPT ![p] = place], handle' = [handle EXCEPT ![p] = h],
              keeper' \in [Workers -> BOOLEAN], interrupted' \in [Workers -> BOOLEAN],
              \A q \in Workers \ {p} : keeper'[q] = keeper[q],
              keeper'[p] => h.fence > 0,
              UNCHANGED <<executed, checkpoint, answered, claim, receipt>>
       PROVE  CallInv'
  <2>1. h # None
    BY SentinelAssumption
  <2>2. handle'[p] = h /\ pc'[p] = place
        /\ \A q \in Workers \ {p} : handle'[q] = handle[q] /\ pc'[q] = pc[q]
    BY <1>a, <1>18
  <2>3. CanonicalTypeOK'
    BY <1>a, <1>18 DEF CanonicalTypeOK, Places
  <2>4. KeyIsJob' /\ HistoryIsTrue'
    BY <1>0, <1>18 DEF KeyIsJob, HistoryIsTrue
  <2>5. HandlesAreUnique'
    <3>1. \A q \in Workers : handle'[q] # None => handle'[q].fence \in 0..fence'[handle'[q].job]
      BY <1>18, <2>2
    <3>2. \A q, v \in Workers :
            handle'[q] # None /\ handle'[q].fence > 0 /\ handle'[q] = handle'[v] => q = v
      BY <1>0, <1>18, <2>1, <2>2 DEF HandlesAreUnique
    <3>3. \A q \in Workers : pc'[q] # "idle" => handle'[q] # None
      BY <1>0, <2>1, <2>2 DEF HandlesAreUnique
    <3>4. \A q \in Workers : pc'[q] \in Leased \/ keeper'[q] => handle'[q] # None /\ handle'[q].fence > 0
      BY <1>0, <1>18, <2>1, <2>2 DEF HandlesAreUnique, Leased, Claimed, Guarded
    <3> QED
      BY <3>1, <3>2, <3>3, <3>4 DEF HandlesAreUnique
  <2>6. PlaceIsTrue(p)'
    BY <2>2 DEF PlaceIsTrue, Claimed, Guarded
  <2>7. ASSUME NEW q \in Workers \ {p}
        PROVE  PlaceIsTrue(q)'
    BY <1>18, <2>2, OtherPlaces
  <2> QED
    BY <2>3, <2>4, <2>5, <2>6, <2>7 DEF CallInv, PlacesAreTrue
<1>b. \A q \in Workers : handle[q] # None =>
        /\ handle[q].job \in Jobs /\ handle[q].fence \in Nat
        /\ handle[q].fence \in 0..fence[handle[q].job]
  BY HandleType
<1>19. ASSUME NEW i \in Jobs, Dispatch(p, i)
       PROVE  CallInv'
  <2> DEFINE h == [job |-> i, fence |-> 0]
  <2>1. h \in Holder /\ h.job = i /\ h.fence = 0
    BY DEF Holder
  <2>2. /\ pc' = [pc EXCEPT ![p] = "dispatched"] /\ handle' = [handle EXCEPT ![p] = h]
        /\ keeper' = [keeper EXCEPT ![p] = FALSE] /\ interrupted' = [interrupted EXCEPT ![p] = FALSE]
        /\ UNCHANGED <<executed, checkpoint, answered, claim, receipt, fence>>
    BY <1>19 DEF Dispatch, Goto, vars, storeVars
  <2> HIDE DEF h
  <2>3. h.fence \in 0..fence'[h.job]
    BY <1>0, <2>1, <2>2
  <2>4. /\ keeper' \in [Workers -> BOOLEAN] /\ interrupted' \in [Workers -> BOOLEAN]
        /\ ~keeper'[p] /\ \A q \in Workers \ {p} : keeper'[q] = keeper[q]
    BY <1>a, <2>2
  <2> QED
    BY <1>18, <1>b, <2>1, <2>2, <2>3, <2>4
<1>20. ASSUME NEW m \in Moments, TakeLease(p, m)
       PROVE  CallInv'
  <2> DEFINE h == [job |-> j, fence |-> fence[j] + 1]
  <2>0. pc[p] = "enqueued"
    BY <1>20 DEF TakeLease, At
  <2>1. handle[p] \in Holder /\ j \in Jobs /\ handle[p].job = j
    BY <1>3, <2>0 DEF j
  <2>2. h \in Holder /\ h.job = j /\ h.fence = fence[j] + 1
    BY <1>0, <2>1 DEF Holder
  <2>3. [handle[p] EXCEPT !.fence = fence[j] + 1] = h
    BY <2>1 DEF Holder
  <2>4. /\ pc' = [pc EXCEPT ![p] = "leased"] /\ handle' = [handle EXCEPT ![p] = h]
        /\ fence' = [fence EXCEPT ![j] = fence[j] + 1]
        /\ UNCHANGED <<keeper, interrupted, executed, checkpoint, answered, claim, receipt>>
    BY <1>20, <2>3 DEF TakeLease, Goto, ClaimNext, j
  <2> HIDE DEF h
  <2>5. h.fence \in 0..fence'[h.job] /\ h.fence > 0
    BY <1>0, <2>1, <2>2, <2>4
  <2>6. ASSUME NEW q \in Workers \ {p}, handle[q] # None
        PROVE  handle[q].fence \in 0..fence'[handle[q].job] /\ handle[q] # h
    <3>1. /\ handle[q].job \in Jobs /\ handle[q].fence \in Nat
          /\ handle[q].fence \in 0..fence[handle[q].job]
      BY <1>b, <2>6
    <3> QED
      BY <1>0, <2>1, <2>2, <2>4, <3>1
  <2> QED
    BY <1>18, <1>a, <2>2, <2>4, <2>5, <2>6
<1> QED
  BY <1>5, <1>6, <1>7, <1>8, <1>9, <1>10, <1>11, <1>12, <1>13, <1>14, <1>15, <1>16, <1>17, <1>19, <1>22,
     <1>20 DEF CallStep

\* The recoveries and the environment touch no call, no claim, no receipt and no
\* token.
LEMMA OthersLeaveCalls ==
  ASSUME Recovery \/ Environment
  PROVE  UNCHANGED <<callVars, claim, receipt, fence>>
<1> USE DEF jobVars, leaseVars, effectVars
<1>1. ASSUME NEW m, NEW O, Sweep(m, O)
      PROVE  UNCHANGED <<claim, receipt, fence>>
  BY <1>1 DEF Sweep
<1>2. CASE Recovery
  BY <1>1, <1>2 DEF Recovery, ProbeOrphans, RecoverOrphans, AbandonOrphans, RecoverExpired,
     ResolveEffect, ReconcileRecovery
<1>3. CASE Environment
  BY <1>3 DEF Environment, AuthorityChange, storeVars
<1> QED
  BY <1>2, <1>3

-----------------------------------------------------------------------------
(* Ends and answers *)

\* The sweep ends a claimed job as failed only for a failed receipt, which no
\* call writes.
LEMMA SweptNotFailed ==
  ASSUME RecoveryInv, CallInv, NEW m, NEW O, NEW j \in Jobs, claim[j] # None,
         SweptState(m, O)[j] = "failed"
  PROVE  state[j] = "failed"
<1>0. StoreInv /\ KeyIsJob /\ receipt[j] # "failed"
  BY DEF RecoveryInv, CallInv, HistoryIsTrue
<1>1. ClaimsOf(j) = {j}
  BY <1>0, OwnClaim
<1>2. state[j] \notin {"absent", "ready"}
  BY <1>0, <1>1, ReadyHasNoClaims
<1>3. ~HasFailedReceipt(j)
  BY <1>0, <1>1 DEF HasFailedReceipt
<1>4. SweepState(j, m) # "failed"
  BY <1>1, <1>3 DEF SweepState
<1> QED
  BY <1>0, <1>1, <1>2, <1>4, SweptMove

\* Every step keeps "failed" a human verdict.
LEMMA CanonicalNextKeepsJudged ==
  ASSUME CanonicalInv, [CanonicalNext]_canonicalVars
  PROVE  FailedIsJudged'
<1> USE DEF jobVars, leaseVars, effectVars
<1>0. /\ RecoveryInv /\ CallInv /\ FailedIsJudged /\ StoreInv /\ TypeOK /\ KeyIsJob
      /\ \A j \in Jobs : receipt[j] # "failed"
  BY DEF CanonicalInv, RecoveryInv, StoreInv, CallInv, HistoryIsTrue
<1>a. /\ state \in [Jobs -> JobStates] /\ claim \in [Jobs -> Holder \cup {None}]
      /\ resolution \in [Jobs -> {"none", "completed", "failed"}]
  BY <1>0, CanonicalAssumption DEF TypeOK
<1>1. ASSUME UNCHANGED <<state, claim, resolution>>
      PROVE  FailedIsJudged'
  BY <1>0, <1>1 DEF FailedIsJudged
<1>2. ASSUME NEW m, NEW O, Sweep(m, O)
      PROVE  FailedIsJudged'
  BY <1>0, <1>2, SweptNotFailed DEF Sweep, FailedIsJudged
<1>3. ASSUME NEW p, NEW j \in Jobs, NEW R, NEW m, ClaimNext(p, j, R, m)
      PROVE  FailedIsJudged'
  <2>1. /\ state' = [SweptState(m, {}) EXCEPT ![j] = "running"]
        /\ UNCHANGED <<claim, resolution>>
    BY <1>3 DEF ClaimNext
  <2>2. SweptState(m, {}) \in [Jobs -> JobStates]
    BY <1>0, SweepType
  <2> QED
    BY <1>0, <2>1, <2>2, SweptNotFailed DEF FailedIsJudged
<1>4. ASSUME NEW p, NEW j \in Jobs, NEW f, NEW m, ClaimEffect(p, j, f, j, m)
      PROVE  FailedIsJudged'
  <2>1. state[j] = "running"
    BY <1>0, <1>4 DEF ClaimEffect, LiveLease, StoreInv, RunningIffLeased
  <2> QED
    BY <1>0, <1>a, <1>4, <2>1 DEF ClaimEffect, FailedIsJudged
<1>5. ASSUME NEW j \in Jobs, NEW to \in {"completed", "recovery-required"}, NEW t, EndLease(j, to, t)
      PROVE  FailedIsJudged'
  BY <1>0, <1>a, <1>5 DEF EndLease, FailedIsJudged
<1>6. ASSUME NEW j \in Jobs, NEW q, Enqueue(j, q)
      PROVE  FailedIsJudged'
  BY <1>0, <1>a, <1>6 DEF Enqueue, InsertJob, FailedIsJudged
<1>7. ASSUME NEW j \in Jobs, NEW o \in {"completed", "failed"}, ResolveEffect(j, o)
      PROVE  FailedIsJudged'
  BY <1>0, <1>a, <1>7 DEF ResolveEffect, FailedIsJudged
<1>8. ASSUME NEW j \in Jobs, ReconcileRecovery(j)
      PROVE  FailedIsJudged'
  <2> DEFINE failed == \E k \in ClaimsOf(j) : receipt[k] = "failed" \/ resolution[k] = "failed"
  <2>1. /\ state' = [state EXCEPT ![j] = IF failed THEN "failed" ELSE "completed"]
        /\ UNCHANGED <<claim, resolution>>
    BY <1>8 DEF ReconcileRecovery
  <2>2. failed => resolution[j] # "none"
    BY <1>0, OwnClaim
  <2> HIDE DEF failed
  <2> QED
    BY <1>0, <1>a, <2>1, <2>2 DEF FailedIsJudged
<1>9. ASSUME NEW p \in Workers, NEW m \in Moments,
             \/ ClaimTheEffect(p, m) \/ Confirm(p, m) \/ Seal(p, m) \/ TakeLease(p, m)
             \/ Finish(p, m) \/ HandleFinish(p, m) \/ KeeperRenews(p, m)
      PROVE  FailedIsJudged'
  <2>1. handle[p] # None
    <3>1. pc[p] # "idle" \/ keeper[p]
      BY <1>9 DEF ClaimTheEffect, Confirm, Seal, TakeLease, Finish, HandleFinish, KeeperRenews, At
    <3> QED
      BY <1>0, <3>1 DEF CallInv, HandlesAreUnique
  <2>2. handle[p].job \in Jobs
    BY <1>0, <2>1, HandleType
  <2>3. CASE ClaimTheEffect(p, m)
    BY <1>4, <2>2, <2>3 DEF ClaimTheEffect
  <2>4. CASE TakeLease(p, m)
    BY <1>3, <2>2, <2>4 DEF TakeLease
  <2>5. CASE Finish(p, m) \/ HandleFinish(p, m)
    BY <1>5, <2>2, <2>5 DEF Finish, HandleFinish, FinishTerminal, FinishRecovery
  <2>6. CASE Confirm(p, m) \/ Seal(p, m) \/ KeeperRenews(p, m)
    BY <1>1, <2>6 DEF Confirm, Seal, KeeperRenews, Heartbeat
  <2> QED
    BY <1>9, <2>3, <2>4, <2>5, <2>6
<1>10. ASSUME NEW p \in Workers, NEW q \in Requests, EnqueueNew(p, q)
       PROVE  FailedIsJudged'
  <2>1. handle[p].job \in Jobs
    BY <1>0, <1>10, HandleType DEF EnqueueNew, At, CallInv, HandlesAreUnique
  <2> QED
    BY <1>6, <1>10, <2>1 DEF EnqueueNew
<1>11. ASSUME NEW p \in Workers,
              \/ \E j \in Jobs : Dispatch(p, j) \/ Replay(p, j)
              \/ EnqueueExisting(p) \/ Execute(p) \/ Return(p) \/ WriteCheckpoint(p) \/ ReadBack(p)
              \/ RaiseEarly(p) \/ RaiseGuarded(p) \/ HandleRaise(p) \/ Interrupt(p)
       PROVE  FailedIsJudged'
  BY <1>1, <1>11 DEF Dispatch, Replay, EnqueueExisting, Execute, Return, WriteCheckpoint, ReadBack, RaiseEarly,
     RaiseGuarded, HandleRaise, Interrupt, vars, storeVars
<1>12. ASSUME NEW p \in Workers, Receipt(p) \/ Handle(p)
       PROVE  FailedIsJudged'
  BY <1>1, <1>12 DEF Receipt, Handle, RecordReceipt
<1>13. ASSUME Recovery
       PROVE  FailedIsJudged'
  BY <1>1, <1>2, <1>7, <1>8, <1>13, CanonicalAssumption DEF Recovery, ProbeOrphans, RecoverOrphans,
     AbandonOrphans, RecoverExpired
<1>14. ASSUME Environment \/ UNCHANGED canonicalVars
       PROVE  FailedIsJudged'
  BY <1>1, <1>14 DEF Environment, AuthorityChange, canonicalVars, vars, storeVars
<1> QED
  BY <1>9, <1>10, <1>11, <1>12, <1>13, <1>14 DEF CanonicalNext, CallStep

\* How a call moves: it takes no other call along, it writes "completed" only
\* when it is sealed, it answers only what can be replayed, and it enters and
\* leaves execute() as the code does.
LEMMA CallMoves ==
  ASSUME TypeOK, CallInv, NEW p \in Workers, CallStep(p)
  PROVE  /\ \A q \in Workers \ {p} : pc'[q] = pc[q] /\ handle'[q] = handle[q]
         /\ \A i \in Jobs : receipt'[i] = receipt[i] \/ receipt[i] = "none"
         /\ \A i \in Jobs : receipt'[i] = "completed" /\ receipt[i] # "completed" =>
              pc[p] = "sealed" /\ i = handle[p].job
         /\ \A i \in Jobs : claim[i] # None => claim'[i] = claim[i]
         /\ \A i \in answered' : i \in answered \/ Replayable(i)
         /\ pc'[p] = "claimed" =>
              /\ handle'[p] = handle[p]
              /\ pc[p] = "claimed" \/ (pc[p] = "leased" /\ claim[handle[p].job] = None)
         /\ pc'[p] = "executing" => handle'[p] = handle[p] /\ pc[p] \in {"claimed", "executing"}
         /\ pc'[p] \in Guarded \ {"executing"} =>
              /\ handle'[p] = handle[p]
              /\ pc[p] \in Guarded \ {"executing"} \/ (pc[p] = "executing" /\ pc'[p] = "executed")
<1> DEFINE Stay == \A q \in Workers \ {p} : pc'[q] = pc[q] /\ handle'[q] = handle[q]
           Rest == /\ \A i \in Jobs : receipt'[i] = receipt[i] \/ receipt[i] = "none"
                   /\ \A i \in Jobs : receipt'[i] = "completed" /\ receipt[i] # "completed" =>
                        pc[p] = "sealed" /\ i = handle[p].job
                   /\ \A i \in Jobs : claim[i] # None => claim'[i] = claim[i]
                   /\ \A i \in answered' : i \in answered \/ Replayable(i)
           Enter == /\ pc'[p] = "claimed" =>
                         /\ handle'[p] = handle[p]
                         /\ pc[p] = "claimed" \/ (pc[p] = "leased" /\ claim[handle[p].job] = None)
                    /\ pc'[p] = "executing" =>
                         handle'[p] = handle[p] /\ pc[p] \in {"claimed", "executing"}
           Leave == pc'[p] \in Guarded \ {"executing"} =>
                      /\ handle'[p] = handle[p]
                      /\ pc[p] \in Guarded \ {"executing"} \/ (pc[p] = "executing" /\ pc'[p] = "executed")
<1> USE DEF jobVars, leaseVars, effectVars
<1>0. /\ pc \in [Workers -> Places] /\ handle \in [Workers -> Holder \cup {None}]
      /\ receipt \in [Jobs -> Statuses \cup {"none"}] /\ claim \in [Jobs -> Holder \cup {None}]
  BY CanonicalAssumption DEF CallInv, CanonicalTypeOK, TypeOK
<1>1. ASSUME NEW i \in Jobs, Dispatch(p, i) \/ Replay(p, i)
      PROVE  Stay /\ Rest /\ Enter /\ Leave
  BY <1>0, <1>1 DEF Dispatch, Replay, Goto, At, vars, storeVars, Guarded
<1>2. ASSUME NEW m \in Moments, TakeLease(p, m) \/ (\E q \in Requests : EnqueueNew(p, q)) \/ EnqueueExisting(p)
      PROVE  Stay /\ Rest /\ Enter /\ Leave
  BY <1>0, <1>2 DEF TakeLease, EnqueueNew, EnqueueExisting, ClaimNext, Enqueue, InsertJob, Goto, At,
     vars, storeVars, Guarded
<1>3. ASSUME NEW m \in Moments, ClaimTheEffect(p, m)
      PROVE  Stay /\ Rest /\ Enter /\ Leave
  <2>1. /\ UNCHANGED <<handle, receipt, answered>> /\ pc' = [pc EXCEPT ![p] = "claimed"]
        /\ claim[handle[p].job] = None /\ pc[p] = "leased"
        /\ \A i \in Jobs : claim[i] # None => claim'[i] = claim[i]
    BY <1>0, <1>3 DEF ClaimTheEffect, ClaimEffect, Goto, At
  <2> QED
    BY <1>0, <2>1 DEF Guarded
<1>10. ASSUME Execute(p)
       PROVE  Stay /\ Rest /\ Enter /\ Leave
  <2>1. /\ UNCHANGED <<handle, claim, receipt, answered>> /\ pc' = [pc EXCEPT ![p] = "executing"]
        /\ pc[p] = "claimed"
    BY <1>10 DEF Execute, Goto, At, vars, storeVars
  <2> QED
    BY <1>0, <2>1
<1>4. ASSUME NEW m \in Moments,
             \/ Return(p) \/ WriteCheckpoint(p) \/ Confirm(p, m) \/ Seal(p, m) \/ Finish(p, m)
      PROVE  Stay /\ Rest /\ Enter /\ Leave
  <2>1. /\ UNCHANGED <<handle, claim, receipt, answered>>
        /\ \/ pc[p] = "executing" /\ pc' = [pc EXCEPT ![p] = "executed"]
           \/ pc[p] = "confirmed" /\ pc' = [pc EXCEPT ![p] = "checkpointed"]
           \/ pc[p] = "executed" /\ pc' = [pc EXCEPT ![p] = "confirmed"]
           \/ pc[p] = "checkpointed" /\ pc' = [pc EXCEPT ![p] = "sealed"]
           \/ pc[p] = "receipted" /\ pc' = [pc EXCEPT ![p] = "finished"]
    BY <1>4 DEF Return, WriteCheckpoint, Confirm, Seal, Finish, FinishTerminal, EndLease, Heartbeat,
       Goto, At, vars, storeVars
  <2> QED
    BY <1>0, <2>1 DEF Guarded
<1>5. ASSUME NEW m \in Moments,
             \/ ReadBack(p) \/ RaiseEarly(p) \/ RaiseGuarded(p) \/ HandleRaise(p) \/ HandleFinish(p, m)
      PROVE  Stay /\ Rest /\ Enter /\ Leave
  <2>1. /\ UNCHANGED <<handle, claim, receipt>>
        /\ \A i \in answered' : i \in answered \/ Replayable(i)
        /\ \E place \in {"idle", "caught"} : pc' = [pc EXCEPT ![p] = place]
    BY <1>5 DEF ReadBack, RaiseEarly, RaiseGuarded, HandleRaise, HandleFinish, FinishRecovery, EndLease,
       Goto, At, vars, storeVars
  <2> QED
    BY <1>0, <2>1 DEF Guarded
<1>6. ASSUME Receipt(p) \/ Handle(p)
      PROVE  Stay /\ Rest /\ Enter /\ Leave
  <2>1. /\ UNCHANGED <<handle, claim, answered>> /\ receipt[handle[p].job] = "none"
        /\ \/ /\ pc[p] = "sealed" /\ pc' = [pc EXCEPT ![p] = "receipted"]
              /\ receipt' = [receipt EXCEPT ![handle[p].job] = "completed"]
           \/ /\ pc[p] = "caught" /\ pc' = [pc EXCEPT ![p] = "ambiguous"]
              /\ receipt' = [receipt EXCEPT ![handle[p].job] = "unknown"]
    BY <1>6 DEF Receipt, Handle, RecordReceipt, Goto, At
  <2> QED
    BY <1>0, <2>1 DEF Guarded
<1>7. ASSUME NEW m \in Moments, KeeperRenews(p, m) \/ Interrupt(p)
      PROVE  Stay /\ Rest /\ Enter /\ Leave
  BY <1>7 DEF KeeperRenews, Interrupt, Heartbeat, vars, storeVars
<1>8. \E m : m \in Moments
  <2>1. now \in Nat /\ BusyWait \in Nat
    BY BoundsAssumption DEF TypeOK
  <2>2. now \in Moments
    BY <2>1 DEF Moments
  <2> QED
    BY <2>2
<1> HIDE DEF Stay, Rest, Enter, Leave
<1>9. Stay /\ Rest /\ Enter /\ Leave
  BY <1>1, <1>2, <1>3, <1>4, <1>5, <1>6, <1>7, <1>8, <1>10 DEF CallStep
<1> QED
  BY <1>9 DEF Stay, Rest, Enter, Leave

\* Every step keeps the answers proved.
LEMMA CanonicalNextKeepsAnswers ==
  ASSUME CanonicalInv, CallInv', [CanonicalNext]_canonicalVars
  PROVE  AnswerIsProved'
<1>0. /\ RecoveryInv /\ CallInv /\ AnswerIsProved /\ TypeOK
  BY DEF CanonicalInv, RecoveryInv, StoreInv
<1>1. /\ DOMAIN delivery \subseteq DOMAIN delivery'
      /\ \A j \in Jobs : state[j] = "completed" => state'[j] = "completed"
  BY <1>0, CanonicalStepIsNext, StoreRemembers
<1>2. /\ \A i \in Jobs : receipt'[i] = receipt[i] \/ receipt[i] = "none"
      /\ \A i \in answered' : i \in answered \/ Replayable(i)
  <2>1. CASE \E p \in Workers : CallStep(p)
    BY <1>0, <2>1, CallMoves
  <2>2. CASE Recovery \/ Environment
    BY <2>2, OthersLeaveCalls DEF callVars
  <2>3. CASE UNCHANGED canonicalVars
    BY <2>3 DEF canonicalVars, callVars, vars, storeVars, effectVars
  <2> QED
    BY <2>1, <2>2, <2>3 DEF CanonicalNext
<1>3. ASSUME NEW j \in answered'
      PROVE  /\ state'[j] = "completed" /\ TerminalIsReceipt(j)'
             /\ checkpoint'[j] = 1 /\ executed'[j] = 1
  <2>1. j \in Jobs
    BY <1>3 DEF CallInv, CanonicalTypeOK
  <2>2. state[j] = "completed" /\ TerminalIsReceipt(j)
    BY <1>0, <1>2, <1>3 DEF AnswerIsProved, Replayable
  <2>3. receipt'[j] = "completed"
    BY <1>2, <2>1, <2>2 DEF TerminalIsReceipt
  <2>4. TerminalIsReceipt(j)'
    BY <1>1, <2>2, <2>3 DEF TerminalIsReceipt
  <2>5. checkpoint'[j] = 1 /\ executed'[j] = 1
    BY <2>1, <2>3 DEF CallInv, HistoryIsTrue
  <2> QED
    BY <1>1, <2>1, <2>2, <2>4, <2>5
<1> QED
  BY <1>3 DEF AnswerIsProved

-----------------------------------------------------------------------------
(* run_canonical_job *)

\* The invariant holds of a fresh store.
LEMMA InitCanonical == CanonicalInit => CanonicalInv
<1> SUFFICES ASSUME CanonicalInit
             PROVE  CanonicalInv
  OBVIOUS
<1>1. RecoveryInv
  BY InitRecovery DEF CanonicalInit
<1>2. CanonicalTypeOK
  BY DEF CanonicalInit, CanonicalTypeOK, Places
<1>3. /\ \A p \in Workers : pc[p] = "idle" /\ handle[p] = None /\ ~keeper[p]
      /\ \A j \in Jobs : /\ executed[j] = 0 /\ checkpoint[j] = 0 /\ claim[j] = None
                         /\ receipt[j] = "none" /\ state[j] = "absent"
      /\ answered = {}
  BY CanonicalAssumption DEF CanonicalInit, Init
<1>4. KeyIsJob /\ HandlesAreUnique
  BY <1>3, CanonicalAssumption DEF KeyIsJob, HandlesAreUnique, Leased, Claimed, Guarded
<1>5. PlacesAreTrue /\ HistoryIsTrue
  BY <1>3 DEF PlacesAreTrue, PlaceIsTrue, Claimed, Guarded, HistoryIsTrue
<1>6. FailedIsJudged /\ AnswerIsProved
  BY <1>3 DEF FailedIsJudged, AnswerIsProved
<1> QED
  BY <1>1, <1>2, <1>4, <1>5, <1>6 DEF CanonicalInv, CallInv

\* Every step of the calls and their surroundings keeps the invariant.
LEMMA CanonicalNextKeeps ==
  ASSUME CanonicalInv, [CanonicalNext]_canonicalVars
  PROVE  CanonicalInv'
<1>1. TypeOK /\ CallInv /\ RecoveryInv
  BY DEF CanonicalInv, RecoveryInv, StoreInv
<1>2. RecoveryInv'
  BY <1>1, CanonicalStepIsNext, NextKeepsRecovery
<1>3. CallInv'
  <2>1. CASE Recovery \/ Environment \/ UNCHANGED canonicalVars
    <3>1. UNCHANGED <<callVars, claim, receipt, fence>>
      BY <2>1, OthersLeaveCalls DEF canonicalVars, vars, storeVars, jobVars, effectVars
    <3> QED
      BY <1>1, <3>1, CallFrame
  <2>2. CASE \E p \in Workers : CallStep(p)
    BY <1>1, <2>2, CallStepKeepsCalls
  <2> QED
    BY <2>1, <2>2 DEF CanonicalNext
<1> QED
  BY <1>2, <1>3, CanonicalNextKeepsJudged, CanonicalNextKeepsAnswers DEF CanonicalInv

\* The invariant holds in every reachable state of the calls.
LEMMA CanonicalConsistent == CanonicalSpec => []CanonicalInv
BY InitCanonical, CanonicalNextKeeps, PTL DEF CanonicalSpec

\* The invariant says what the callers of run_canonical_job rely on.
LEMMA CanonicalProves == CanonicalInv => EffectIsProven
<1> SUFFICES ASSUME CanonicalInv
             PROVE  EffectIsProven
  OBVIOUS
<1>1. CallInv /\ HistoryIsTrue /\ AnswerIsProved /\ CanonicalTypeOK
  BY DEF CanonicalInv, CallInv
<1>2. ExecutedAtMostOnce
  BY <1>1 DEF HistoryIsTrue, ExecutedAtMostOnce
<1>3. ReceiptHasProof
  <2>1. ASSUME NEW j \in Jobs, receipt[j] = "completed"
        PROVE  executed[j] = 1
    BY <1>1, <2>1 DEF HistoryIsTrue
  <2> QED
    BY <1>1, <2>1 DEF HistoryIsTrue, ReceiptHasProof
<1> QED
  BY <1>1, <1>2, <1>3 DEF EffectIsProven

\* execute() runs at most once per key behind its stored claim, a completed
\* receipt is proved by one checkpoint, and answers are read from such receipts,
\* for any number of callers, deaths, sweeps and human verdicts.
THEOREM EffectsAreProven == CanonicalSpec => []EffectIsProven
BY CanonicalConsistent, CanonicalProves, PTL

-----------------------------------------------------------------------------
(* The publication *)

\* A publication is a canonical job: what apply adds only forbids steps of it or
\* happens beside it.
LEMMA PublicationStepIsCanonical ==
  ASSUME [PublicationNext]_gitVars
  PROVE  [CanonicalNext]_canonicalVars
<1>1. ASSUME NEW j, RecordAuthorization(j) \/ RevokeAuthorization(j)
      PROVE  UNCHANGED canonicalVars
  BY <1>1 DEF RecordAuthorization, RevokeAuthorization
<1>2. ASSUME NEW p, Publish(p)
      PROVE  UNCHANGED canonicalVars
  BY <1>2 DEF Publish, Validate, ReadAuthorization, Consume, Revalidate, Push, ReadRemote
<1>3. ASSUME Commit \/ ForeignPush \/ UNCHANGED gitVars
      PROVE  UNCHANGED canonicalVars
  BY <1>3 DEF Commit, ForeignPush, gitVars
<1> QED
  BY <1>1, <1>2, <1>3 DEF PublicationNext, CanonicalStep, CanonicalNext

\* Steps beside the publication, that write no receipt of a success and take no
\* claim back.
LEMMA PublicationFrame ==
  ASSUME PublicationInv, UNCHANGED <<publicationVars, callVars, claim, receipt>>
  PROVE  PublicationTypeOK' /\ (\A p \in Workers : StepIsTrue(p)') /\ PushIsSpent'
<1> USE DEF publicationVars, callVars
<1>1. PublicationTypeOK'
  BY DEF PublicationInv, PublicationTypeOK, CanonicalTypeOK
<1>2. \A p \in Workers : StepIsTrue(p)'
  BY DEF PublicationInv, StepIsTrue
<1>3. PushIsSpent'
  BY DEF PublicationInv, PushIsSpent
<1> QED
  BY <1>1, <1>2, <1>3

\* The steps of run_canonical_job around execute().
LEMMA CanonicalStepKeepsPush ==
  ASSUME PublicationInv, CallInv', NEW p \in Workers, CanonicalStep(p)
  PROVE  PublicationTypeOK' /\ (\A q \in Workers : StepIsTrue(q)') /\ PushIsSpent'
<1> DEFINE j == handle[p].job
<1>0. /\ TypeOK /\ CallInv /\ PublicationTypeOK /\ PushIsSpent /\ \A q \in Workers : StepIsTrue(q)
      /\ step \in [Workers -> Steps]
  BY DEF PublicationInv, CanonicalInv, RecoveryInv, StoreInv, PublicationTypeOK
<1>1. /\ CallStep(p) /\ UNCHANGED <<issued, revoked, consumed, withdrawn, local, remote, pushed>>
      /\ step' = IF Moves(p, "claimed", "executing") THEN [step EXCEPT ![p] = "entered"] ELSE step
      /\ Moves(p, "executing", "executed") => step[p] = "read"
  BY DEF CanonicalStep
<1>2. /\ \A q \in Workers \ {p} : pc'[q] = pc[q] /\ handle'[q] = handle[q]
      /\ \A i \in Jobs : receipt'[i] = "completed" /\ receipt[i] # "completed" =>
           pc[p] = "sealed" /\ i = j
      /\ \A i \in Jobs : claim[i] # None => claim'[i] = claim[i]
      /\ pc'[p] = "claimed" =>
           /\ handle'[p] = handle[p]
           /\ pc[p] = "claimed" \/ (pc[p] = "leased" /\ claim[j] = None)
      /\ pc'[p] = "executing" => handle'[p] = handle[p] /\ pc[p] \in {"claimed", "executing"}
      /\ pc'[p] \in Guarded \ {"executing"} =>
           /\ handle'[p] = handle[p]
           /\ pc[p] \in Guarded \ {"executing"} \/ (pc[p] = "executing" /\ pc'[p] = "executed")
  BY <1>0, <1>1, CallMoves
<1>3. pc[p] \in Leased => j \in Jobs
  BY <1>0, LeasedHandle
<1> HIDE DEF j
<1>4. PublicationTypeOK'
  <2>1. step' \in [Workers -> Steps]
    BY <1>0, <1>1 DEF Steps
  <2> QED
    BY <1>0, <1>1, <2>1 DEF PublicationTypeOK, CallInv
<1>5. ASSUME NEW q \in Workers \ {p}
      PROVE  StepIsTrue(q)'
  <2>1. step'[q] = step[q]
    BY <1>0, <1>1
  <2> QED
    BY <1>0, <1>1, <1>2, <2>1 DEF StepIsTrue
<1>6. StepIsTrue(p)'
  <2>1. CASE pc'[p] = "executing" /\ pc[p] = "executing"
    <3>1. step'[p] = step[p] /\ handle'[p] = handle[p]
      BY <1>1, <1>2, <2>1 DEF Moves
    <3> QED
      BY <1>0, <1>1, <2>1, <3>1 DEF StepIsTrue
  <2>2. CASE pc'[p] = "executing" /\ pc[p] # "executing"
    <3>1. pc[p] = "claimed" /\ handle'[p] = handle[p]
      BY <1>2, <2>2
    <3>2. step'[p] = "entered" /\ pushed[j] = 0
      BY <1>0, <1>1, <2>2, <3>1 DEF Moves, StepIsTrue, j
    <3> QED
      BY <1>1, <2>2, <3>1, <3>2 DEF StepIsTrue, j
  <2>3. CASE pc'[p] \in Guarded \ {"executing"}
    <3>1. pushed[j] = 1 /\ handle'[p] = handle[p]
      BY <1>0, <1>1, <1>2, <2>3 DEF StepIsTrue, Moves, j
    <3> QED
      BY <1>1, <2>3, <3>1 DEF StepIsTrue, Guarded, j
  <2>4. CASE pc'[p] = "claimed"
    <3>1. handle'[p] = handle[p] /\ pushed[j] = 0
      BY <1>0, <1>2, <1>3, <2>4 DEF StepIsTrue, PushIsSpent, Leased, j
    <3> QED
      BY <1>1, <2>4, <3>1 DEF StepIsTrue, Guarded, j
  <2>5. CASE pc'[p] \notin Guarded /\ pc'[p] # "claimed"
    BY <2>5 DEF StepIsTrue, Guarded
  <2> QED
    BY <2>1, <2>2, <2>3, <2>4, <2>5
<1>7. PushIsSpent'
  <2>1. pc[p] = "sealed" => pushed[j] = 1
    BY <1>0 DEF StepIsTrue, Guarded, j
  <2> QED
    BY <1>0, <1>1, <1>2, <2>1 DEF PushIsSpent
<1> QED
  BY <1>4, <1>5, <1>6, <1>7

\* The steps of execute().
LEMMA PublishKeepsPush ==
  ASSUME PublicationInv, NEW p \in Workers, Publish(p)
  PROVE  PublicationTypeOK' /\ (\A q \in Workers : StepIsTrue(q)') /\ PushIsSpent'
<1> DEFINE j == handle[p].job
<1>0. /\ TypeOK /\ CallInv /\ PublicationTypeOK /\ PushIsSpent /\ \A q \in Workers : StepIsTrue(q)
      /\ step \in [Workers -> Steps] /\ pushed \in [Jobs -> Nat]
  BY DEF PublicationInv, CanonicalInv, RecoveryInv, StoreInv, PublicationTypeOK
<1>1. /\ pc[p] = "executing" /\ UNCHANGED <<pc, handle, claim, receipt>> /\ CanonicalTypeOK'
      /\ UNCHANGED <<issued, revoked, withdrawn>>
  BY <1>0 DEF Publish, Validate, ReadAuthorization, Consume, Revalidate, Push, ReadRemote, InStep, At,
     canonicalVars, callVars, vars, storeVars, effectVars, PublicationTypeOK, CanonicalTypeOK
<1>2. j \in Jobs /\ claim[j] = handle[p] /\ handle[p] # None
  BY <1>0, <1>1, LeasedHandle DEF Leased, Claimed, Guarded, CallInv, PlacesAreTrue, PlaceIsTrue
\* Another call has another job, since the claim names one of them.
<1>3. ASSUME NEW q \in Workers \ {p}, pc[q] \in Guarded \cup {"claimed"}
      PROVE  handle[q].job # j
  <2>1. claim[handle[q].job] = handle[q] /\ handle[p].fence > 0
    BY <1>0, <1>1, <1>3 DEF Claimed, Guarded, Leased, CallInv, PlacesAreTrue, PlaceIsTrue, HandlesAreUnique
  <2> QED
    BY <1>0, <1>2, <2>1 DEF CallInv, HandlesAreUnique
<1>a. j = handle[p].job
  OBVIOUS
<1> HIDE DEF j
<1>4. ASSUME NEW s \in Steps, step' = [step EXCEPT ![p] = s],
             consumed \subseteq consumed', consumed' \subseteq issued, pushed' \in [Jobs -> Nat],
             local' \in 0..MaxCommit, remote' \in 0..MaxCommit,
             \A i \in Jobs \ {j} : pushed'[i] = pushed[i] /\ (i \in consumed' => i \in consumed),
             pushed'[j] = IF s \in {"pushed", "read"} THEN 1 ELSE 0,
             s \in {"consumed", "revalidated", "pushed", "read"} => j \in consumed',
             j \in withdrawn => j \notin consumed',
             receipt[j] # "completed"
      PROVE  PublicationTypeOK' /\ (\A q \in Workers : StepIsTrue(q)') /\ PushIsSpent'
  <2>1. PublicationTypeOK'
    BY <1>0, <1>1, <1>4 DEF PublicationTypeOK
  <2>2. StepIsTrue(p)'
    BY <1>0, <1>1, <1>4, <1>a DEF StepIsTrue, Guarded
  <2>3. ASSUME NEW q \in Workers \ {p}
        PROVE  StepIsTrue(q)'
    <3>1. CASE pc[q] \in Guarded \cup {"claimed"}
      <4>1. handle[q].job # j /\ handle[q].job \in Jobs /\ step'[q] = step[q]
        BY <1>0, <1>3, <1>4, <3>1, LeasedHandle DEF Leased, Claimed
      <4> QED
        BY <1>0, <1>1, <1>4, <4>1 DEF StepIsTrue
    <3>2. CASE pc[q] \notin Guarded \cup {"claimed"}
      BY <1>1, <3>2 DEF StepIsTrue, Guarded
    <3> QED
      BY <3>1, <3>2
  <2>4. PushIsSpent'
    BY <1>0, <1>1, <1>2, <1>4 DEF PushIsSpent
  <2> QED
    BY <2>1, <2>2, <2>3, <2>4
<1>b. /\ receipt[j] = "none" /\ local \in 0..MaxCommit /\ remote \in 0..MaxCommit
      /\ consumed \subseteq issued /\ withdrawn \subseteq revoked
      /\ j \in withdrawn => j \notin consumed
      /\ step[p] \in Steps \ {"pushed", "read"} => pushed[j] = 0
      /\ step[p] \in {"consumed", "revalidated"} => j \in consumed
      /\ step[p] \in {"pushed", "read"} => pushed[j] = 1
      /\ pushed[j] = 1 => j \in consumed
  <2>1. receipt[j] = "none"
    BY <1>0, <1>1, <1>a DEF CallInv, PlacesAreTrue, PlaceIsTrue, Guarded
  <2> QED
    BY <1>0, <1>1, <1>2, <1>a, <2>1 DEF PublicationTypeOK, StepIsTrue, PushIsSpent
<1>5. CASE Validate(p) \/ ReadAuthorization(p) \/ Revalidate(p) \/ ReadRemote(p)
  <2>1. /\ UNCHANGED <<consumed, local, remote, pushed>>
        /\ \/ step[p] = "entered" /\ step' = [step EXCEPT ![p] = "validated"]
           \/ step[p] = "validated" /\ step' = [step EXCEPT ![p] = "authorized"]
           \/ step[p] = "consumed" /\ step' = [step EXCEPT ![p] = "revalidated"]
           \/ step[p] = "pushed" /\ step' = [step EXCEPT ![p] = "read"]
    BY <1>5 DEF Validate, ReadAuthorization, Revalidate, ReadRemote, InStep, GoOn
  <2>2. PICK s \in {"validated", "authorized", "revalidated", "read"} :
          step' = [step EXCEPT ![p] = s]
          /\ (s \in {"validated", "authorized"} => step[p] \in {"entered", "validated"})
          /\ (s = "revalidated" => step[p] = "consumed") /\ (s = "read" => step[p] = "pushed")
    BY <2>1
  <2>3. pushed[j] = IF s \in {"pushed", "read"} THEN 1 ELSE 0
    BY <1>b, <2>2 DEF Steps
  <2>4. s \in {"consumed", "revalidated", "pushed", "read"} => j \in consumed
    BY <1>b, <2>2
  <2> QED
    BY <1>0, <1>4, <1>b, <2>1, <2>2, <2>3, <2>4 DEF Steps
<1>6. CASE Consume(p)
  <2>1. /\ step' = [step EXCEPT ![p] = "consumed"] /\ step[p] = "authorized"
        /\ consumed' = consumed \cup {j} /\ j \in issued /\ j \notin revoked
        /\ UNCHANGED <<local, remote, pushed>>
    BY <1>6 DEF Consume, InStep, GoOn, Usable, j
  <2> QED
    BY <1>0, <1>4, <1>b, <2>1 DEF Steps
<1>7. CASE Push(p)
  <2>1. /\ step' = [step EXCEPT ![p] = "pushed"] /\ step[p] = "revalidated"
        /\ pushed' = [pushed EXCEPT ![j] = pushed[j] + 1] /\ remote' = Head[j]
        /\ UNCHANGED <<local, consumed>>
    BY <1>7 DEF Push, InStep, GoOn, j
  <2>2. Head[j] \in 0..MaxCommit /\ pushed[j] = 0 /\ j \in consumed
    BY <1>2, <1>b, <2>1, PublicationAssumption DEF Steps
  <2>3. pushed'[j] = 1 /\ pushed' \in [Jobs -> Nat] /\ \A i \in Jobs \ {j} : pushed'[i] = pushed[i]
    BY <1>0, <1>2, <2>1, <2>2
  <2> QED
    BY <1>4, <1>b, <2>1, <2>2, <2>3 DEF Steps
<1> QED
  BY <1>5, <1>6, <1>7 DEF Publish

\* Every step of the publication keeps its invariant.
LEMMA PublicationNextKeeps ==
  ASSUME PublicationInv, [PublicationNext]_gitVars
  PROVE  PublicationInv'
<1> DEFINE Goal == PublicationTypeOK' /\ (\A p \in Workers : StepIsTrue(p)') /\ PushIsSpent'
<1>0. /\ CanonicalInv /\ PublicationTypeOK /\ PushIsSpent /\ \A p \in Workers : StepIsTrue(p)
  BY DEF PublicationInv
<1>1. CanonicalInv' /\ CallInv'
  BY <1>0, PublicationStepIsCanonical, CanonicalNextKeeps DEF CanonicalInv
<1> USE DEF canonicalVars, callVars, vars, storeVars, effectVars
<1>2. ASSUME NEW j \in Jobs, RecordAuthorization(j)
      PROVE  Goal
  BY <1>0, <1>2 DEF RecordAuthorization, PublicationTypeOK, CanonicalTypeOK, StepIsTrue, PushIsSpent
<1>3. ASSUME NEW j \in Jobs, RevokeAuthorization(j)
      PROVE  Goal
  BY <1>0, <1>3 DEF RevokeAuthorization, PublicationTypeOK, CanonicalTypeOK, StepIsTrue, PushIsSpent
<1>4. ASSUME Commit \/ ForeignPush
      PROVE  Goal
  BY <1>0, <1>4, PublicationAssumption DEF Commit, ForeignPush, PublicationTypeOK, CanonicalTypeOK,
     StepIsTrue, PushIsSpent
<1>5. ASSUME ((Recovery \/ Environment) /\ UNCHANGED publicationVars) \/ UNCHANGED gitVars
      PROVE  Goal
  <2>1. UNCHANGED <<publicationVars, callVars, claim, receipt>>
    BY <1>5, OthersLeaveCalls DEF gitVars
  <2> QED
    BY <2>1, PublicationFrame
<1>6. ASSUME NEW p \in Workers, Publish(p) \/ CanonicalStep(p)
      PROVE  Goal
  BY <1>1, <1>6, PublishKeepsPush, CanonicalStepKeepsPush
<1> HIDE DEF Goal
<1>7. Goal
  BY <1>2, <1>3, <1>4, <1>5, <1>6 DEF PublicationNext
<1> QED
  BY <1>1, <1>7 DEF PublicationInv, Goal

\* The invariant holds in every reachable state of the publication.
LEMMA PublicationConsistent == PublicationSpec => []PublicationInv
<1>1. PublicationInit => PublicationInv
  <2> SUFFICES ASSUME PublicationInit
               PROVE  PublicationInv
    OBVIOUS
  <2>1. CanonicalInv /\ CanonicalTypeOK
    BY InitCanonical DEF PublicationInit, CanonicalInv, CallInv
  <2>2. PublicationTypeOK
    BY <2>1, PublicationAssumption DEF PublicationInit, PublicationTypeOK, Steps
  <2>3. \A p \in Workers : StepIsTrue(p)
    BY DEF PublicationInit, CanonicalInit, StepIsTrue, Guarded
  <2>4. PushIsSpent
    BY CanonicalAssumption DEF PublicationInit, CanonicalInit, Init, PushIsSpent
  <2> QED
    BY <2>1, <2>2, <2>3, <2>4 DEF PublicationInv
<1> QED
  BY <1>1, PublicationNextKeeps, PTL DEF PublicationSpec

\* GitPublicationService.apply implements run_canonical_job: every theorem about
\* canonical jobs holds of publications.
THEOREM PublicationIsCanonical == PublicationSpec => CanonicalSpec
<1>1. PublicationInit => CanonicalInit
  BY DEF PublicationInit
<1> QED
  BY <1>1, PublicationStepIsCanonical, PTL DEF PublicationSpec, CanonicalSpec

\* Every push spends an authorization of its own, behind an effect claim, and
\* none that was revoked before it was consumed.
THEOREM PushesAreAuthorized == PublicationSpec => []PushIsAuthorized
<1>1. PublicationInv => PushIsAuthorized
  BY DEF PublicationInv, PushIsSpent, PushIsAuthorized
<1> QED
  BY <1>1, PublicationConsistent, PTL

\* What the publication reports agrees with the remote: a push is never denied
\* without a human verdict, and a success is of a push that reached the remote.
THEOREM PublicationsAreTold == PublicationSpec => []PublicationIsTold
<1>1. ASSUME PublicationInv
      PROVE  PublicationIsTold
  <2>1. /\ StoreInv /\ KeyIsJob /\ CallInv /\ FailedIsJudged /\ AnswerIsProved /\ PushIsSpent
    BY <1>1 DEF PublicationInv, CanonicalInv, RecoveryInv, CallInv
  <2>2. ASSUME NEW j \in Jobs, claim[j] # None
        PROVE  state[j] # "quarantined"
    BY <2>1, <2>2, CanonicalAssumption DEF StoreInv, ClaimPinsAttempt, KeyIsJob
  <2>3. PushIsNotDenied
    BY <2>1, <2>2 DEF PushIsNotDenied, PushIsSpent, FailedIsJudged
  <2>4. CompletedIsPublished
    BY <2>1 DEF CompletedIsPublished, PushIsSpent, AnswerIsProved, TerminalIsReceipt
  <2> QED
    BY <2>3, <2>4 DEF PublicationIsTold
<1> QED
  BY <1>1, PublicationConsistent, PTL
=============================================================================
