---------------------------- MODULE LocalRuntime ----------------------------
(***************************************************************************)
(* The durable local job queue, SQLiteLocalRuntimeStore                    *)
(* (infrastructure/sqlite/local_runtime.py and                             *)
(* local_runtime_recovery_tx.py over the tables of operational_schema.py). *)
(*                                                                         *)
(* The store is modelled for arbitrary callers: any process may call any   *)
(* method with any handle it was ever given, in any order.  The discipline *)
(* of the real callers is in WorkerTick.tla and PublisherTick.tla.         *)
(***************************************************************************)
EXTENDS LocalOutbox

CONSTANTS
  Resources,     \* names that claim_next may lock
  Effects,       \* idempotency keys of effect claims
  Slots,         \* scheduler slots
  Bound,         \* jobs enqueued with a canonical Work/Run binding
  Requests       \* max_attempts, available_at and timeout_at that callers ask for

VARIABLES
  state,       \* local_job.state, "absent" before the insert
  request,     \* the immutable columns: max_attempts, available_at, timeout_at
  attempts,    \* local_job.attempt_count
  fence,       \* local_job.fencing_counter
  lease,       \* local_lease, unique per job
  lock,        \* local_resource_lock: the lease that holds a resource
  claim,       \* local_effect_claim by idempotency key
  receipt,     \* local_effect_receipt, at most one per claim
  case,        \* effect rows of local_recovery_case, at most one per claim
  resolution,  \* local_recovery_resolution of that case
  slot,        \* local_scheduler_slot
  current,     \* bound jobs whose canonical tuple is current
  orphans      \* leases that recover_orphans found ownerless and will sweep

jobVars == <<state, request, attempts, fence>>
leaseVars == <<lease, lock>>
effectVars == <<claim, receipt, case, resolution>>
storeVars == <<jobVars, leaseVars, effectVars, slot, current, orphans>>
vars == <<now, alive, delivery, storeVars>>

JobStates == {"absent", "ready", "running", "recovery-required",
              "completed", "failed", "quarantined"}
TerminalStates == {"completed", "failed", "quarantined"}
Statuses == {"completed", "failed", "unknown"}

Request == [max : Nat, available : Nat, timeout : Nat \cup {None}]
Lease == [owner : Procs, fence : Nat, expires : Nat]
Holder == [job : Jobs, fence : Nat]

ASSUME SentinelAssumption ==
  None \notin Nat /\ None \notin Lease /\ None \notin Holder /\ None \notin Jobs
ASSUME StoreAssumption ==
  /\ Bound \subseteq Jobs
  /\ Requests \subseteq Request
  /\ \A q \in Requests : q.max > 0

-----------------------------------------------------------------------------
(* Rows that several methods look up *)

ClaimsOf(j) == {k \in Effects : claim[k] # None /\ claim[k].job = j}

\* Claims without a receipt, or with the receipt "unknown".
Unresolved(j) == {k \in ClaimsOf(j) : receipt[k] \in {"none", "unknown"}}

\* Mutant: the job failed only if all of its effects did.
AllReceiptsFailed(j) == \A k \in ClaimsOf(j) : receipt[k] = "failed"

HasFailedReceipt(j) == \E k \in ClaimsOf(j) : receipt[k] = "failed"

OpenCases(j) == {k \in ClaimsOf(j) : case[k] = "open"}
OpenDeliveryCases(j) == {e \in DOMAIN delivery : e.job = j /\ delivery[e].case = "open"}
HasResolvedCase(j) ==
  \/ \E k \in ClaimsOf(j) : case[k] = "resolved"
  \/ \E e \in DOMAIN delivery : e.job = j /\ delivery[e].case = "resolved"

\* _validate_job_binding_tx and the lease/effect-claim triggers.
BindingCurrent(j) == j \in Bound => j \in current

TimedOut(j, m) == request[j].timeout # None /\ request[j].timeout <= m

\* The handle (p, j, f) is that of job j's stored, unexpired lease.
LiveLease(p, j, f, m) ==
  /\ lease[j] # None
  /\ lease[j].owner = p
  /\ lease[j].fence = f
  /\ m < lease[j].expires

\* Mutant: a lease ends without its locks.
StillLocked(L) == lock

Unlocked(L) == [r \in Resources |-> IF lock[r] # None /\ lock[r] \in L THEN None ELSE lock[r]]

-----------------------------------------------------------------------------
(* enqueue, schedule_once *)

InsertJob(j, q) ==
  LET e == Ev(j, "enqueued", 0, "enqueued") IN
  /\ state[j] = "absent"
  /\ CanEmit({e})
  /\ state' = [state EXCEPT ![j] = "ready"]
  /\ request' = [request EXCEPT ![j] = q]
  /\ delivery' = Emitted({e})
  /\ UNCHANGED <<now, alive, attempts, fence, leaseVars, effectVars, current, orphans>>

\* A second enqueue of the key returns the stored job or refuses a drift.  The
\* admission of a binding does not look at dependencies, so a bound job may be
\* queued before it is current.
Enqueue(j, q) ==
  /\ q.timeout # None => q.available < q.timeout
  /\ InsertJob(j, q)
  /\ UNCHANGED slot

\* A second call for the slot returns its job; a used job key is refused.
ScheduleOnce(s, j, m) ==
  /\ slot[s] = None
  /\ j \notin Bound
  /\ InsertJob(j, [max |-> 1, available |-> m, timeout |-> None])
  /\ slot' = [slot EXCEPT ![s] = j]

-----------------------------------------------------------------------------
(* _recover: the sweep of ended leases and of ready jobs past their timeout *)

\* Mutant: an orphan is recognised by its job, whichever lease the job has now.
DueByJobOnly(m, O) ==
  {j \in Jobs : lease[j] # None /\ (lease[j].expires <= m \/ \E o \in O : o.job = j)}

Due(m, O) ==
  {j \in Jobs : /\ lease[j] # None
                /\ lease[j].expires <= m \/ [job |-> j, fence |-> lease[j].fence] \in O}

\* Mutant: the sweep retries although an effect was claimed.
SweepStateIgnoringClaims(j, m) ==
  IF TimedOut(j, m) \/ attempts[j] >= request[j].max THEN "failed" ELSE "ready"

\* Mutant: the sweep retries although the attempts are used up.
SweepStateUnlimited(j, m) ==
  IF Unresolved(j) # {} THEN "recovery-required"
  ELSE IF ClaimsOf(j) # {} THEN IF HasFailedReceipt(j) THEN "failed" ELSE "completed"
  ELSE IF TimedOut(j, m) THEN "failed" ELSE "ready"

SweepState(j, m) ==
  CASE Unresolved(j) # {} -> "recovery-required"
    [] Unresolved(j) = {} /\ ClaimsOf(j) # {} ->
         IF HasFailedReceipt(j) THEN "failed" ELSE "completed"
    [] OTHER -> IF TimedOut(j, m) \/ attempts[j] >= request[j].max THEN "failed" ELSE "ready"

ReadyTimeouts(m) == {j \in Jobs : state[j] = "ready" /\ TimedOut(j, m)}

SweepEvents(m, O) ==
  {Ev(j, "sweep", lease[j].fence, SweepState(j, m)) : j \in Due(m, O)}
    \cup {Ev(j, "ready-timeout", 0, "failed") : j \in ReadyTimeouts(m)}

\* Mutant: the case that an unknown receipt opened is refused as a collision.
CaseMustBeNew(k, f) == receipt[k] = "none" /\ case[k] = "none" /\ claim[k].fence = f

\* The recovery case of an unresolved claim: the one an unknown receipt opened
\* must still be open; a receiptless claim must not have one yet.
CaseAdmissible(k, f) ==
  \/ receipt[k] = "unknown" /\ case[k] = "open"
  \/ receipt[k] = "none" /\ case[k] = "none" /\ claim[k].fence = f

\* transition_running_job_to_recovery_tx: the job still runs under this fence
\* and no open case of it belongs to a claim whose receipt is known.
TransitionAdmissible(j) ==
  /\ state[j] = "running"
  /\ lease[j].fence = fence[j]
  /\ \A k \in OpenCases(j) : receipt[k] \in {"none", "unknown"}

SweepAdmissible(m, O) ==
  /\ \A j \in Due(m, O) :
       Unresolved(j) # {} =>
         /\ \A k \in Unresolved(j) : CaseAdmissible(k, lease[j].fence)
         /\ TransitionAdmissible(j)
  /\ CanEmit(SweepEvents(m, O))

SweptState(m, O) ==
  [j \in Jobs |-> IF j \in Due(m, O) THEN SweepState(j, m)
                  ELSE IF j \in ReadyTimeouts(m) THEN "failed" ELSE state[j]]
\* Mutant: the swept job keeps its lease row.
UnsweptLease(m, O) == lease
SweptLease(m, O) == [j \in Jobs |-> IF j \in Due(m, O) THEN None ELSE lease[j]]
SweptLock(m, O) == Unlocked({[job |-> j, fence |-> lease[j].fence] : j \in Due(m, O)})
\* Mutant: the sweep opens no case for a claim without a receipt.
UnsweptCase(m, O) ==
  [k \in Effects |->
     IF \E j \in Due(m, O) : k \in Unresolved(j) /\ receipt[k] = "unknown" THEN "open" ELSE case[k]]
SweptCase(m, O) ==
  [k \in Effects |->
     IF \E j \in Due(m, O) : k \in Unresolved(j) THEN "open" ELSE case[k]]

Sweep(m, O) ==
  /\ SweepAdmissible(m, O)
  /\ state' = SweptState(m, O)
  /\ lease' = SweptLease(m, O)
  /\ lock' = SweptLock(m, O)
  /\ case' = SweptCase(m, O)
  /\ delivery' = Emitted(SweepEvents(m, O))
  /\ UNCHANGED <<now, alive, request, attempts, fence, claim, receipt, resolution, slot, current>>

\* recover_expired (m is now), and claim_next when it finds nothing to claim.
RecoverExpired(m) ==
  /\ SweepEvents(m, {}) # {}
  /\ Sweep(m, {})
  /\ UNCHANGED orphans

\* recover_orphans reads the leases and probes their owners outside any
\* transaction; the sweep that follows uses what it saw then.  An orphan is a
\* lease whose token is not the one the probe reports.
ProbeOrphans ==
  /\ orphans = {}
  /\ orphans' = {[job |-> j, fence |-> lease[j].fence] :
                   j \in {i \in Jobs : lease[i] # None /\ lease[i].owner \in Unrecognised}}
  /\ orphans' # {}
  /\ UNCHANGED <<now, alive, delivery, jobVars, leaseVars, effectVars, slot, current>>

RecoverOrphans(m) ==
  /\ orphans # {}
  /\ Sweep(m, orphans)
  /\ orphans' = {}

\* recover_orphans whose sweep raised (backpressure, case collision).
AbandonOrphans(m) ==
  /\ orphans # {}
  /\ ~SweepAdmissible(m, orphans)
  /\ orphans' = {}
  /\ UNCHANGED <<now, alive, delivery, jobVars, leaseVars, effectVars, slot, current>>

-----------------------------------------------------------------------------
(* claim_next, heartbeat *)

\* The caller's operations or exact job id pick among these; without them the
\* order is available_at, created_at, id.  Here any of them may be picked.
Claimable(j, m) ==
  /\ SweptState(m, {})[j] = "ready"
  /\ request[j].available <= m
  /\ ~TimedOut(j, m)
  /\ attempts[j] < request[j].max
  /\ BindingCurrent(j)

\* The sweep, the selection, the lease and the locks are one transaction: a
\* resource that is still locked after the sweep undoes all of it.
ClaimNext(p, j, R, m) ==
  /\ p \in alive
  /\ SweepAdmissible(m, {})
  /\ Claimable(j, m)
  /\ \A r \in R : SweptLock(m, {})[r] = None
  /\ state' = [SweptState(m, {}) EXCEPT ![j] = "running"]
  /\ attempts' = [attempts EXCEPT ![j] = @ + 1]
  /\ fence' = [fence EXCEPT ![j] = @ + 1]
  /\ lease' = [SweptLease(m, {}) EXCEPT
                 ![j] = [owner |-> p, fence |-> fence[j] + 1, expires |-> m + LeaseSeconds]]
  /\ lock' = [r \in Resources |->
                IF r \in R THEN [job |-> j, fence |-> fence[j] + 1] ELSE SweptLock(m, {})[r]]
  /\ case' = SweptCase(m, {})
  /\ delivery' = Emitted(SweepEvents(m, {}))
  /\ UNCHANGED <<now, alive, request, claim, receipt, resolution, slot, current, orphans>>

Heartbeat(p, j, f, m) ==
  /\ p \in alive
  /\ LiveLease(p, j, f, m)
  /\ lease' = [lease EXCEPT ![j].expires = m + LeaseSeconds]
  /\ UNCHANGED <<now, alive, delivery, jobVars, lock, effectVars, slot, current, orphans>>

-----------------------------------------------------------------------------
(* claim_effect, record_receipt *)

\* A stored claim of the same job is returned, one of another job refused.
ClaimEffect(p, j, f, k, m) ==
  /\ p \in alive
  /\ BindingCurrent(j)
  /\ LiveLease(p, j, f, m)
  /\ claim[k] = None
  /\ claim' = [claim EXCEPT ![k] = [job |-> j, fence |-> f]]
  /\ UNCHANGED <<now, alive, delivery, jobVars, leaseVars, receipt, case, resolution,
                 slot, current, orphans>>

\* Mutant: an unknown receipt opens no recovery case.
RecordReceiptWithoutCase(k, s) ==
  /\ claim[k] # None
  /\ receipt[k] = "none"
  /\ receipt' = [receipt EXCEPT ![k] = s]
  /\ UNCHANGED <<now, alive, delivery, jobVars, leaseVars, claim, case, resolution,
                 slot, current, orphans>>

\* Needs the exact claim and nothing else: no lease, no job state, no clock.
RecordReceipt(k, s) ==
  /\ claim[k] # None
  /\ receipt[k] = "none"
  /\ s = "unknown" => case[k] = "none"
  /\ receipt' = [receipt EXCEPT ![k] = s]
  /\ case' = IF s = "unknown" THEN [case EXCEPT ![k] = "open"] ELSE case
  /\ UNCHANGED <<now, alive, delivery, jobVars, leaseVars, claim, resolution,
                 slot, current, orphans>>

-----------------------------------------------------------------------------
(* finish, quarantine *)

\* Mutant: the end of the job leaves its lease row behind.
EndKeepingLease(j, to, tag) ==
  /\ CanEmit({Ev(j, tag, 0, to)})
  /\ state' = [state EXCEPT ![j] = to]
  /\ delivery' = Emitted({Ev(j, tag, 0, to)})
  /\ UNCHANGED <<now, alive, request, attempts, fence, leaseVars, claim, receipt, resolution,
                 slot, current, orphans>>

\* What finish and quarantine do to the job and its lease.
EndLease(j, to, tag) ==
  LET e == Ev(j, tag, 0, to) IN
  /\ CanEmit({e})
  /\ state' = [state EXCEPT ![j] = to]
  /\ lease' = [lease EXCEPT ![j] = None]
  /\ lock' = Unlocked({[job |-> j, fence |-> lease[j].fence]})
  /\ delivery' = Emitted({e})
  /\ UNCHANGED <<now, alive, request, attempts, fence, claim, receipt, resolution,
                 slot, current, orphans>>

FinishTerminal(p, j, f, to, m) ==
  /\ p \in alive
  /\ LiveLease(p, j, f, m)
  /\ state[j] = "running"
  /\ Unresolved(j) = {}
  /\ to = "completed" => ~HasFailedReceipt(j)
  /\ EndLease(j, to, "terminal")
  /\ UNCHANGED case

\* If the job has no open case, each unresolved claim gets one, which needs it
\* to be receiptless; otherwise the stored cases are taken as they are.  The
\* case tuple is compared with the effect cases only, so an open delivery case
\* of the job refuses the call.
FinishRecovery(p, j, f, m) ==
  LET fresh == IF OpenCases(j) = {} THEN Unresolved(j) ELSE {} IN
  /\ p \in alive
  /\ LiveLease(p, j, f, m)
  /\ Unresolved(j) # {}
  /\ OpenDeliveryCases(j) = {}
  /\ \A k \in fresh : receipt[k] = "none" /\ case[k] = "none"
  /\ TransitionAdmissible(j)
  /\ case' = [k \in Effects |-> IF k \in fresh THEN "open" ELSE case[k]]
  /\ EndLease(j, "recovery-required", "terminal")

Quarantine(p, j, f, m) ==
  /\ p \in alive
  /\ LiveLease(p, j, f, m)
  /\ ClaimsOf(j) = {}
  /\ EndLease(j, "quarantined", "quarantined")
  /\ UNCHANGED case

-----------------------------------------------------------------------------
(* resolve_recovery, reconcile_recovery *)

ResolveEffect(k, o) ==
  /\ case[k] = "open"
  /\ receipt[k] \in {"completed", "failed"} => receipt[k] = o
  /\ resolution[k] = "none"
  /\ resolution' = [resolution EXCEPT ![k] = o]
  /\ case' = [case EXCEPT ![k] = "resolved"]
  /\ UNCHANGED <<now, alive, delivery, jobVars, leaseVars, claim, receipt,
                 slot, current, orphans>>

Unreconciled(j) ==
  {k \in ClaimsOf(j) :
     \/ case[k] # "none" /\ resolution[k] = "none"
     \/ case[k] = "none" /\ receipt[k] \in {"none", "unknown"}}

ReconcileRecovery(j) ==
  LET failed == \E k \in ClaimsOf(j) : receipt[k] = "failed" \/ resolution[k] = "failed"
      to == IF failed THEN "failed" ELSE "completed"
      e == Ev(j, "reconciled", 0, to)
  IN
  /\ state[j] = "recovery-required"
  /\ Unreconciled(j) = {}
  /\ HasResolvedCase(j)
  /\ CanEmit({e})
  /\ state' = [state EXCEPT ![j] = to]
  /\ delivery' = Emitted({e})
  /\ UNCHANGED <<now, alive, request, attempts, fence, leaseVars, effectVars,
                 slot, current, orphans>>

-----------------------------------------------------------------------------
(* Environment *)

\* The Work, Run, configuration or dependency rows behind a binding change
\* (OperationalStore.tla); one of them may stand behind several bindings, and a
\* binding may become current again.
AuthorityChange(C) ==
  /\ C # current
  /\ current' = C
  /\ UNCHANGED <<now, alive, delivery, jobVars, leaseVars, effectVars, slot, orphans>>

Init ==
  /\ OutboxInit
  /\ state = [j \in Jobs |-> "absent"]
  /\ request = [j \in Jobs |-> [max |-> 1, available |-> 0, timeout |-> None]]
  /\ attempts = [j \in Jobs |-> 0]
  /\ fence = [j \in Jobs |-> 0]
  /\ lease = [j \in Jobs |-> None]
  /\ lock = [r \in Resources |-> None]
  /\ claim = [k \in Effects |-> None]
  /\ receipt = [k \in Effects |-> "none"]
  /\ case = [k \in Effects |-> "none"]
  /\ resolution = [k \in Effects |-> "none"]
  /\ slot = [s \in Slots |-> None]
  /\ current \in SUBSET Bound
  /\ orphans = {}

JobStep ==
  \/ \E j \in Jobs, q \in Requests : Enqueue(j, q)
  \/ \E s \in Slots, j \in Jobs, m \in Moments : ScheduleOnce(s, j, m)
  \/ \E m \in Moments : RecoverExpired(m)
  \/ RecoverOrphans(now) \/ AbandonOrphans(now)
  \/ ProbeOrphans
  \/ \E p \in Workers, j \in Jobs, m \in Moments :
       \/ \E R \in SUBSET Resources : ClaimNext(p, j, R, m)
       \/ \E f \in 1..fence[j] :
            \/ Heartbeat(p, j, f, m)
            \/ \E k \in Effects : ClaimEffect(p, j, f, k, m)
            \/ \E to \in {"completed", "failed"} : FinishTerminal(p, j, f, to, m)
            \/ FinishRecovery(p, j, f, m)
            \/ Quarantine(p, j, f, m)
  \/ \E k \in Effects, s \in Statuses : RecordReceipt(k, s)
  \/ \E k \in Effects, o \in {"completed", "failed"} : ResolveEffect(k, o)
  \/ \E j \in Jobs : ReconcileRecovery(j)

QueueStep == JobStep \/ \E C \in SUBSET Bound : AuthorityChange(C)

Next ==
  \/ QueueStep
  \/ OutboxStep /\ UNCHANGED storeVars

Spec == Init /\ [][Next]_vars

-----------------------------------------------------------------------------
(* The promise that the store implements *)

Phase(j) ==
  CASE state[j] = "ready" -> "open"
    [] state[j] = "running" -> IF ClaimsOf(j) = {} THEN "open" ELSE "committed"
    [] state[j] = "recovery-required" -> "ambiguous"
    [] OTHER -> state[j]

Promise == INSTANCE JobPromise
  WITH phase <- [j \in Jobs |-> Phase(j)], committed <- [j \in Jobs |-> ClaimsOf(j)]

\* The store implements the job's promise: leases, retries, sweeps and recovery
\* never take back a committed effect or a known end.
KeepsPromise == Promise!PromiseSpec

-----------------------------------------------------------------------------
(* Properties *)

\* A queued job can still be claimed: no path puts a job back to "ready" whose
\* attempts are used up, where claim_next would never select it again.
ReadyHasAttemptsLeft == \A j \in Jobs : state[j] = "ready" => attempts[j] < request[j].max

\* The columns of every table hold values of their declared domains.
TypeOK ==
  /\ now \in Nat
  /\ alive \subseteq Procs
  /\ DOMAIN delivery \subseteq Event
  /\ delivery \in [DOMAIN delivery -> Delivery]
  /\ state \in [Jobs -> JobStates]
  /\ request \in [Jobs -> Request]
  /\ attempts \in [Jobs -> Nat]
  /\ fence \in [Jobs -> Nat]
  /\ lease \in [Jobs -> Lease \cup {None}]
  /\ lock \in [Resources -> Holder \cup {None}]
  /\ claim \in [Effects -> Holder \cup {None}]
  /\ receipt \in [Effects -> Statuses \cup {"none"}]
  /\ case \in [Effects -> {"none", "open", "resolved"}]
  /\ resolution \in [Effects -> {"none", "completed", "failed"}]
  /\ slot \in [Slots -> Jobs \cup {None}]
  /\ current \subseteq Bound
  /\ orphans \subseteq Holder

\* A job runs exactly while it has a lease, and that lease carries the job's
\* current fencing token (finish, quarantine and the sweep delete it together
\* with the state change, claim_next inserts it with the new token).
RunningIffLeased ==
  \A j \in Jobs :
    /\ state[j] = "running" <=> lease[j] # None
    /\ lease[j] # None => lease[j].fence = fence[j]

\* A resource is locked only by the lease its holder has now: no path that ends
\* a lease leaves a lock behind, and no lock survives into the next attempt.
LocksBackedByLease ==
  \A r \in Resources :
    lock[r] # None =>
      /\ lease[lock[r].job] # None
      /\ lease[lock[r].job].fence = lock[r].fence

\* An effect claim pins the job to the attempt that made it: the job is never
\* queued, claimed under another token or quarantined again.
ClaimPinsAttempt ==
  \A k \in Effects :
    claim[k] # None =>
      /\ fence[claim[k].job] = claim[k].fence
      /\ state[claim[k].job] \notin {"absent", "ready", "quarantined"}

\* No ambiguous effect is lost: an unknown receipt and a recovery-required job
\* each have a recovery case, and a case is resolved exactly when a resolution
\* receipt exists.
AmbiguityRecorded ==
  /\ \A k \in Effects :
       /\ receipt[k] = "unknown" => case[k] # "none"
       /\ case[k] = "resolved" <=> resolution[k] # "none"
       /\ case[k] # "none" => claim[k] # None
  /\ \A j \in Jobs :
       state[j] = "recovery-required" => \E k \in ClaimsOf(j) : case[k] # "none"

\* The transactional outbox tells the truth: the state of every stored job is
\* announced by an event, and no event announces an end the job did not have.
OutboxTellsState ==
  /\ \A j \in Jobs :
       state[j] \notin {"absent", "running"} =>
         \E e \in DOMAIN delivery :
           /\ e.job = j
           /\ e.kind = state[j] \/ (state[j] = "ready" /\ e.kind = "enqueued")
  /\ \A e \in DOMAIN delivery :
       /\ e.kind \in TerminalStates => state[e.job] = e.kind
       /\ e.kind = "recovery-required" =>
            state[e.job] \in {"recovery-required", "completed", "failed"}

\* Backpressure holds: the open deliveries never exceed max_pending_outbox,
\* although one sweep may emit several events.
OutboxBounded == Cardinality(Undelivered) <= MaxPendingOutbox

\* A delivery is settled only on evidence: the publisher's own receipt, or the
\* human resolution of the case that an unknown receipt opened.
DeliveryEvidence ==
  \A e \in DOMAIN delivery :
    LET d == delivery[e] IN
    /\ d.state \in {"delivered", "failed"} =>
         d.receipt = d.state \/ (d.receipt = "unknown" /\ d.outcome = d.state)
    /\ d.state = "recovery-required" <=> d.case = "open"

\* What a reader of the outbox relies on, together: true announcements, bounded
\* backlog, settled deliveries (_emit_outbox, record_outbox_receipt and both
\* recoveries share the rows).
OutboxSound == OutboxTellsState /\ OutboxBounded /\ DeliveryEvidence

\* A job becomes completed only when each of its effects is known to have
\* completed, by a receipt or by a human resolution, and none to have failed.
CompletionJustified ==
  [][\A j \in Jobs :
       state[j] # "completed" /\ state'[j] = "completed" =>
         \A k \in ClaimsOf(j) :
           /\ "completed" \in {receipt[k], resolution[k]}
           /\ "failed" \notin {receipt[k], resolution[k]}]_vars

\* The ends completed, failed and quarantined are final, and a job that needs
\* recovery only moves to completed or failed.
EndsAreFinal ==
  [][\A j \in Jobs :
       /\ state[j] \in TerminalStates => state'[j] = state[j]
       /\ state[j] = "recovery-required" =>
            state'[j] \in {"recovery-required", "completed", "failed"}]_vars

\* A lease is swept only when its time is over or when the probe would still not
\* recognise its owner, even though recover_orphans acts on what it saw in an
\* earlier transaction: a live worker that leased under its incarnation token
\* keeps its lease also if the job was another's when it was probed.  A caller
\* that leased under a token of its own is not protected (LiveCallerKeepsLease).
SweepSparesRecognised ==
  [][\A e \in DOMAIN delivery' \ DOMAIN delivery :
       e.tag = "sweep" =>
         LET l == lease[e.job] IN
         l # None /\ l.fence = e.fence /\ (l.expires <= now \/ l.owner \in Unrecognised)]_vars

\* An event is handed to one publisher incarnation at most: a claimed delivery
\* keeps its owner for ever and is never offered again.
HandedOnce ==
  [][\A e \in DOMAIN delivery :
       delivery[e].state # "pending" =>
         delivery'[e].state # "pending" /\ delivery'[e].owner = delivery[e].owner]_vars

\* finish refuses to complete a job with a failed receipt; this says that no
\* completed job has one.  A receipt that arrives after a human resolution and
\* reconcile_recovery breaks it.
FailedReceiptNeverCompleted ==
  \A j \in Jobs : state[j] = "completed" => ~HasFailedReceipt(j)
=============================================================================
