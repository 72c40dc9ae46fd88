---------------------------- MODULE LocalOutbox ----------------------------
(***************************************************************************)
(* The transactional outbox of the local runtime store                     *)
(* (infrastructure/sqlite/local_runtime.py, tables local_outbox,           *)
(* local_outbox_delivery, local_outbox_receipt and the outbox rows of      *)
(* local_recovery_case).                                                   *)
(*                                                                         *)
(* Every public method of the store is one `begin immediate` transaction,  *)
(* so it is one atomic action here; a method that raises rolls back and is *)
(* no step at all.  What is not atomic is everything between two methods:  *)
(* the publisher's own work, its heartbeats, its death, the clock.         *)
(***************************************************************************)
EXTENDS Naturals, FiniteSets

CONSTANTS
  Jobs,              \* local_job rows that may ever exist, by idempotency key
  Workers,           \* process incarnations (PID + incarnation token) running jobs
  Publishers,        \* process incarnations delivering outbox events
  None,              \* SQL null
  Foreign,           \* processes that claim under a token of their own (uuid4)
  MaxPendingOutbox,  \* local_runtime_config.max_pending_outbox
  LeaseSeconds,      \* duration of a job lease and of an outbox claim
  BusyWait,          \* how long a writer may wait for SQLite's write lock
  MaxTime            \* bound of the clock

VARIABLES
  now,       \* wall clock
  alive,     \* process incarnations that are still running
  delivery   \* outbox rows: event -> its delivery, receipt and recovery case

Procs == Workers \cup Publishers

(***************************************************************************)
(* A lease and a delivery claim store the token their owner chose.  The    *)
(* probe of the recoveries reports the incarnation token of the owner's    *)
(* PID: it does not recognise a dead owner, and it does not recognise a    *)
(* live one that chose another token.                                      *)
(***************************************************************************)
Unrecognised == {p \in Procs : p \notin alive \/ p \in Foreign}

(***************************************************************************)
(* An outbox event.  `tag`, `fence` (and for the sweep also `kind`) make   *)
(* up the idempotency key: job:{id}:enqueued, job:{id}:terminal,           *)
(* job:{id}:recovery:{fence}:{state}, job:{id}:ready-timeout,              *)
(* job:{id}:quarantined, job:{id}:reconciled.                              *)
(***************************************************************************)
Tags == {"enqueued", "terminal", "sweep", "ready-timeout", "quarantined", "reconciled"}
Kinds == {"enqueued", "ready", "completed", "failed", "recovery-required", "quarantined"}
Event == [job : Jobs, tag : Tags, fence : Nat, kind : Kinds]
Ev(j, t, f, k) == [job |-> j, tag |-> t, fence |-> f, kind |-> k]

SameKey(d, e) ==
  /\ d.job = e.job /\ d.tag = e.tag /\ d.fence = e.fence
  /\ e.tag = "sweep" => d.kind = e.kind

OpenStates == {"pending", "claimed", "recovery-required"}
DeliveryStates == OpenStates \cup {"delivered", "failed"}
Delivery ==
  [ state    : DeliveryStates,
    owner    : Procs \cup {None},
    expires  : Nat,
    receipt  : {"none", "delivered", "failed", "unknown"},
    case     : {"none", "open", "resolved"},
    outcome  : {"none", "delivered", "failed"} ]

Pending ==
  [ state |-> "pending", owner |-> None, expires |-> 0,
    receipt |-> "none", case |-> "none", outcome |-> "none" ]

ASSUME NoneAssumption == None \notin Procs
ASSUME BoundsAssumption ==
  /\ MaxPendingOutbox \in Nat \ {0}
  /\ LeaseSeconds \in Nat \ {0}
  /\ BusyWait \in Nat
  /\ MaxTime \in Nat

(***************************************************************************)
(* A method reads the clock before it waits for the write lock, so the     *)
(* moment its transaction works with may be older than its commit.  Only   *)
(* recover_expired, recover_orphans and recover_outbox read it inside the  *)
(* transaction.                                                            *)
(***************************************************************************)
Moments == {m \in 0..now : now <= m + BusyWait}

-----------------------------------------------------------------------------
(* _emit_outbox / require_outbox_capacity_tx / _insert_outbox              *)

Undelivered == {e \in DOMAIN delivery : delivery[e].state \in OpenStates}

\* Mutant: capacity is checked once for the whole transaction, and too late.
HasRoomOffByOne(n) == Cardinality(Undelivered) <= MaxPendingOutbox

\* n more events fit: each insert needs fewer than max_pending_outbox open rows.
HasRoom(n) == Cardinality(Undelivered) + n <= MaxPendingOutbox

\* The transaction may insert the events E (capacity and unique keys).
CanEmit(E) ==
  /\ HasRoom(Cardinality(E))
  /\ \A e \in E : \A d \in DOMAIN delivery : ~SameKey(d, e)

Emitted(E) ==
  [e \in (DOMAIN delivery) \cup E |-> IF e \in DOMAIN delivery THEN delivery[e] ELSE Pending]

-----------------------------------------------------------------------------
(* Deliveries                                                              *)

\* _recover_outbox: a claimed delivery whose claim ran out, or whose owner the
\* probe does not recognise, gets the receipt "unknown".
Abandoned(m, unknown) ==
  {e \in DOMAIN delivery :
     /\ delivery[e].state = "claimed"
     /\ delivery[e].expires <= m \/ delivery[e].owner \in unknown}

AsUnknown(d) == [d EXCEPT !.state = "recovery-required", !.receipt = "unknown", !.case = "open"]

ClaimedBy(d, p, x) == [d EXCEPT !.state = "claimed", !.owner = p, !.expires = x]

\* A receipt that says nothing is known opens a recovery case.
Receipted(d, s) == IF s = "unknown" THEN AsUnknown(d) ELSE [d EXCEPT !.receipt = s, !.state = s]

\* The human's outcome settles the delivery only while it still waits for one.
Resolved(d, o) ==
  [d EXCEPT !.case = "resolved", !.outcome = o,
            !.state = IF d.state = "recovery-required" THEN o ELSE d.state]

\* Mutant: an abandoned delivery is offered to the next publisher.
RequeuedOutbox(m, unknown) ==
  [e \in DOMAIN delivery |->
     IF e \in Abandoned(m, unknown) THEN Pending ELSE delivery[e]]

RecoveredOutbox(m, unknown) ==
  [e \in DOMAIN delivery |->
     IF e \in Abandoned(m, unknown) THEN AsUnknown(delivery[e]) ELSE delivery[e]]

\* Mutant: recovery waits for outbox capacity like an emit.
RecoverOutboxIfRoom(m, unknown) ==
  /\ HasRoom(1)
  /\ Abandoned(m, unknown) # {}
  /\ delivery' = RecoveredOutbox(m, unknown)
  /\ UNCHANGED <<now, alive>>

\* recover_outbox, with or without a process probe, and claim_outbox when it
\* finds nothing to claim.
RecoverOutbox(m, unknown) ==
  /\ Abandoned(m, unknown) # {}
  /\ delivery' = RecoveredOutbox(m, unknown)
  /\ UNCHANGED <<now, alive>>

\* claim_outbox.  Callers choose by event kind, exact id or completed job;
\* an exact id can name any pending event.
ClaimOutbox(p, e, m) ==
  /\ p \in alive
  /\ e \in DOMAIN delivery
  /\ delivery[e].state = "pending"
  /\ delivery' =
       [RecoveredOutbox(m, {}) EXCEPT ![e] = ClaimedBy(delivery[e], p, m + LeaseSeconds)]
  /\ UNCHANGED <<now, alive>>

\* A handle names the claim it was given by its expiry: a heartbeat retires
\* every earlier handle of the same claim.
HoldsClaim(p, e, x) ==
  /\ e \in DOMAIN delivery
  /\ delivery[e].owner = p
  /\ delivery[e].expires = x

\* heartbeat_outbox
HeartbeatOutbox(p, e, x, m) ==
  /\ p \in alive
  /\ HoldsClaim(p, e, x)
  /\ delivery[e].state = "claimed"
  /\ m < x
  /\ delivery' = [delivery EXCEPT ![e].expires = m + LeaseSeconds]
  /\ UNCHANGED <<now, alive>>

\* record_outbox_receipt; the replay of a stored receipt changes nothing.
RecordOutboxReceipt(p, e, x, s, m) ==
  /\ p \in alive
  /\ HoldsClaim(p, e, x)
  /\ delivery[e].receipt = "none"
  /\ delivery[e].state = "claimed"
  /\ m < x
  /\ delivery' = [delivery EXCEPT ![e] = Receipted(delivery[e], s)]
  /\ UNCHANGED <<now, alive>>

\* resolve_recovery of an outbox-delivery-unknown case, a human's verdict.
ResolveDelivery(e, o) ==
  /\ e \in DOMAIN delivery
  /\ delivery[e].case = "open"
  /\ delivery' = [delivery EXCEPT ![e] = Resolved(delivery[e], o)]
  /\ UNCHANGED <<now, alive>>

-----------------------------------------------------------------------------
(* Environment *)

Tick == now < MaxTime /\ now' = now + 1 /\ UNCHANGED <<alive, delivery>>

\* A process incarnation dies for good: a reused PID has another token.
Die(p) == p \in alive /\ alive' = alive \ {p} /\ UNCHANGED <<now, delivery>>

OutboxInit ==
  /\ now = 0
  /\ alive = Procs
  /\ delivery = [e \in {} |-> Pending]

\* The part of the store's next-state relation that touches only the outbox.
OutboxStep ==
  \/ RecoverOutbox(now, Unrecognised)
  \/ \E m \in Moments : RecoverOutbox(m, {})
  \/ \E p \in Publishers, e \in DOMAIN delivery, m \in Moments :
       \/ ClaimOutbox(p, e, m)
       \/ HeartbeatOutbox(p, e, delivery[e].expires, m)
       \/ \E s \in {"delivered", "failed", "unknown"} :
            RecordOutboxReceipt(p, e, delivery[e].expires, s, m)
  \/ \E e \in DOMAIN delivery, o \in {"delivered", "failed"} : ResolveDelivery(e, o)
  \/ Tick
  \/ \E p \in Procs : Die(p)
=============================================================================
