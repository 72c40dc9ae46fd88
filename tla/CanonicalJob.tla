---------------------------- MODULE CanonicalJob ----------------------------
(***************************************************************************)
(* run_canonical_job and replay_canonical_job                              *)
(* (application/canonical_job_runtime.py) over the store of LocalRuntime:  *)
(* several callers of the same operation, each with its keeper thread,     *)
(* beside the startup recovery of other processes and a human who resolves *)
(* recovery cases.                                                         *)
(*                                                                         *)
(* A job stands for one key (binding, operation, input, execution key); it *)
(* has one effect claim, job:{id}:canonical-effect, so Effects is Jobs,    *)
(* and all jobs belong to one project, whose lock is Resources.  A caller  *)
(* may die between any two calls and any call may raise.                   *)
(***************************************************************************)
EXTENDS LocalRuntime

VARIABLES
  pc,           \* where each call of run_canonical_job stands
  handle,       \* job and fencing token of the call
  keeper,       \* its keeper thread runs, or may still have a renewal in flight
  interrupted,  \* heartbeat_failed or the caller's cancellation is set
  executed,     \* history: how often execute() was entered for a job
  checkpoint,   \* checkpoint rows that name the job, artifact registered with it
  answered      \* history: jobs whose result some caller was given

callVars == <<pc, handle, keeper, interrupted, executed, checkpoint, answered>>
canonicalVars == <<vars, callVars>>

ASSUME CanonicalAssumption ==
  /\ Effects = Jobs /\ Bound = Jobs
  /\ Foreign = Workers   \* the owner token of a call is a uuid4
  /\ \A q \in Requests : q.max = 1 /\ q.timeout = None

Places == {"idle", "dispatched", "enqueued", "leased", "claimed", "executing", "executed",
           "confirmed", "checkpointed", "sealed", "receipted", "finished",
           "caught", "ambiguous"}

\* The body of the try block: an exception here goes to its handler.
Guarded == {"executing", "executed", "confirmed", "checkpointed", "sealed",
            "receipted", "finished"}

\* The callers' own state has its types.
CanonicalTypeOK ==
  /\ pc \in [Workers -> Places]
  /\ handle \in [Workers -> Holder \cup {None}]
  /\ keeper \in [Workers -> BOOLEAN]
  /\ interrupted \in [Workers -> BOOLEAN]
  /\ executed \in [Jobs -> Nat]
  /\ checkpoint \in [Jobs -> Nat]
  /\ answered \subseteq Jobs

At(p, place) == p \in alive /\ pc[p] = place
Goto(p, place) == pc' = [pc EXCEPT ![p] = place]

\* terminal_evidence_digest is the digest of the completed receipt: only finish
\* writes it so; the sweep and reconcile_recovery write a digest over the list
\* of their evidence.
TerminalIsReceipt(j) ==
  receipt[j] = "completed" /\ \E e \in DOMAIN delivery : e = Ev(j, "terminal", 0, "completed")

\* _completed_result, job_completion_checkpoint: attempt, effect, receipt,
\* terminal evidence, and exactly one checkpoint with its artifact.
Replayable(j) ==
  /\ state[j] = "completed"
  /\ attempts[j] = 1
  /\ TerminalIsReceipt(j)
  /\ checkpoint[j] = 1

-----------------------------------------------------------------------------
(* run_canonical_job *)

\* validate_dispatch_binding of a job that is not completed; then
\* validate_inputs.
Dispatch(p, j) ==
  /\ At(p, "idle")
  /\ state[j] # "completed"
  /\ BindingCurrent(j)
  /\ Goto(p, "dispatched")
  /\ handle' = [handle EXCEPT ![p] = [job |-> j, fence |-> 0]]
  /\ keeper' = [keeper EXCEPT ![p] = FALSE]
  /\ interrupted' = [interrupted EXCEPT ![p] = FALSE]
  /\ UNCHANGED <<vars, executed, checkpoint, answered>>

\* The completed job is read back, by this or by replay_canonical_job.
Replay(p, j) ==
  /\ At(p, "idle")
  /\ Replayable(j)
  /\ answered' = answered \cup {j}
  /\ UNCHANGED <<vars, pc, handle, keeper, interrupted, executed, checkpoint>>

EnqueueNew(p, q) ==
  /\ At(p, "dispatched")
  /\ Enqueue(handle[p].job, q)
  /\ Goto(p, "enqueued")
  /\ UNCHANGED <<handle, keeper, interrupted, executed, checkpoint, answered>>

\* An enqueued job that was never leased is continued; any other is refused.
EnqueueExisting(p) ==
  /\ At(p, "dispatched")
  /\ state[handle[p].job] = "ready" /\ attempts[handle[p].job] = 0
  /\ Goto(p, "enqueued")
  /\ UNCHANGED <<vars, handle, keeper, interrupted, executed, checkpoint, answered>>

\* claim_next for this exact job and the project's lock.
TakeLease(p, m) ==
  LET j == handle[p].job IN
  /\ At(p, "enqueued")
  /\ ~interrupted[p]
  /\ ClaimNext(p, j, Resources, m)
  /\ Goto(p, "leased")
  /\ handle' = [handle EXCEPT ![p].fence = fence[j] + 1]
  /\ UNCHANGED <<keeper, interrupted, executed, checkpoint, answered>>

\* claim_effect must create the claim.
ClaimTheEffect(p, m) ==
  /\ At(p, "leased")
  /\ ClaimEffect(p, handle[p].job, handle[p].fence, handle[p].job, m)
  /\ Goto(p, "claimed")
  /\ UNCHANGED <<handle, keeper, interrupted, executed, checkpoint, answered>>

\* The keeper starts and execute() is entered with no transaction open.
Execute(p) ==
  /\ At(p, "claimed")
  /\ Goto(p, "executing")
  /\ keeper' = [keeper EXCEPT ![p] = TRUE]
  /\ executed' = [executed EXCEPT ![handle[p].job] = @ + 1]
  /\ UNCHANGED <<vars, handle, interrupted, checkpoint, answered>>

\* execute() returned a result object.
Return(p) ==
  /\ At(p, "executing")
  /\ Goto(p, "executed")
  /\ UNCHANGED <<vars, handle, keeper, interrupted, executed, checkpoint, answered>>

\* Not interrupted, inputs and binding still valid, lease renewed; then the
\* result is put into the content-addressed store.
Confirm(p, m) ==
  LET j == handle[p].job IN
  /\ At(p, "executed")
  /\ ~interrupted[p]
  /\ BindingCurrent(j)
  /\ Heartbeat(p, j, handle[p].fence, m)
  /\ Goto(p, "confirmed")
  /\ UNCHANGED <<handle, keeper, interrupted, executed, checkpoint, answered>>

\* One transaction: assert_bound_job_current, register_artifact,
\* record_checkpoint.  It does not look at the lease.
WriteCheckpoint(p) ==
  LET j == handle[p].job IN
  /\ At(p, "confirmed")
  /\ BindingCurrent(j)
  /\ checkpoint' = [checkpoint EXCEPT ![j] = @ + 1]
  /\ Goto(p, "checkpointed")
  /\ UNCHANGED <<vars, handle, keeper, interrupted, executed, answered>>

\* The keeper stopped in time and unharmed; the lease is renewed once more.
Seal(p, m) ==
  /\ At(p, "checkpointed")
  /\ ~interrupted[p]
  /\ Heartbeat(p, handle[p].job, handle[p].fence, m)
  /\ Goto(p, "sealed")
  /\ keeper' = [keeper EXCEPT ![p] = FALSE]
  /\ UNCHANGED <<handle, interrupted, executed, checkpoint, answered>>

\* Mutant: the receipt is written before the checkpoint.
ReceiptFirst(p) ==
  /\ pc[p] \in {"confirmed", "sealed"} /\ p \in alive
  /\ RecordReceipt(handle[p].job, "completed")
  /\ Goto(p, "receipted")
  /\ UNCHANGED <<handle, keeper, interrupted, executed, checkpoint, answered>>

Receipt(p) ==
  /\ At(p, "sealed")
  /\ RecordReceipt(handle[p].job, "completed")
  /\ Goto(p, "receipted")
  /\ UNCHANGED <<handle, keeper, interrupted, executed, checkpoint, answered>>

Finish(p, m) ==
  /\ At(p, "receipted")
  /\ FinishTerminal(p, handle[p].job, handle[p].fence, "completed", m)
  /\ Goto(p, "finished")
  /\ UNCHANGED <<handle, keeper, interrupted, executed, checkpoint, answered>>

\* The caller reads its own result back before it returns it.
ReadBack(p) ==
  /\ At(p, "finished")
  /\ Replayable(handle[p].job)
  /\ answered' = answered \cup {handle[p].job}
  /\ Goto(p, "idle")
  /\ UNCHANGED <<vars, handle, keeper, interrupted, executed, checkpoint>>

-----------------------------------------------------------------------------
(* Exceptions and the keeper *)

\* Before the try block a raise ends the call; the lease, if there is one, is
\* left to the sweep.
RaiseEarly(p) ==
  /\ p \in alive
  /\ pc[p] \in {"dispatched", "enqueued", "leased", "claimed"}
  /\ Goto(p, "idle")
  /\ UNCHANGED <<vars, handle, keeper, interrupted, executed, checkpoint, answered>>

RaiseGuarded(p) ==
  /\ p \in alive
  /\ pc[p] \in Guarded
  /\ Goto(p, "caught")
  /\ UNCHANGED <<vars, handle, keeper, interrupted, executed, checkpoint, answered>>

\* The handler: an effect without a receipt gets the receipt "unknown".
Handle(p) ==
  /\ At(p, "caught")
  /\ RecordReceipt(handle[p].job, "unknown")
  /\ Goto(p, "ambiguous")
  /\ UNCHANGED <<handle, keeper, interrupted, executed, checkpoint, answered>>

HandleFinish(p, m) ==
  /\ At(p, "ambiguous")
  /\ FinishRecovery(p, handle[p].job, handle[p].fence, m)
  /\ Goto(p, "idle")
  /\ keeper' = [keeper EXCEPT ![p] = FALSE]
  /\ UNCHANGED <<handle, interrupted, executed, checkpoint, answered>>

\* The handler finds a receipt, or one of its own calls raises.
HandleRaise(p) ==
  /\ p \in alive
  /\ pc[p] \in {"caught", "ambiguous"}
  /\ Goto(p, "idle")
  /\ UNCHANGED <<vars, handle, keeper, interrupted, executed, checkpoint, answered>>

\* Every 15 seconds: validate_dispatch_binding, then the renewal.  One renewal
\* may still be in flight when the join at the end of the call has timed out.
KeeperRenews(p, m) ==
  /\ keeper[p]
  /\ ~interrupted[p]
  /\ BindingCurrent(handle[p].job)
  /\ Heartbeat(p, handle[p].job, handle[p].fence, m)
  /\ keeper' = [keeper EXCEPT ![p] = pc[p] # "idle"]
  /\ UNCHANGED <<pc, handle, interrupted, executed, checkpoint, answered>>

\* The keeper's binding check or renewal raised, or the caller cancelled.
Interrupt(p) ==
  /\ p \in alive
  /\ pc[p] \in {"dispatched", "enqueued"} \/ keeper[p]
  /\ interrupted' = [interrupted EXCEPT ![p] = TRUE]
  /\ interrupted' # interrupted
  /\ UNCHANGED <<vars, pc, handle, keeper, executed, checkpoint, answered>>

-----------------------------------------------------------------------------
(* The rest of the system *)

Recovery ==
  /\ \/ ProbeOrphans
     \/ RecoverOrphans(now) \/ AbandonOrphans(now)
     \/ \E m \in Moments : RecoverExpired(m)
     \/ \E k \in Effects, o \in {"completed", "failed"} : ResolveEffect(k, o)
     \/ \E j \in Jobs : ReconcileRecovery(j)
  /\ UNCHANGED callVars

Environment ==
  /\ \/ \E C \in SUBSET Bound : AuthorityChange(C)
     \/ (Tick \/ \E p \in Workers : Die(p)) /\ UNCHANGED storeVars
  /\ UNCHANGED callVars

CanonicalInit ==
  /\ Init
  /\ pc = [p \in Workers |-> "idle"]
  /\ handle = [p \in Workers |-> None]
  /\ keeper = [p \in Workers |-> FALSE]
  /\ interrupted = [p \in Workers |-> FALSE]
  /\ executed = [j \in Jobs |-> 0]
  /\ checkpoint = [j \in Jobs |-> 0]
  /\ answered = {}

CallStep(p) ==
  \/ \E j \in Jobs : Dispatch(p, j) \/ Replay(p, j)
  \/ \E q \in Requests : EnqueueNew(p, q)
  \/ EnqueueExisting(p) \/ Execute(p) \/ Return(p) \/ WriteCheckpoint(p) \/ Receipt(p) \/ ReadBack(p)
  \/ RaiseEarly(p) \/ RaiseGuarded(p) \/ Handle(p) \/ HandleRaise(p) \/ Interrupt(p)
  \/ \E m \in Moments :
       \/ TakeLease(p, m) \/ ClaimTheEffect(p, m) \/ Confirm(p, m) \/ Seal(p, m)
       \/ Finish(p, m) \/ HandleFinish(p, m) \/ KeeperRenews(p, m)

CanonicalNext == (\E p \in Workers : CallStep(p)) \/ Recovery \/ Environment

CanonicalSpec == CanonicalInit /\ [][CanonicalNext]_canonicalVars

-----------------------------------------------------------------------------
(* Properties *)

\* execute() runs at most once for a key, whoever calls, dies, retries or
\* replays, and only behind the stored claim ("Persist claim before effect").
ExecutedAtMostOnce ==
  \A j \in Jobs : executed[j] <= 1 /\ (executed[j] = 1 => claim[j] # None)

\* A completed receipt is preceded by exactly one checkpoint of the job and its
\* artifact, over every crash, late sweep and second caller; no handler writes a
\* verdict of its own ("Never label the external effect as failed").
ReceiptHasProof ==
  \A j \in Jobs :
    /\ receipt[j] = "completed" => checkpoint[j] = 1 /\ executed[j] = 1
    /\ receipt[j] # "failed"
    /\ checkpoint[j] <= executed[j]

\* A result was handed out only of a job that completed by its own receipt, and
\* stays readable from then on: replays can neither vanish nor be invented.
AnswerIsProved ==
  \A j \in answered :
    state[j] = "completed" /\ TerminalIsReceipt(j) /\ checkpoint[j] = 1 /\ executed[j] = 1

\* run_canonical_job as its callers see it: one execution, a receipt that its
\* checkpoint and artifact prove, and answers read from such receipts only.
EffectIsProven == ExecutedAtMostOnce /\ ReceiptHasProof /\ AnswerIsProved

\* "A completed exact replay reads CAS": a job that completed by a completed
\* receipt can be replayed.  The sweep that completes a job whose caller died
\* between the receipt and finish stores another terminal evidence.
CompletedReceiptReplays ==
  \A j \in Jobs : state[j] = "completed" /\ receipt[j] = "completed" => Replayable(j)

\* "reconcile" settles "only orphan and expired leases": the lease of a caller
\* that lives and renews it is not swept.  ProbeOrphans takes it for an orphan.
LiveCallerKeepsLease ==
  [][\A j \in Jobs :
       lease[j] # None /\ lease'[j] = None /\ now < lease[j].expires /\ lease[j].owner \in alive =>
         callVars' # callVars]_canonicalVars
=============================================================================
