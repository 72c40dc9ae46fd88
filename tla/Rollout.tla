------------------------------ MODULE Rollout ------------------------------
(***************************************************************************)
(* The standing-grant rollout: AuthorizedRolloutRuntime                    *)
(* (application/rollout_runtime.py) over three databases that share no     *)
(* transaction:                                                            *)
(*   - the authority ledger (infrastructure/sqlite/evolution_authority.py):*)
(*     grants, reservations, effect claims, terminals;                     *)
(*   - the worker's rollout state (infrastructure/rollout_process_worker): *)
(*     the active selector, the evidence of each plan, recovery            *)
(*     transitions;                                                        *)
(*   - the improvement ledger (infrastructure/sqlite/local_improvement.py):*)
(*     prepared receipts, settlements, recovery receipts.                  *)
(*                                                                         *)
(* A plan stands for the rollout plan together with the run plan, the      *)
(* reservation and the one-shot authorization bound to it by digest.  All  *)
(* plans use one pointer.  A runtime is one process: its execution lock    *)
(* allows one execute_reserved at a time, and the recovery calls do not    *)
(* take that lock.                                                         *)
(***************************************************************************)
EXTENDS Integers, FiniteSets

CONSTANTS
  Runtimes,      \* processes that hold an AuthorizedRolloutRuntime
  Plans,         \* rollout plans with their reservations
  Plan,          \* Plan[p]: stage, candidate, artifact, lkg, revision, cost
  Initial,       \* the artifact bootstrap_rollout_fixture selects
  Edits,         \* artifacts another writer may put into the selector
  MaxRevision,   \* revisions of the one standing grant
  Budget,        \* the grant's amount (duration, disk: one counted amount)
  Concurrency,   \* the grant's concurrency
  MaxFaults,     \* bound: crashes and failed calls
  None

ASSUME RolloutAssumption ==
  /\ IsFiniteSet(Plans)
  /\ MaxRevision \in Nat /\ Budget \in Nat /\ Concurrency \in Nat /\ MaxFaults \in Nat
  /\ \A p \in Plans :
       /\ Plan[p].stage \in {"shadow", "canary", "activation", "rollback"}
       /\ Plan[p].revision \in 1..MaxRevision
       /\ Plan[p].cost \in Nat \ {0}

\* None is no status: a row that is absent differs from every row.
ASSUME RolloutSentinel == None \notin {"completed", "recovery-required", "kept", "reversed"}

VARIABLES
  revision,   \* latest registered revision of the grant, 0 before the first
  revoked,    \* revisions in evolution_grant_revocation
  reserved,   \* plans in evolution_child_reservation
  claimed,    \* plans in evolution_child_effect_claim
  terminal,   \* row of evolution_child_terminal, or None
  selector,   \* artifact of the active selector
  evidence,   \* status of the plan's rollout_evidence row, or None
  recovery,   \* the plan's recovery_transition: None, "kept" or "reversed"
  pending,    \* plans in typed_rollout_pending
  settled,    \* plans in typed_rollout_execution
  recovered,  \* plans in typed_rollout_recovery
  run,        \* the execute_reserved call of each runtime, or None
  rec,        \* the recovery call of each runtime, or None
  faults      \* crashes and failed calls so far

ledgerVars == <<revision, revoked, reserved, claimed, terminal>>
workerVars == <<selector, evidence, recovery>>
improvementVars == <<pending, settled, recovered>>
vars == <<ledgerVars, workerVars, improvementVars, run, rec, faults>>

Artifacts == {Initial} \cup Edits \cup {Plan[p].artifact : p \in Plans} \cup {Plan[p].lkg : p \in Plans}

Terminals == [status : {"completed", "failed"}, by : {"readback", "recovery"}, used : Nat]

Calls == [plan : Plans, at : {"checked", "claimed", "current", "executed", "verified",
                              "prepared", "terminal"}, accepted : BOOLEAN]

Recoveries == [plan : Plans, at : {"loaded", "asserted", "reversed", "failed", "finalize"},
               by : {"readback", "recovery"}]

RolloutTypeOK ==
  /\ revision \in 0..MaxRevision
  /\ revoked \subseteq 1..revision
  /\ claimed \subseteq reserved /\ reserved \subseteq Plans
  /\ terminal \in [Plans -> Terminals \cup {None}]
  /\ selector \in Artifacts
  /\ evidence \in [Plans -> {"completed", "recovery-required", None}]
  /\ recovery \in [Plans -> {"kept", "reversed", None}]
  /\ pending \subseteq Plans /\ settled \subseteq pending /\ recovered \subseteq Plans
  /\ run \in [Runtimes -> Calls \cup {None}]
  /\ rec \in [Runtimes -> Recoveries \cup {None}]
  /\ faults \in 0..MaxFaults

Init ==
  /\ revision = 0 /\ revoked = {} /\ reserved = {} /\ claimed = {}
  /\ terminal = [p \in Plans |-> None]
  /\ selector = Initial
  /\ evidence = [p \in Plans |-> None]
  /\ recovery = [p \in Plans |-> None]
  /\ pending = {} /\ settled = {} /\ recovered = {}
  /\ run = [r \in Runtimes |-> None]
  /\ rec = [r \in Runtimes |-> None]
  /\ faults = 0

-----------------------------------------------------------------------------
(* The authority ledger.                                                   *)

\* _assert_current_grant: the latest revision, not revoked.
CurrentGrant(p) == Plan[p].revision = revision /\ revision \notin revoked

Terminated(p) == terminal[p] # None

\* _assert_remaining_budget: a plan with a terminal counts what it used, every
\* other reservation, of any revision of the grant, all that it reserved.
Charge(p) == IF Terminated(p) THEN terminal[p].used ELSE Plan[p].cost

\* The sum of the charges of S, as the number of the units they charge.
ChargedUnits(S) == UNION {{p} \X (1..Charge(p)) : p \in S}

Charged(S) == Cardinality(ChargedUnits(S))

InFlight == {p \in reserved : ~Terminated(p)}

RegisterGrant ==
  /\ revision < MaxRevision
  /\ revision' = revision + 1
  /\ UNCHANGED <<revoked, reserved, claimed, terminal, workerVars, improvementVars, run, rec, faults>>

Revoke(v) ==
  /\ v \in (1..revision) \ revoked
  /\ revoked' = revoked \cup {v}
  /\ UNCHANGED <<revision, reserved, claimed, terminal, workerVars, improvementVars, run, rec, faults>>

\* Mutant: a reservation counts only from its claim on.
AffordableOnceClaimed(p) ==
  /\ Charged(claimed) + Plan[p].cost <= Budget
  /\ Cardinality(InFlight \cap claimed) + 1 <= Concurrency

Affordable(p) ==
  /\ Charged(reserved) + Plan[p].cost <= Budget
  /\ Cardinality(InFlight) + 1 <= Concurrency

\* reserve_child; a replay with the same key changes nothing.
ReserveChild(p) ==
  /\ p \notin reserved
  /\ CurrentGrant(p)
  /\ Affordable(p)
  /\ reserved' = reserved \cup {p}
  /\ UNCHANGED <<revision, revoked, claimed, terminal, workerVars, improvementVars, run, rec, faults>>

-----------------------------------------------------------------------------
(* The worker's state.                                                     *)

\* RolloutPlan.__post_init__: a rollback starts at the candidate, every other
\* stage at the last known good artifact.
ExpectedBefore(p) == IF Plan[p].stage = "rollback" THEN Plan[p].artifact ELSE Plan[p].lkg

ExpectedAfter(p) ==
  CASE Plan[p].stage = "rollback" -> Plan[p].lkg
    [] Plan[p].stage = "activation" -> Plan[p].artifact
    [] OTHER -> ExpectedBefore(p)

\* rollout_recovery_status: evidence with neither a recovery transition nor a
\* settlement.
Unsettled == {p \in Plans : evidence[p] # None /\ recovery[p] = None /\ p \notin settled}

\* Another writer changes the selector (external).
Edit(a) ==
  /\ a \in Edits /\ selector # a
  /\ selector' = a
  /\ UNCHANGED <<ledgerVars, evidence, recovery, improvementVars, run, rec, faults>>

-----------------------------------------------------------------------------
(* execute_reserved.  A step whose checks fail raises: the call ends.      *)

Executing(r, place) == run[r] # None /\ run[r].at = place
Advance(r, place) == run' = [run EXCEPT ![r].at = place]
Raise(r) == run' = [run EXCEPT ![r] = None]

\* Taking the lock and _executor.recovery_status.
CheckStatus(r, p) ==
  /\ run[r] = None
  /\ p \in reserved
  /\ Unsettled = {}
  /\ run' = [run EXCEPT ![r] = [plan |-> p, at |-> "checked", accepted |-> FALSE]]
  /\ UNCHANGED <<ledgerVars, workerVars, improvementVars, rec, faults>>

ClaimEffect(r) ==
  /\ Executing(r, "checked")
  /\ LET p == run[r].plan
     IN  \/ /\ CurrentGrant(p) /\ p \notin claimed
            /\ claimed' = claimed \cup {p}
            /\ Advance(r, "claimed")
         \/ /\ ~(CurrentGrant(p) /\ p \notin claimed)
            /\ Raise(r)
            /\ UNCHANGED claimed
  /\ UNCHANGED <<revision, revoked, reserved, terminal, workerVars, improvementVars, rec, faults>>

AssertEffectCurrent(r) ==
  /\ Executing(r, "claimed")
  /\ IF CurrentGrant(run[r].plan) THEN Advance(r, "current") ELSE Raise(r)
  /\ UNCHANGED <<ledgerVars, workerVars, improvementVars, rec, faults>>

\* _run_plan: intent, selector, evidence and transition in one transaction of
\* the executor process.
RunPlan(r) ==
  /\ Executing(r, "current")
  /\ LET p == run[r].plan
         expected == selector = ExpectedBefore(p)
     IN  IF evidence[p] # None
         THEN Raise(r) /\ UNCHANGED <<selector, evidence>>
         ELSE /\ evidence' = [evidence EXCEPT ![p] = IF expected THEN "completed" ELSE "recovery-required"]
              /\ selector' = IF expected THEN ExpectedAfter(p) ELSE selector
              /\ Advance(r, "executed")
  /\ UNCHANGED <<ledgerVars, recovery, improvementVars, rec, faults>>

\* _verify_plan: an exception in the verifier is a rejection, so any evidence
\* may be rejected.
Verify(r) ==
  /\ Executing(r, "executed")
  /\ LET p == run[r].plan
     IN  \E ok \in BOOLEAN :
           /\ ok => evidence[p] = "completed" /\ selector = ExpectedAfter(p)
           /\ run' = [run EXCEPT ![r].at = "verified", ![r].accepted = ok]
  /\ UNCHANGED <<ledgerVars, workerVars, improvementVars, rec, faults>>

\* The stages that record_typed_rollout requires settled for the candidate.
Required(p) ==
  CASE Plan[p].stage = "shadow" -> {}
    [] Plan[p].stage = "canary" -> {"shadow"}
    [] Plan[p].stage = "activation" -> {"shadow", "canary"}
    [] Plan[p].stage = "rollback" -> {"activation"}

StageSettled(candidate, stage) ==
  \E q \in settled : Plan[q].candidate = candidate /\ Plan[q].stage = stage

InOrder(p) == \A s \in Required(p) : StageSettled(Plan[p].candidate, s)

\* record_typed_rollout with prepare_only.
Prepare(r) ==
  /\ Executing(r, "verified")
  /\ LET p == run[r].plan
         ok == (evidence[p] = "completed" => run[r].accepted) /\ InOrder(p)
     IN  \/ ok /\ pending' = pending \cup {p} /\ Advance(r, "prepared")
         \/ ~ok /\ Raise(r) /\ UNCHANGED pending
  /\ UNCHANGED <<ledgerVars, workerVars, settled, recovered, rec, faults>>

\* record_terminal: the usage is at least one second and at most what was
\* reserved; the terminal is inserted once.
RecordTerminal(r) ==
  /\ Executing(r, "prepared")
  /\ LET p == run[r].plan
     IN  \/ /\ ~Terminated(p)
            /\ \E u \in 1..Plan[p].cost :
                 terminal' = [terminal EXCEPT ![p] =
                   [status |-> IF run[r].accepted THEN "completed" ELSE "failed",
                    by |-> "readback", used |-> u]]
            /\ Advance(r, "terminal")
         \/ Terminated(p) /\ Raise(r) /\ UNCHANGED terminal
  /\ UNCHANGED <<revision, revoked, reserved, claimed, workerVars, improvementVars, rec, faults>>

\* Mutant: any terminal is accepted as the settlement's proof.
TerminalPresent(p) == Terminated(p)

\* finalize_prepared_typed_rollout: needs the prepared receipt and
\* assert_terminal_settlement; unique(candidate_digest,stage) refuses a second
\* settlement of a stage.
TerminalCompleted(p) == Terminated(p) /\ terminal[p].status = "completed" /\ terminal[p].by = "readback"

TakenStage(p) ==
  \E q \in settled \ {p} : Plan[q].candidate = Plan[p].candidate /\ Plan[q].stage = Plan[p].stage

Finalized(p) ==
  settled' = IF p \in pending /\ TerminalCompleted(p) /\ ~TakenStage(p) THEN settled \cup {p} ELSE settled

FinalizePrepared(r) ==
  /\ Executing(r, "terminal")
  /\ Finalized(run[r].plan)
  /\ Raise(r)
  /\ UNCHANGED <<ledgerVars, workerVars, pending, recovered, rec, faults>>

-----------------------------------------------------------------------------
(* recover_from_durable and recover_unsettled_activation.                  *)

Recovering(r, place) == rec[r] # None /\ rec[r].at = place
ContinueRecovery(r, place) == rec' = [rec EXCEPT ![r].at = place]
EndRecovery(r) == rec' = [rec EXCEPT ![r] = None]

EnterRecovery(r, p, place, by) ==
  rec' = [rec EXCEPT ![r] = [plan |-> p, at |-> place, by |-> by]]

\* Mutant: only a run whose receipt was prepared is recovered.
RecoverPrepared(r, p) ==
  /\ rec[r] = None
  /\ p \in claimed \cap pending
  /\ \/ /\ ~Terminated(p) /\ EnterRecovery(r, p, "loaded", "recovery")
     \/ /\ Terminated(p) /\ terminal[p].status = "failed"
        /\ EnterRecovery(r, p, "failed", terminal[p].by)
     \/ /\ Terminated(p) /\ terminal[p].status = "completed"
        /\ EnterRecovery(r, p, "finalize", "readback")
  /\ UNCHANGED <<ledgerVars, workerVars, improvementVars, run, faults>>

\* load_claimed, claimed_terminal and load_rollout_plan: a completed terminal is
\* finalized, a failed one recorded, without a terminal the stage is recovered.
RecoverFromDurable(r, p) ==
  /\ rec[r] = None
  /\ p \in claimed
  /\ \/ /\ ~Terminated(p) /\ evidence[p] # None
        /\ EnterRecovery(r, p, "loaded", "recovery")
     \/ /\ Terminated(p) /\ terminal[p].status = "failed" /\ evidence[p] # None
        /\ EnterRecovery(r, p, "failed", terminal[p].by)
     \/ /\ Terminated(p) /\ terminal[p].status = "completed"
        /\ EnterRecovery(r, p, "finalize", "readback")
  /\ UNCHANGED <<ledgerVars, workerVars, improvementVars, run, faults>>

\* recover_unsettled_activation called with the caller's own plan objects.
RecoverUnsettled(r, p) ==
  /\ rec[r] = None
  /\ p \in claimed
  /\ EnterRecovery(r, p, "loaded", "recovery")
  /\ UNCHANGED <<ledgerVars, workerVars, improvementVars, run, faults>>

\* assert_claimed_recovery.
AssertClaimedRecovery(r) ==
  /\ Recovering(r, "loaded")
  /\ LET p == rec[r].plan
     IN  IF Terminated(p) /\ terminal[p].status # "failed"
         THEN EndRecovery(r)
         ELSE ContinueRecovery(r, "asserted")
  /\ UNCHANGED <<ledgerVars, workerVars, improvementVars, run, faults>>

\* Mutant: the selector goes back whatever the stage was.
Restored(p) == ExpectedBefore(p)

\* The artifact that recovery leaves selected: only an activation is undone.
RecoveryAfter(p) == IF Plan[p].stage = "activation" THEN ExpectedBefore(p) ELSE ExpectedAfter(p)

\* recover_unsettled_activation of the worker: one transition per plan; the
\* selector must hold what the stage leaves, and an activation is reversed.
Reverse(r) ==
  /\ Recovering(r, "asserted")
  /\ LET p == rec[r].plan
     IN  \/ /\ recovery[p] # None
            /\ ContinueRecovery(r, "reversed")
            /\ UNCHANGED <<selector, recovery>>
         \/ /\ recovery[p] = None /\ evidence[p] # None /\ selector = ExpectedAfter(p)
            /\ recovery' = [recovery EXCEPT ![p] = IF Plan[p].stage = "activation" THEN "reversed" ELSE "kept"]
            /\ selector' = RecoveryAfter(p)
            /\ ContinueRecovery(r, "reversed")
         \/ /\ recovery[p] = None /\ ~(evidence[p] # None /\ selector = ExpectedAfter(p))
            /\ EndRecovery(r)
            /\ UNCHANGED <<selector, recovery>>
  /\ UNCHANGED <<ledgerVars, evidence, improvementVars, run, faults>>

\* record_recovery_terminal: failed, with no usage.
RecordRecoveryTerminal(r) ==
  /\ Recovering(r, "reversed")
  /\ LET p == rec[r].plan
         mine == [status |-> "failed", by |-> "recovery", used |-> 0]
     IN  IF terminal[p] \in {None, mine}
         THEN terminal' = [terminal EXCEPT ![p] = mine] /\ ContinueRecovery(r, "failed")
         ELSE EndRecovery(r) /\ UNCHANGED terminal
  /\ UNCHANGED <<revision, revoked, reserved, claimed, workerVars, improvementVars, run, faults>>

\* record_typed_rollout_recovery behind assert_recovery_terminal.
RecordRecovery(r) ==
  /\ Recovering(r, "failed")
  /\ LET p == rec[r].plan
         proven == Terminated(p) /\ terminal[p].status = "failed" /\ terminal[p].by = rec[r].by
     IN  recovered' = IF proven THEN recovered \cup {p} ELSE recovered
  /\ EndRecovery(r)
  /\ UNCHANGED <<ledgerVars, workerVars, pending, settled, run, faults>>

RecoverFinalize(r) ==
  /\ Recovering(r, "finalize")
  /\ Finalized(rec[r].plan)
  /\ EndRecovery(r)
  /\ UNCHANGED <<ledgerVars, workerVars, pending, recovered, run, faults>>

-----------------------------------------------------------------------------
(* Faults: a process dies with both its calls, or one call raises.         *)

Crash(r) ==
  /\ run[r] # None \/ rec[r] # None
  /\ run' = [run EXCEPT ![r] = None]
  /\ rec' = [rec EXCEPT ![r] = None]

FailCall(r) ==
  \/ run[r] # None /\ run' = [run EXCEPT ![r] = None] /\ UNCHANGED rec
  \/ rec[r] # None /\ rec' = [rec EXCEPT ![r] = None] /\ UNCHANGED run

Fault(r) ==
  /\ faults < MaxFaults
  /\ faults' = faults + 1
  /\ Crash(r) \/ FailCall(r)
  /\ UNCHANGED <<ledgerVars, workerVars, improvementVars>>

Execute(r) ==
  ClaimEffect(r) \/ AssertEffectCurrent(r) \/ RunPlan(r) \/ Verify(r)
    \/ Prepare(r) \/ RecordTerminal(r) \/ FinalizePrepared(r)

Recover(r) ==
  AssertClaimedRecovery(r) \/ Reverse(r) \/ RecordRecoveryTerminal(r)
    \/ RecordRecovery(r) \/ RecoverFinalize(r)

Next ==
  \/ RegisterGrant
  \/ \E v \in 1..MaxRevision : Revoke(v)
  \/ \E a \in Edits : Edit(a)
  \/ \E p \in Plans : ReserveChild(p)
  \/ \E r \in Runtimes : Execute(r) \/ Recover(r) \/ Fault(r)
  \/ \E r \in Runtimes, p \in Plans : CheckStatus(r, p) \/ RecoverFromDurable(r, p) \/ RecoverUnsettled(r, p)

Spec == Init /\ [][Next]_vars

\* A call goes on until it returns or raises, and the owner repeats the recovery
\* of a plan that left evidence; nobody has to start anything new.
Fairness ==
  /\ \A r \in Runtimes : WF_vars(Execute(r)) /\ WF_vars(Recover(r))
  /\ \A p \in Plans : SF_vars(evidence[p] # None /\ \E r \in Runtimes : RecoverFromDurable(r, p))

FairSpec == Spec /\ Fairness

-----------------------------------------------------------------------------
(* Properties.                                                             *)

\* A settlement is proven in the other ledgers: whatever was recovered, crashed or
\* run in between, a settled stage completed under its claim, its terminal says
\* so, no recovery receipt exists for it, and the stages before it are settled for
\* the same candidate.  The worker's recovery transition is not among the proofs:
\* finalize_prepared_typed_rollout never reads it, and a settled activation may
\* have been reversed (CompletedIsNotReversed, below).
SettledIsProven ==
  \A p \in settled :
    /\ p \in claimed /\ p \notin recovered
    /\ evidence[p] = "completed"
    /\ Terminated(p) /\ terminal[p].status = "completed"
    /\ InOrder(p)

\* What the reservations of the grant may still use, with what the terminated
\* ones used, never exceeds the grant, over all its revisions and after every
\* failed or recovered run.
BudgetHolds == Charged(reserved) <= Budget /\ Cardinality(InFlight) <= Concurrency

\* One runtime never leaves the evidence of two plans unsettled: the next stage
\* waits until the interrupted one is settled or recovered.
OneUnsettled == Cardinality(Unsettled) <= 1

\* An artifact is selected only while its activation stands: claimed, acted, not
\* reversed, not recovered, and not rolled back.
StandsWhileSelected ==
  \A p \in Plans :
    Plan[p].stage = "activation" /\ selector = Plan[p].artifact
    => /\ p \in claimed /\ evidence[p] = "completed"
       /\ recovery[p] = None /\ p \notin recovered
       /\ \A q \in Plans : Plan[q].stage = "rollback" => evidence[q] # "completed"

\* An activation that acted is selected until the worker's own rows say who took
\* it back, or another writer did.
TakenBackOnRecord ==
  \A p \in Plans :
    Plan[p].stage = "activation" /\ evidence[p] = "completed" /\ selector # Plan[p].artifact
    => \/ recovery[p] = "reversed"
       \/ \E q \in Plans : Plan[q].stage = "rollback" /\ evidence[q] = "completed"
       \/ selector \in Edits

\* With one activation plan, the selector of the worker agrees with the worker's
\* rows and the two ledgers, both ways: no crash, late step or repeated recovery
\* selects a candidate that was taken back, and a settled candidate is lost only to
\* a reversal, a rollback or another writer.  The reversal may be of an activation
\* that then settles (CompletedIsNotReversed, below, is what the runbook says).
SelectedIsAccounted == StandsWhileSelected /\ TakenBackOnRecord

\* A stage whose effect happened is closed: settled, or recovered, however the
\* process that ran it ended, unless another writer moved the selector, which
\* every recovery then refuses.
EvidenceCloses ==
  \A p \in Plans :
    (evidence[p] = "completed") ~> (p \in settled \cup recovered \/ selector \in Edits)

\* docs/OTONOM_EVOLUTION_RUNBOOK.md:95: with a completed terminal the prepared
\* settlement is finalized and the pointer is not touched.
CompletedIsNotReversed ==
  \A p \in Plans : recovery[p] = "reversed" => ~(Terminated(p) /\ terminal[p].status = "completed")

\* application/rollout_runtime.py:282: recovery restores only an activation whose
\* settlement was interrupted, so it reverses only what its own plan did.
RecoveryReversesOwnEffect ==
  \A p \in Plans : recovery[p] = "reversed" => evidence[p] = "completed"

\* docs/OTONOM_EVOLUTION_RUNBOOK.md:92: the order is shadow, canary, activation,
\* rollback, so an activation acts only after shadow and canary are settled.
ActivationAfterCanary ==
  \A p \in Plans : Plan[p].stage = "activation" /\ evidence[p] = "completed" => InOrder(p)

\* docs/OTONOM_EVOLUTION_RUNBOOK.md:95: a completed terminal is finalized, so
\* finalizing it is never refused for good.
CompletedCanFinalize ==
  \A p \in Plans : Terminated(p) /\ terminal[p].status = "completed" => ~TakenStage(p)

\* docs/OTONOM_EVOLUTION_RUNBOOK.md:101: a finalized or recovered record does not
\* count as pending.
RecoveredIsNotPending == recovered \cap Unsettled = {}

=============================================================================
