---------------------------- MODULE SessionClose ----------------------------
(***************************************************************************)
(* The end of one session: its event chain, context manifests and          *)
(* checkpoints (infrastructure/sqlite/local_continuity.py), the frozen     *)
(* close request (infrastructure/sqlite/local_continuity_close.py) and the *)
(* LocalCloseService that compiles, repairs, delivers and finalises it     *)
(* (application/local_continuity_close.py), over the triggers of           *)
(* continuity_schema.py.                                                   *)
(*                                                                         *)
(* The jobs of the session are rows of the local runtime store.  Each has  *)
(* one attempt and one effect claim, so their part of LocalRuntime.tla is  *)
(* kept as one record per job.  The service calls of one process are       *)
(* several transactions with file writes between them; the process may     *)
(* die, or pause past its lease, at every one of these points.             *)
(***************************************************************************)
EXTENDS Naturals, FiniteSets

CONSTANTS
  None,          \* no close request, no job in hand
  Procs,         \* processes that run jobs and deliver the close event
  Notes,         \* projections that the close compiles
  MaxEvents,     \* bound: session events
  MaxManifests,  \* bound: hydrations
  MaxFaults      \* bound: deaths, pauses, failed deliveries, foreign files, wrong verdicts

VARIABLES
  status,      \* session.status
  tail,        \* session_event_detail: the last sequence
  manifest,    \* hydration_receipt: the number of the latest context manifest
  checkpoint,  \* continuity_checkpoint: covered sequence and manifest
  closeReq,    \* continuity_close_request, one per session
  job,         \* the session's local_job rows with lease, claim, receipt, case
  event,       \* local_outbox rows of those jobs: state of the delivery
  note,        \* knowledge_note row and file of each projection
  proc,        \* where each process is in compile_once, repair, deliver_once
  faults       \* faults so far

sessionVars == <<status, tail, manifest, checkpoint, closeReq>>
vars == <<sessionVars, job, event, note, proc, faults>>

\* "work" is any job that an adapter queued for the session, "close" the one
\* that freeze inserts, "repair" the one that prepare_repair inserts.
Jobs == {"work", "close", "repair"}
Tags == {"enqueued", "ended", "reconciled"}
Compile == <<"close", "continuity.compile">>
Events == (Jobs \X Tags) \cup {Compile}

Points == {"idle", "claimed", "bind", "beat", "write", "verified", "finish",
           "unknown", "giveUp", "resolve", "reconcile", "deliver"}
Covered == [covered : 1..MaxEvents, manifest : 1..MaxManifests]
\* outcome: the human's or complete_repair's resolution.  "exact" and "other"
\* are both "completed", on the expected evidence digest or on another one.
\* sealed: the receipt that the terminal evidence of reconcile_recovery digests.
Job == [state : {"absent", "ready", "running", "recovery-required", "completed", "failed"},
        lease : {"none", "held", "orphan"},
        claim : BOOLEAN, bound : BOOLEAN,
        receipt : {"none", "completed", "unknown"},
        case : {"none", "open", "resolved"},
        outcome : {"none", "exact", "other", "failed"},
        sealed : {"none", "no receipt", "completed", "unknown"}]
DeliveryStates == {"none", "pending", "claimed", "delivered", "other", "failed", "unknown"}

ASSUME CloseBounds == MaxEvents \in Nat /\ MaxManifests \in Nat /\ MaxFaults \in Nat

NewJob == [state |-> "ready", lease |-> "none", claim |-> FALSE, bound |-> FALSE,
           receipt |-> "none", case |-> "none", outcome |-> "none", sealed |-> "none"]
Idle == [at |-> "idle", job |-> None, left |-> {}]
Fault == faults < MaxFaults /\ faults' = faults + 1

-----------------------------------------------------------------------------
(* Pending work, the reason to refuse a checkpoint, a freeze and the end *)

\* The claim's receipt is missing or unknown and no resolution stands for it.
PendingEffect(j) ==
  /\ job[j].claim
  /\ job[j].receipt # "completed"
  /\ job[j].outcome = "none"

\* "other" is a delivery that a human resolved on some other evidence.
Settled(e) == event[e] \in {"none", "delivered", "other"}

NoPending ==
  /\ \A j \in Jobs :
       /\ job[j].state \notin {"ready", "running", "recovery-required"}
       /\ ~PendingEffect(j)
       /\ job[j].case # "open"
  /\ \A e \in Events : Settled(e)

-----------------------------------------------------------------------------
(* The session: append_event, hydrate, checkpoint, freeze *)

\* Mutant: an event is appended to a session that closes.
AppendEventLate ==
  /\ status # "closed"
  /\ tail < MaxEvents
  /\ tail' = tail + 1
  /\ UNCHANGED <<status, manifest, checkpoint, closeReq, job, event, note, proc, faults>>

AppendEvent ==
  /\ status = "open"
  /\ tail < MaxEvents
  /\ tail' = tail + 1
  /\ UNCHANGED <<status, manifest, checkpoint, closeReq, job, event, note, proc, faults>>

Hydrate ==
  /\ status = "open"
  /\ NoPending
  /\ manifest < MaxManifests
  /\ manifest' = manifest + 1
  /\ UNCHANGED <<status, tail, checkpoint, closeReq, job, event, note, proc, faults>>

\* The caller names any manifest of the session.
Checkpoint(m) ==
  /\ status = "open"
  /\ tail > 0
  /\ NoPending
  /\ checkpoint' = checkpoint \cup {[covered |-> tail, manifest |-> m]}
  /\ UNCHANGED <<status, tail, manifest, closeReq, job, event, note, proc, faults>>

\* An adapter queues a job for the session; continuity_closed_job_guard
\* refuses it once the session closes.
Enqueue ==
  /\ status = "open"
  /\ job["work"].state = "absent"
  /\ job' = [job EXCEPT !["work"] = NewJob]
  /\ event' = [event EXCEPT ![<<"work", "enqueued">>] = "pending"]
  /\ UNCHANGED <<sessionVars, note, proc, faults>>

\* _checkpoint_evidence: nothing was added since the checkpoint.
Current(c) == c.covered = tail /\ c.manifest = manifest

\* What freeze inserts: the request, the job with its enqueued event, the close
\* event, the session's new status.
Frozen(c) ==
  /\ status = "open"
  /\ Current(c)
  /\ closeReq' = c
  /\ status' = "closing"
  /\ job' = [job EXCEPT !["close"] = NewJob]
  /\ event' = [event EXCEPT ![<<"close", "enqueued">>] = "pending", ![Compile] = "pending"]
  /\ UNCHANGED <<tail, manifest, checkpoint, note, proc, faults>>

Freeze(c) == c \in checkpoint /\ NoPending /\ Frozen(c)

\* _load of the frozen request; a drift of its evidence raises.
Loads == closeReq # None /\ Current(closeReq)

\* The state that _load reports.
CloseState ==
  CASE status = "closed" -> "complete"
    [] status = "closing" /\ (job["close"].state \in {"failed", "recovery-required"}
                               \/ event[Compile] \in {"failed", "unknown"}) -> "recovery-required"
    [] OTHER -> "pending"

\* _notes: every projection is materialised, row and file.
NotesMaterialized == \A n \in Notes : note[n] = "ready"

-----------------------------------------------------------------------------
(* Running a job: claim_next, claim_effect, bind_effect, the writes, the receipt *)

At(p, point) == proc[p].at = point
GoTo(p, point) == proc' = [proc EXCEPT ![p].at = point]
Raises(p) == proc' = [proc EXCEPT ![p] = Idle]

\* continuity_local_lease_admission and continuity_local_effect_claim_admission
Admitted(j) == status = "open" \/ (status = "closing" /\ j # "work")

\* compile_once, repair_generated_candidates or a worker takes its exact job.
Claim(p, j) ==
  /\ At(p, "idle")
  /\ j # "work" => Loads
  /\ Admitted(j)
  /\ job[j].state = "ready"
  /\ job' = [job EXCEPT ![j].state = "running", ![j].lease = "held"]
  /\ proc' = [proc EXCEPT ![p] = [at |-> "claimed", job |-> j, left |-> Notes]]
  /\ UNCHANGED <<sessionVars, event, note, faults>>

\* claim_effect is outside the try block: if the lease is gone it just raises.
ClaimEffect(p) ==
  LET j == proc[p].job IN
  /\ At(p, "claimed")
  /\ IF job[j].lease = "held" /\ Admitted(j)
     THEN job' = [job EXCEPT ![j].claim = TRUE]
          /\ GoTo(p, IF j = "work" THEN "verified" ELSE "bind")
     ELSE Raises(p) /\ UNCHANGED job
  /\ UNCHANGED <<sessionVars, event, note, faults>>

\* continuity_effect_scope_guard wants the lease row of the claim.
BindEffect(p) ==
  LET j == proc[p].job IN
  /\ At(p, "bind")
  /\ IF job[j].lease = "held"
     THEN job' = [job EXCEPT ![j].bound = TRUE] /\ GoTo(p, "beat")
     ELSE GoTo(p, "unknown") /\ UNCHANGED job
  /\ UNCHANGED <<sessionVars, event, note, faults>>

\* The heartbeat and the reload before each projection; after the last one the
\* files are verified.
Beat(p) ==
  LET j == proc[p].job IN
  /\ At(p, "beat")
  /\ GoTo(p, CASE proc[p].left = {} /\ NotesMaterialized -> "verified"
               [] proc[p].left # {} /\ job[j].lease = "held" /\ Loads -> "write"
               [] OTHER -> "unknown")
  /\ UNCHANGED <<sessionVars, job, event, note, faults>>

\* materialize_note: pending row, file, confirmed row.  It never replaces a
\* file of somebody else.
Materialize(p, n) ==
  /\ At(p, "write")
  /\ n \in proc[p].left
  /\ IF note[n] = "foreign"
     THEN GoTo(p, "unknown") /\ UNCHANGED note
     ELSE /\ note' = [note EXCEPT ![n] = "ready"]
          /\ proc' = [proc EXCEPT ![p].at = "beat", ![p].left = @ \ {n}]
  /\ UNCHANGED <<sessionVars, job, event, faults>>

\* An error of the file system, the probe or the verifier.
WriteFails(p) ==
  /\ proc[p].at \in {"beat", "write"} \/ (At(p, "verified") /\ proc[p].job = "work")
  /\ Fault
  /\ GoTo(p, "unknown")
  /\ UNCHANGED <<sessionVars, job, event, note>>

\* record_receipt needs no lease; an unknown receipt collides with the case
\* that a sweep has opened.
Receipt(p) ==
  LET j == proc[p].job IN
  /\ \/ /\ At(p, "verified")
        /\ job' = [job EXCEPT ![j].receipt = "completed"]
        /\ GoTo(p, "finish")
     \/ /\ At(p, "unknown")
        /\ IF job[j].case = "none"
           THEN job' = [job EXCEPT ![j].receipt = "unknown", ![j].case = "open"]
                /\ GoTo(p, "giveUp")
           ELSE Raises(p) /\ UNCHANGED job
  /\ UNCHANGED <<sessionVars, event, note, faults>>

Ends(j, s) ==
  /\ job' = [job EXCEPT ![j].state = s, ![j].lease = "none"]
  /\ event' = [event EXCEPT ![<<j, "ended">>] = "pending"]

\* The case of an unknown receipt is still open, and a claim without a receipt
\* has none yet; otherwise finish or the sweep raises and changes nothing.
CaseAdmissible(j) == job[j].case = IF job[j].receipt = "unknown" THEN "open" ELSE "none"

\* finish(recovery-required) is refused while a delivery of the job has an open
\* case, too: its case tuple is compared with the effect cases only.
GiveUpAdmissible(j) == CaseAdmissible(j) /\ \A e \in Events : e[1] = j => event[e] # "unknown"

\* finish; the repair goes on to complete_repair.  A refused call raises and leaves
\* a lease that nobody renews.
Finish(p) ==
  LET j == proc[p].job IN
  /\ proc[p].at \in {"finish", "giveUp"}
  /\ CASE job[j].lease # "held" -> UNCHANGED <<job, event>>
       [] job[j].lease = "held" /\ (At(p, "finish") \/ GiveUpAdmissible(j)) ->
            Ends(j, IF At(p, "finish") THEN "completed" ELSE "recovery-required")
       [] OTHER -> job' = [job EXCEPT ![j].lease = "orphan"] /\ UNCHANGED event
  /\ IF At(p, "finish") /\ j = "repair" /\ job[j].lease = "held"
     THEN GoTo(p, "resolve") ELSE Raises(p)
  /\ UNCHANGED <<sessionVars, note, faults>>

\* The sweep of a lease that ran out or whose process died.
SweepState(j) ==
  IF ~job[j].claim THEN "failed"
  ELSE IF job[j].receipt = "completed" THEN "completed" ELSE "recovery-required"

Swept(j) ==
  /\ SweepState(j) = "recovery-required" => CaseAdmissible(j)
  /\ job' = [job EXCEPT ![j].state = SweepState(j), ![j].lease = "none",
                        ![j].case = IF SweepState(j) = "recovery-required" THEN "open" ELSE @]
  /\ event' = [event EXCEPT ![<<j, "ended">>] = "pending"]
  /\ UNCHANGED <<sessionVars, note, proc>>

RecoverOrphan(j) == job[j].lease = "orphan" /\ Swept(j) /\ UNCHANGED faults
RecoverExpired(j) == job[j].lease = "held" /\ Fault /\ Swept(j)

\* A process dies: its lease stays until it is swept, a delivery it claimed is
\* found unknown by recover_outbox.
Die(p) ==
  /\ ~At(p, "idle")
  /\ Fault
  /\ Raises(p)
  /\ job' = IF proc[p].at \notin {"resolve", "reconcile", "deliver"} /\ job[proc[p].job].lease = "held"
            THEN [job EXCEPT ![proc[p].job].lease = "orphan"] ELSE job
  /\ event' = IF At(p, "deliver") /\ event[Compile] = "claimed"
              THEN [event EXCEPT ![Compile] = "unknown"] ELSE event
  /\ UNCHANGED <<sessionVars, note>>

-----------------------------------------------------------------------------
(* Recovery: the human's verdicts, prepare_repair and complete_repair *)

Resolve(j, o) ==
  /\ job[j].case = "open"
  /\ job[j].receipt = "completed" => o # "failed"
  /\ job' = [job EXCEPT ![j].case = "resolved", ![j].outcome = o]

\* The verdict of an operator, who may give another digest as evidence.
ResolveByHand(j, o) ==
  /\ Resolve(j, o)
  /\ IF o = "other" THEN Fault ELSE UNCHANGED faults
  /\ UNCHANGED <<sessionVars, event, note, proc>>

Reconciled(j) ==
  /\ job' = [job EXCEPT
               ![j].state = IF job[j].outcome = "failed" THEN "failed" ELSE "completed",
               ![j].sealed = IF job[j].receipt = "none" THEN "no receipt" ELSE job[j].receipt]
  /\ event' = [event EXCEPT ![<<j, "reconciled">>] = "pending"]

Reconcile(j) ==
  /\ job[j].state = "recovery-required"
  /\ job[j].case = "resolved"
  /\ Reconciled(j)
  /\ UNCHANGED <<sessionVars, note, proc, faults>>

\* Mutant: the repair waits until the job has failed.
RepairableFailed == Loads /\ job["close"].state = "failed" /\ job["close"].case = "open"

\* Only a close whose own effect is unknown is repaired, and only once.
Repairable == Loads /\ job["close"].state = "recovery-required" /\ job["close"].case = "open"

PrepareRepair ==
  /\ Repairable
  /\ job["repair"].state = "absent"
  /\ job' = [job EXCEPT !["repair"] = NewJob]
  /\ event' = [event EXCEPT ![<<"repair", "enqueued">>] = "pending"]
  /\ UNCHANGED <<sessionVars, note, proc, faults>>

\* _terminal_effect: the job is completed on the exact evidence, by its receipt
\* or by a resolution, its effect is bound to the session, and the terminal
\* evidence is that of the receipt that is stored now.
TerminalEffect(j) ==
  /\ job[j].state = "completed"
  /\ job[j].claim /\ job[j].bound
  /\ job[j].receipt = "completed" \/ (job[j].case = "resolved" /\ job[j].outcome = "exact")
  /\ job[j].sealed = "none" \/ job[j].sealed = job[j].receipt
       \/ (job[j].sealed = "no receipt" /\ job[j].receipt = "none")

RepairDone == TerminalEffect("repair") /\ NotesMaterialized /\ job["close"].state = "recovery-required"
RepairFailed == job["repair"].state \in {"failed", "completed"} /\ ~TerminalEffect("repair")

\* repair_generated_candidates whose repair job is done already.
CompleteRepair(p) ==
  /\ At(p, "idle")
  /\ job["repair"].state \notin {"absent", "ready"}
  /\ proc' = [proc EXCEPT ![p] = [Idle EXCEPT !.at = "resolve", !.job = "repair"]]
  /\ UNCHANGED <<sessionVars, job, event, note, faults>>

\* complete_repair, first half: what the repair wrote resolves the case of the
\* original effect; an equal resolution is a replay, another one raises.
ResolveByRepair(p) ==
  /\ At(p, "resolve")
  /\ \/ /\ Loads /\ TerminalEffect("repair") /\ NotesMaterialized
        /\ \/ Resolve("close", "exact")
           \/ job["close"].outcome = "exact" /\ UNCHANGED job
        /\ GoTo(p, "reconcile")
     \/ /\ ~(Loads /\ TerminalEffect("repair") /\ NotesMaterialized
              /\ (job["close"].case = "open" \/ job["close"].outcome = "exact"))
        /\ Raises(p)
        /\ UNCHANGED job
  /\ UNCHANGED <<sessionVars, event, note, faults>>

\* complete_repair, second half, in a transaction of its own.
ReconcileByRepair(p) ==
  /\ At(p, "reconcile")
  /\ Raises(p)
  /\ IF job["close"].state = "recovery-required" THEN Reconciled("close")
     ELSE UNCHANGED <<job, event>>
  /\ UNCHANGED <<sessionVars, note, faults>>

-----------------------------------------------------------------------------
(* Delivery and the end: deliver_once, reconcile_delivery, finalize *)

\* claim_outbox with require_completed_job
ClaimDelivery(p) ==
  /\ At(p, "idle")
  /\ Loads
  /\ event[Compile] = "pending"
  /\ job["close"].state = "completed"
  /\ event' = [event EXCEPT ![Compile] = "claimed"]
  /\ proc' = [proc EXCEPT ![p] = [Idle EXCEPT !.at = "deliver", !.job = "close"]]
  /\ UNCHANGED <<sessionVars, job, note, faults>>

\* verify_compiled and the file verifier decide between delivered and unknown.
Compiled == Loads /\ TerminalEffect("close") /\ NotesMaterialized

Deliver(p) ==
  /\ At(p, "deliver")
  /\ event' = [event EXCEPT ![Compile] = IF Compiled THEN "delivered" ELSE "unknown"]
  /\ Raises(p)
  /\ UNCHANGED <<sessionVars, job, note, faults>>

\* "unknown" is settled by reconcile_delivery on the exact evidence.
ReconcileDelivery ==
  /\ event[Compile] = "unknown"
  /\ Compiled
  /\ event' = [event EXCEPT ![Compile] = "delivered"]
  /\ UNCHANGED <<sessionVars, job, note, proc, faults>>

\* PublisherTick.tla delivers the other events of the session's jobs.
Publish(e) ==
  /\ e # Compile
  /\ event[e] = "pending"
  /\ \/ event' = [event EXCEPT ![e] = "delivered"] /\ UNCHANGED faults
     \/ \E s \in {"failed", "unknown"} : Fault /\ event' = [event EXCEPT ![e] = s]
  /\ UNCHANGED <<sessionVars, job, note, proc>>

\* The verdict of an operator on an unknown delivery.
ResolveDelivery(e, s) ==
  /\ event[e] = "unknown"
  /\ IF s = "delivered" THEN e # Compile /\ UNCHANGED faults ELSE Fault
  /\ event' = [event EXCEPT ![e] = s]
  /\ UNCHANGED <<sessionVars, job, note, proc>>

\* Mutant: the delivery is taken for the whole evidence.
FinalizeDelivered ==
  /\ status = "closing"
  /\ event[Compile] = "delivered"
  /\ status' = "closed"
  /\ UNCHANGED <<tail, manifest, checkpoint, closeReq, job, event, note, proc, faults>>

Finalize ==
  /\ status = "closing"
  /\ Compiled
  /\ NoPending
  /\ event[Compile] = "delivered"
  /\ status' = "closed"
  /\ UNCHANGED <<tail, manifest, checkpoint, closeReq, job, event, note, proc, faults>>

\* Somebody else writes a file under the name of a projection.
ForeignFile(n) ==
  /\ Fault
  /\ note' = [note EXCEPT ![n] = "foreign"]
  /\ UNCHANGED <<sessionVars, job, event, proc>>

-----------------------------------------------------------------------------
Init ==
  /\ status = "open" /\ tail = 0 /\ manifest = 0
  /\ checkpoint = {} /\ closeReq = None
  /\ job = [j \in Jobs |-> [NewJob EXCEPT !.state = "absent"]]
  /\ event = [e \in Events |-> "none"]
  /\ note = [n \in Notes |-> "none"]
  /\ proc = [p \in Procs |-> Idle]
  /\ faults = 0

\* A process goes on with the call it is in.
Continue(p) ==
  \/ ClaimEffect(p) \/ BindEffect(p) \/ Beat(p) \/ (\E n \in Notes : Materialize(p, n))
  \/ Receipt(p) \/ Finish(p)
  \/ ResolveByRepair(p) \/ ReconcileByRepair(p)
  \/ Deliver(p)

\* Some process enters a call.
Enter(p) == (\E j \in Jobs : Claim(p, j)) \/ CompleteRepair(p) \/ ClaimDelivery(p)

Operator ==
  \/ \E j \in Jobs : (\E o \in {"exact", "other", "failed"} : ResolveByHand(j, o)) \/ Reconcile(j)
  \/ PrepareRepair
  \/ ReconcileDelivery
  \/ \E e \in Events, s \in {"delivered", "other", "failed"} : ResolveDelivery(e, s)

Next ==
  \/ AppendEvent \/ Hydrate \/ Enqueue
  \/ \E m \in 1..manifest : Checkpoint(m)
  \/ \E c \in checkpoint : Freeze(c)
  \/ \E p \in Procs : Enter(p) \/ Continue(p) \/ WriteFails(p) \/ Die(p)
  \/ \E j \in Jobs : RecoverOrphan(j) \/ RecoverExpired(j)
  \/ \E e \in Events : Publish(e)
  \/ Operator
  \/ Finalize
  \/ \E n \in Notes : ForeignFile(n)

Spec == Init /\ [][Next]_vars

\* Processes finish the calls they are in, and come back to every call that is
\* possible again and again; the sweep and the publisher go on; an operator
\* answers every open case, repairs and reconciles.  Nothing is assumed of new
\* events, of faults or of what the operator's verdict is.
Fairness ==
  /\ \A p \in Procs : WF_vars(Continue(p))
  /\ SF_vars(\E p \in Procs : CompleteRepair(p) /\ RepairDone)
  /\ SF_vars(\E p \in Procs : ClaimDelivery(p))
  /\ \A j \in Jobs : SF_vars(\E p \in Procs : Claim(p, j))
  /\ \A j \in Jobs : WF_vars(RecoverOrphan(j)) /\ WF_vars(Reconcile(j))
  /\ \A e \in Events : WF_vars(Publish(e)) /\ WF_vars(ResolveDelivery(e, "delivered"))
  /\ WF_vars(PrepareRepair)
  /\ WF_vars(RepairFailed /\ \E o \in {"exact", "failed"} : ResolveByHand("close", o))
  /\ WF_vars(\E o \in {"exact", "failed"} : ResolveByHand("repair", o))
  /\ WF_vars(ReconcileDelivery)
  /\ WF_vars(Finalize)

FairSpec == Spec /\ Fairness

-----------------------------------------------------------------------------
(* Properties *)

\* The columns and program points have values of their declared domains.
CloseTypeOK ==
  /\ status \in {"open", "closing", "closed"}
  /\ tail \in 0..MaxEvents /\ manifest \in 0..MaxManifests
  /\ checkpoint \subseteq Covered
  /\ closeReq \in Covered \cup {None}
  /\ job \in [Jobs -> Job]
  /\ event \in [Events -> DeliveryStates]
  /\ note \in [Notes -> {"none", "ready", "foreign"}]
  /\ proc \in [Procs -> [at : Points, job : Jobs \cup {None}, left : SUBSET Notes]]
  /\ faults \in 0..MaxFaults

\* A closed session is proven closed and stays so: its close job completed on
\* an effect, every projection was written, no job, case or delivery of it is
\* open, whatever a paused process or an operator still does.
ClosedIsProven ==
  status = "closed" =>
    /\ closeReq # None
    /\ job["close"].state = "completed" /\ job["close"].claim /\ job["close"].bound
    /\ "none" \notin {note[n] : n \in Notes}
    /\ event[Compile] = "delivered"
    /\ NoPending

\* The checkpoint that freeze admitted covers the whole session for ever: no
\* event and no context is added behind it, which every later _load refuses.
RequestStaysCurrent == closeReq # None => Current(closeReq)

\* While a session closes nothing but its own close and repair runs for it.
OnlyTheCloseRuns ==
  status # "open" =>
    /\ job["work"].state \notin {"ready", "running", "recovery-required"}
    /\ ~PendingEffect("work")
    /\ job["work"].lease = "none"

\* A frozen session is quiet (freeze, _no_pending, the session guards of
\* the job and event tables): what it froze stays the whole session.
FrozenIsQuiet == RequestStaysCurrent /\ OnlyTheCloseRuns

\* The case was resolved while the job still ran: finish and every sweep raise
\* from then on, so the job stays running for ever.
Wedged(j) == job[j].state = "running" /\ job[j].case = "resolved"

\* What makes a close impossible for good: refused by design, a wedged job, or
\* a case that RecoveryRequiredHasCase or ClosedStaysReadable below is about.
Lost ==
  \/ \E j \in Jobs : Wedged(j)
  \/ job["close"].state = "failed"
  \/ job["close"].lease = "none" /\ job["close"].claim /\ ~job["close"].bound
  \/ job["close"].outcome = "other"
  \/ job["close"].state = "completed" /\ ~TerminalEffect("close")
  \/ job["close"].state = "completed" /\ ~NotesMaterialized
  \/ "foreign" \in {note[n] : n \in Notes}
  \/ \E e \in Events : event[e] = "failed"
  \/ event[Compile] = "other"

\* Every frozen session is closed in the end, by the compile, by the repair or
\* by a verdict, unless one of the named obstacles arose.
ClosesUnlessLost == status = "closing" ~> (status = "closed" \/ Lost)

\* "Required close state": what _load reports is pending, complete or
\* recovery-required; a close reported recovery-required has a recovery case,
\* its effect's or its delivery's, through which it can be recovered.
RecoveryRequiredHasCase ==
  CloseState = "recovery-required" =>
    job["close"].case # "none" \/ event[Compile] \in {"unknown", "other", "failed"}

\* "test_complete_close_is_durable_candidate_only_and_replay_exact": a closed
\* session can be loaded again, so that finalize replays its receipt.
ClosedStaysReadable == status = "closed" => TerminalEffect("close")
=============================================================================
