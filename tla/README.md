# A TLA+ model of Zekam's durable core

Zekam is a local knowledge and task platform: one Python package over SQLite
files and small JSON files, used by several short-lived processes (coding CLIs,
hooks, worker ticks) that die at any line. This directory models the parts whose
correctness depends on the order of steps of several such processes:

- the **local runtime**: a job queue with leases, fencing tokens, resource locks,
  effect claims and receipts, recovery cases that a human settles, a
  transactional outbox, and the worker and publisher ticks that use it;
- the **authority rows** beside it (Works, dependencies, Runs, configurations)
  and the bindings that decide whether a job may start;
- the protocols built on both: **canonical jobs**, **git publication**, the
  **client lifecycle spool**, the **session close**, the **rollout** of a
  candidate, the **unit-test loop**.

Paths below are relative to `src/src/zekam/`.

## 1. Inventory

### 1.1 Modelled

| Part | State | Operations | What makes it correct |
|---|---|---|---|
| Job queue, `infrastructure/sqlite/local_runtime.py` | `local_job`, `local_lease`, `local_resource_lock`, `local_scheduler_slot` | `enqueue`, `schedule_once`, `claim_next`, `heartbeat`, `finish`, `quarantine`, `recover_expired`, `recover_orphans` | locks and leases live and die together; an owner the probe recognises is not swept before its time; a job with a committed effect is never retried; ends are final |
| Effects and recovery, same file and `local_runtime_recovery_tx.py` | `local_effect_claim`, `local_effect_receipt`, `local_recovery_case`, `local_recovery_resolution` | `claim_effect`, `record_receipt`, `resolve_recovery`, `reconcile_recovery` | an unknown outcome has a case until a human settles it; completion is justified |
| Outbox, same file | `local_outbox`, `local_outbox_delivery`, `local_outbox_receipt` | `_emit_outbox`, `claim_outbox`, `heartbeat_outbox`, `record_outbox_receipt`, `recover_outbox` | announces exactly what happened, bounded, settled only on evidence |
| Worker tick, `application/local_runtime_service.py` | locals of `run_worker_once`, the `_LeaseKeeper` thread | `startup`, `run_worker_once` | an effect starts at most once, no success is invented, an expired lease is swept |
| Publisher tick, same file | locals of `publish_outbox_once`, `claim_box`, the keeper thread | `startup_outbox`, `publish_outbox_once` | an event is sent at most once, a dead publisher's claim comes back |
| Operational store, `infrastructure/sqlite/operational_store.py`, `work_dependency_schema.py` | `work_item`, `work_dependency_event`, `config_revision`, `run`, `run_step`, `checkpoint` | create, transition, change dependency, activate, add step, checkpoint | no cycle, nothing overtakes its dependencies, history is not rewritten |
| Job bindings, `local_job_binding.py` | `local_job_binding` | admission at enqueue, currency at lease and claim | no effect ahead of its prerequisites, retired authority stays retired |
| Canonical job runtime, `application/canonical_job_runtime.py` | locals of a call, its keeper thread, checkpoint and artifact | `run_canonical_job`, `replay_canonical_job` | one execution per key, answers only from proven receipts |
| Git publication, `application/git_publication.py`, `infrastructure/sqlite/git_publication.py`, `infrastructure/git/publication.py` | authorizations, revocations, consumptions | `apply`, `record_authorization`, `revoke`, `consume`, push, readback | one push per authorization, none of a withdrawn one, reported as it was |
| Client lifecycle spool, `application/client_lifecycle_spool.py` | ten kinds of files under one lock | `stage`, `pending`, `replay_pending`, `record_attempt`, `record_predecessor_manual_review`, `acknowledge` | files agree after any crash, acknowledgement is proof, staged events are resolved |
| Session close, `application/local_continuity_close.py`, `infrastructure/sqlite/local_continuity*.py`, `continuity_schema.py` | event chain, manifests, checkpoints, close request, its jobs and deliveries | append, hydrate, checkpoint, `freeze`, `compile_once`, repair, `deliver_once`, `finalize` | a closed session is proven closed, a frozen one is quiet, a close comes to an end |
| Rollout, `application/rollout_runtime.py`, `infrastructure/sqlite/evolution_authority.py`, `rollout_process_worker.py`, `local_improvement.py` | grant, reservations, claims, terminals; selector, evidence, recovery transitions; prepared, settled, recovered rows | `execute_reserved`, `recover_from_durable`, `recover_unsettled_activation` | three ledgers agree, the selector is accounted for, the budget holds |
| Unit-test loop, `application/unit_test_loop.py`, `unit_test_loop_state.py`, `infrastructure/sqlite/unit_test_loop.py` | attempts, receipts, terminals, the saved `LoopState`, files of the user's tree | a session from `execute` to its terminal, pause, cancel, resume | each attempt is accounted for, what the user left can be recovered, a success is measured, sessions end |

**Interaction.** Processes share the SQLite file, the spool directory or the source
tree and nothing else. Each public method of a store is one `begin immediate`
transaction, so the unit of interleaving is a method call; for the spool it is one
file written under `writer.lock`, and for the rollout one commit in one of three
databases. Everything a process does *between* two such steps (run an effect, push,
call an agent, renew in a thread, die, stall) interleaves freely with the others.

**Hard behaviour.** Death at any line; a lease that runs out while its effect still
runs; a keeper thread that outlives the tick's judgement; receipts that arrive after
the sweep, the verdict or the reconciliation; sweeps of several jobs of which one
cannot be recovered; a full outbox; moments read before waiting for the write lock;
authority that changes between enqueue, lease and claim; files of which some are
written; a recovery running beside the execution it recovers; edits of the user
under a patch. `PROJECT.json` lists forty such hazards at their lines, each with the
properties that would catch it, and a note where a part of it stays with the
disagreements of section 4.

### 1.2 Not modelled, and why

| Component | Why |
|---|---|
| Agent run scheduler and worker (`application/worker.py`, `domain/scheduler.py`), measured loops and loop control (`loop_control.py`), legacy Work graph and run reconciliation | historical services: their state lives behind `legacy_repository` (retired PostgreSQL repositories) or behind a port that no SQLite adapter implements, so the transactions to model are not part of the running system |
| Skill lifecycle (`infrastructure/sqlite/skill_lifecycle.py`) | revisions, reviews and activations in the learning database, written while a transaction of the operational one is held; left for a later module |
| Learning and memory, improvement experiments | append-only records behind validation of their content, one transaction per call and no interleaving of their own; the daily slot reaches the queue through `schedule_once`, the rollout tables are part of `Rollout` |
| Continuity v4 writer, manifests and projections | rendering of documents; `SessionClose` keeps when they are written and whether they are theirs |
| Knowledge, retrieval and code graph, project RAG; model routing, benchmarks, providers; research and radar | ranking, scoring, parsing and network calls: numeric and textual, outside what TLC can say anything about |
| Object store, backup, migration | file and schema work inside one exclusive transaction |
| Native measurement, refactor service, Maven runner, agent gateway of the unit-test loop | external tools: their answers are free choices of `UnitTestLoop` |
| Canonical JSON, digests, signatures | a digest is modelled as the identity of what it names |
| Hooks, MCP servers, CLI, doctor | transport and formatting; the `resolve` command is part of `WorkerTick` |
| Registrations of the operational store (projects, aliases, snapshots, models), trust registry and evidence intake of git publication | insert-only rows nobody changes later |

The repository has some 305,000 lines of implementation, most of them in the second
half of this table (and in `legacy-preserved/`, a copy of retired code). The mapped
share is therefore small: these modules stand for the stateful protocols, where an
order of steps can be wrong, and the rest is mostly computation over text.

## 2. Modules

| Module | Models | Uses |
|---|---|---|
| `LocalOutbox` | clock, process incarnations, outbox rows and their deliveries | – |
| `LocalRuntime` | the whole runtime store for arbitrary callers | extends `LocalOutbox` |
| `JobPromise` | abstract specification: what a submitter is promised | instantiated by `LocalRuntime` |
| `WorkerTick`, `PublisherTick` | the two ticks with keeper threads, startup, human | extend `LocalRuntime` |
| `OperationalStore` | Work, dependency history, configurations, Runs, steps, checkpoints | – |
| `BoundJobs` | both stores in one file with the binding bridge between them | extends `LocalRuntime`, instantiates `OperationalStore` |
| `CanonicalJob` | calls of `run_canonical_job` beside sweeps and a human | extends `LocalRuntime` |
| `GitPublication` | a publication as the `execute()` of a canonical job | extends `CanonicalJob` |
| `ClientSpool` | the spool file by file, hooks and drainers | – |
| `SessionClose` | one session from its first event to its end | – |
| `Rollout` | a rollout over its three databases | – |
| `UnitTestLoop` | sessions of one request over ledger and source tree | – |
| `LocalRuntimeProofs` | proofs about the runtime store and its outbox | extends `LocalRuntime`, `TLAPS` |
| `WorkerTickProofs`, `GitPublicationProofs` | proofs about the worker tick, the canonical job and the publication | extend their module and `LocalRuntimeProofs` |
| `OperationalStoreProofs` | proofs about the authority rows | extends `OperationalStore`, `TLAPS` |
| `StoreUsersProofs` | proofs about both stores together and about the publisher tick | extends `BoundJobs`, `PublisherTick`, `LocalRuntimeProofs`, instantiates `OperationalStoreProofs` |
| `SessionProofs` | proofs about the close of a session and about the spool | extends `SessionClose`, `ClientSpool`, `TLAPS` |
| `RolloutProofs`, `UnitTestLoopProofs` | proofs about the rollout and the unit-test loop | extend their module, `TLAPS` |
| `MC...` | small instances for TLC | extend the above |

`PROJECT.json` maps every definition to its lines. Definitions commented
`Mutant:` are deliberately wrong variants of the definition below them; no
specification uses them, and each is a plausible bug that one property catches.

### 2.1 The local runtime: how state and actions correspond

- A *row* is a function value: `lease[j]` is `None` or the record of job `j`'s
  lease (`local_lease.job_id` is unique), `lock[r]` names the lease by job and
  fencing token, `claim`, `receipt`, `case` and `resolution` are keyed by the
  effect's idempotency key, `delivery` by the outbox event.
- A job that was never enqueued is `"absent"`. The state `cancelled` of the schema
  has no writer in the store and is left out.
- A *method that raises* rolls back and is no step. `AbandonOrphans` is the one
  exception: it forgets the snapshot the method held outside the transaction.
- *Replays* (the same enqueue, claim, receipt or verdict again) return the stored
  row and are stutters.
- A *process* is an incarnation (PID and token); death is final, because a reused
  PID has another token. Workers and the governed publisher lease under the
  incarnation token that the probe of `recover_orphans` and `recover_outbox` reports;
  a canonical caller, and several CLI commands (`interfaces/cli/idea.py:184`,
  `skill.py:209`, `memory.py:206`, `research_runtime.py:708` and others), choose a
  `uuid4`. Those processes are the constant `Foreign`, and `Unrecognised` is what the
  probe takes for an orphan: a dead owner, or a live foreign one.
- *Time.* `now` is the wall clock. A method reads it before waiting for SQLite's
  write lock, so a transaction works with some `m \in Moments`, at most
  `BusyWait` old. The recover methods read it inside and use `now`.
- *Outbox keys.* An event is identified by job, tag, token and kind. `SameKey`
  says which of those are in the idempotency key: the sweep's key includes the
  kind, the others do not, so a second `terminal` event of a job is refused.
- *Sweep.* `Sweep(m, O)` is `_recover` as a whole: expired leases and the snapshot
  `O` of orphans that still exist, the state each job gets, the deleted leases and
  locks, the opened cases, all events, and the ready jobs past their timeout.
  `SweepAdmissible` collects every check that raises, so one bad job blocks the
  sweep of all. `ClaimNext` contains the sweep, as `claim_next` does.
- *Ticks.* In `WorkerTick` and `PublisherTick` each store call, the executor's or
  publisher's start and return, and each renewal of the keeper thread is a step.
  `LoseLease` covers a failed renewal, a thread that would not stop and a refused
  final heartbeat. `renewed` and `box` split the keeper's two writes: the commit
  of a new expiry and the handle in `claim_box`. A renewal may still come after the
  tick ended; it is dropped only once the same process holds its next claim, because
  a process has one handle in the model.
- *Abstracted data.* Payloads, digests, UUIDs and payload filters are left out.
  `claim_next` orders candidates by `available_at, created_at, id`; the model may
  pick any candidate, which covers every order, every operation filter and
  exact-id claims. Whether a bound job is current is a bit that `AuthorityChange`
  flips; `BoundJobs` replaces the bit by the rows it stands for.

### 2.2 The other modules

- **`OperationalStore`.** One action per method; what the caller believes of a row
  (`expected_revision`, `expected_status`) is an argument, so stale callers are
  behaviours. `depEvent` is the append-only dependency history; the current edges
  are derived from it as the view does, and `Reaches` is the recursive query of the
  cycle trigger, written as closure over the finite set of Works.
- **`BoundJobs`.** `Admitted` is the trigger at enqueue, `CurrentTuple` the query the
  lease and the effect claim ask. A step is either a call of the runtime store with
  the binding guards or a call of the operational store, after which `current` is
  recomputed. The job's idempotency key covers its binding, so `Binding` is a constant.
- **`CanonicalJob`.** A job stands for one key; each caller has a program counter
  over the transactions of the call. `Handle` and `HandleFinish` are the exception
  handler, which may itself raise. `Recovery` is the startup of other processes, whose
  probe does not recognise a caller (`Foreign`, see section 4).
- **`GitPublication`.** The phases of `execute()` between two reads of the ledger or
  the repository are the `Steps`; `CanonicalStep` conjoins the conditions the service
  adds to the call. Commits are numbers on one line of history. Other people's
  commits and pushes are actions of the environment.
- **`ClientSpool`.** `disk` maps a file name to its content. A writer takes the lock,
  decides what to write (`todo`) and writes it file by file; a crash drops the rest.
  `Nil` is an absent file, and `Bodies`, `QueueStates`, ... are what the validator of
  each kind of document admits. `StageWrites` is `_stage_locked` with the recovery in
  front of it; `batch` holds the queue positions a drainer selected.
  Readers of `pending` and `replay_pending` do not take the lock, as in the code;
  `Select` reads the queue in one step where `client_lifecycle_spool.py:1062-1107` opens
  one file after the other, which gives an older selection at most, since a resolved
  entry stays resolved. `PageLimit` is `MAX_PENDING_BATCH`: one advance of the cursor
  looks at no more entries. What
  the ledger answers to a delivery is a free choice, `canonical` remembers what it
  committed.
- **`SessionClose`.** The rows of the runtime store that belong to the session's jobs
  are one record per job (each has one attempt and one effect). `GiveUpAdmissible` is
  the refusal of `finish(recovery-required)` while a delivery of the job is unknown
  (`infrastructure/sqlite/local_runtime.py:1101-1107`), which leaves the lease to the
  sweep. `CaseAdmissible` is
  the check that refuses a sweep and `finish` once the case of a running job was
  resolved (the wedge of section 4, `Wedged` here). `Lost` lists what makes a close
  impossible for good: that wedge, and a death in one of the two windows of the single
  attempt, between `claim_next` and `claim_effect` (the sweep ends the job as failed,
  without a case) and between `claim_effect` and `bind_effect` (the repair finds no
  bound effect).
- **`Rollout`.** A call of `execute_reserved` walks through its commits, one action
  each; a recovery of the same runtime may run beside it, because the recovery calls
  do not take the execution lock. One amount stands for the budget dimensions. When a
  process dies between the reversal of the selector and the recovery terminal, the
  status already reads clean, so only the owner's repeated call completes the
  recovery.
- **`UnitTestLoop`.** `pc` follows `_loop`, `_execute_candidate`,
  `_accepted_measurement`, `_try_finalize` and `_stop`; agents' answers, measurements
  and verdicts are free choices. A file's content is absent, the user's, or the ordinal
  of the attempt that wrote it, so "whose content is this" can be asked of any state.
  `theirs` remembers what the user last left, and `attempts[n].under` the user's content
  beneath attempt `n`.
  - `apply` and `revert` of the workspace are two steps each: the digests are compared
    (`Apply`, `Revert`), then the file is replaced whatever it holds (`Write`,
    `Restore`). An edit in between puts the file into `raced`.
  - A proposal may name any file as preimage by the digest it has on disk:
    `_validate_proposal` compares owned files only, and `check_path` refuses only paths
    that git reports. `Preimages` says so; `Reported` are the files whose names `git
    status` and the policy spell alike.
  - A failed measurement is repeated for a diagnosis (`Diagnose`), up to `FlakyRepeats`
    times an attempt and `MaxDiagnostic` times a request.
  - Only the calls of a remote gateway are counted (`Remote`). With a local one the
    limits on elapsed time, output and rejections end a session; they are not modelled,
    so `EverySessionEnds` is checked for the remote one.
  - `LoopTop` compares the sources and the owned files. The code also compares
    `test_tree_digests`, the tests a task does not own; `MavenEnvironmentObserver.observe`
    (`infrastructure/unit_test_runner/loop_adapters.py:121-134`), the observer that is
    shipped, never fills them.

## 3. Runs

| Run | Instance | Shows |
|---|---|---|
| `queue` | 2 jobs, enqueued with 2 attempts and a timeout (one of them bound) or scheduled once without, 2 workers (one foreign), 1 resource, 1 effect, 1 slot, stale moments | `RunningIffLeased`, `LocksBackedByLease`, `ClaimPinsAttempt`, `ReadyHasAttemptsLeft`; `SweepSparesRecognised`: a sweep that acts on an old probe ends only leases that are over or whose owner the probe would still not recognise; `KeepsPromise`: the store implements `JobPromise` |
| `recovery` | 1 job with 2 effects, 1 worker, 1 foreign publisher, outbox of 2 rows | every order of two receipts, sweep, finish, verdicts, reconciliation and deliveries: `AmbiguityRecorded`, `CompletionJustified`, `EndsAreFinal`, `OutboxSound` |
| `worker` | 2 workers (one foreign) with keepers, a good and a malformed job, fair recovery | `EffectAtMostOnce`, `NoInventedSuccess`, `NothingForgotten`; an expired lease is swept unless a case was resolved early |
| `wedge` (violation) | 1 worker, 1 job, fair recovery | the finding of section 4 |
| `publisher` | 2 publishers (one foreign) with keepers, outbox of 2 rows, fair recovery | `SentAtMostOnce`, `NoInventedDelivery`; an expired delivery claim is taken back although the outbox is full |
| `store` | 3 Works and their graph, or 1 Work with a Run of 3 steps | `DependenciesAcyclic`, `DependenciesFirst`, `HistoryIsKept` |
| `bound` | 2 retried jobs, one bound to a step, one to a Work; 2 Works, 2 steps, 2 configurations | `EffectAfterPrerequisites`, `RetiredNeverStarts` |
| `publication` | 2 callers of one publication, 2 commits, expiry, revocation | `PushIsAuthorized`, `PublicationIsTold`, `EffectIsProven` (the promise of `CanonicalJob`, checked where it is used) |
| `spool` | 2 events of one session, 2 drainers, 2 kinds of failure | `SpoolIsConsistent`, `AckIsProof`, `CursorIsResolved`; a staged event is resolved once faults end, unless its attempt was overtaken |
| `close` | 2 processes, 2 events, 2 manifests, 1 projection, 1 fault | `ClosedIsProven`, `FrozenIsQuiet`; a frozen session closes unless `Lost` |
| `rollout` | shadow, canary and activation of a candidate in any order, its rollback under the second revision of the grant, 1 fault | `SettledIsProven`, `SelectedIsAccounted`, `BudgetHolds`; evidence is closed |
| `unit_loop` | 2 sessions, 3 attempts, 1 repeat an attempt, 4 agent calls, 1 scenario, 1 file, absent or the user's | `AttemptsAreAccounted`, `UserContentIsRecoverable`, `SuccessIsMeasured`; a session that is not killed ends |

**Bounds.** `LeaseSeconds = 1`: the code compares moments only with expiries, so one
unit separates "renewed in time", "expires now" and "expired". `MaxTime = 2` lets a
lease be taken, renewed, expire, be retried and expire again. Two attempts per job are
the least that separate "retried" from "exhausted"; two workers, callers, drainers or
publishers the least that let one act on what another took over; two effects the
least that give a job mixed receipts; three Works the least that close a cycle over a
third; three attempts of the loop are a baseline, a candidate and a new baseline after
drift, and four agent calls (plan, build, verify, final verdict) the least that reach a
success with a patch. `MaxPendingOutbox` is small where backpressure is the question
(`queue`, `recovery`, `publisher`) and ample elsewhere: `worker` does not show that an expired
lease is swept while the outbox is full, which is false until a publisher drains it.
`recovery` has one job, so that several events of one sweep and a ready job past its
timeout are with the theorem `OutboxStaysSound` (and `EndsStayFinal`) alone.
`Reported` is empty in `unit_loop`: git then keeps no file from being patched, which
allows more than any other value. The rollout's costs make the budget bind: all four
stages fit only if the shadow used one of its two units.

Eight MC modules bound the combination of cases instead of the cases, so that one
run covers the union of several small instances. `MCWorkerTick`: the second job
comes once a worker has died. `MCOperationalStore`: several Works, or one Work and
its Run. `MCBoundJobs`: steps, the second Work and the second configuration come one
at a time. `MCGitPublication`: source and remote move by few commits together, one
more after the push, and one of the callers lives (a dead caller differs from a
stalled one only for the owner probe, which takes both for orphans).
`MCClientSpool`: the second drainer starts before the first failed attempt is on
file and goes on after it. `MCSessionClose`: the second event or manifest comes after
a checkpoint of the first, without work of the session's own and without a fault.
`MCRollout`: a revocation and a foreign edit come alone, the second revision with a
fault or without; the rollback is reserved once the activation is settled, and shadow
and canary, which have no effect, are recovered from the durable rows only.
`MCUnitTestLoop`: one edit, control or
fault at any point, then edits between two sessions. In the runs with liveness only
steps that nobody has to take are bounded, so a bound never makes a fair action
impossible for ever; in `spool` the fairness is over the bounded drain steps.

**Deadlock** is not checked: clock, jobs, revisions and faults are bounded, and a
system with nothing to do really stops.

**Symmetry** is used only in runs without liveness properties.

**Fairness.**
- `WorkerTick` assumes weak fairness of `RecoverExpired(now)`, `PublisherTick` of
  `StartupOutbox`: `startup` and `startup_outbox` run at every process start and
  `claim_next` sweeps before every selection
  (`application/local_runtime_service.py:253-271`,
  `infrastructure/sqlite/local_runtime.py:766`). Nothing is assumed of workers,
  publishers or humans.
- `ClientSpool`: the owner of the lock writes on, and drainers drain again and again
  (the drain is repeated by every governed worker). The property speaks of behaviours
  in which faults end (`Calm`).
- `SessionClose`: a process finishes the call it is in, calls that stay possible are
  made again, and an operator answers open cases, since a `recovery-required` close
  names the command to use. What the verdict is, is free.
- `Rollout`: a call goes on until it returns or raises, and the owner repeats
  `recover_from_durable` of a plan with evidence, as the runbook
  (`docs/OTONOM_EVOLUTION_RUNBOOK.md`) asks. Nobody has to start anything new.
- `UnitTestLoop`: a session that is not killed goes on. Nobody has to start one.

## 4. Findings

**A verdict given too early stops recovery for every job** (`wedge`). A worker
stores an *unknown* receipt, which opens a case, and dies or is refused before
`finish`. The job still runs. `resolve_recovery` looks at the case only and accepts
a verdict; `reconcile_recovery` then refuses, because the job is not
`recovery-required`. When the lease expires, every sweep finds an unknown receipt
whose case is no longer open and raises "Effect recovery case collision". Since
`claim_next` sweeps too, the queue stops for all jobs. The same sequence of calls
raises that error in the real store. `worker` shows that this is the only way an
expired lease is left behind while the outbox has room.

**Further disagreements met while modelling.** Each of these is stated as a definition
of its module, from the comment, document, test or assertion it quotes, and TLC refutes
it under the unbounded specification of the module on the instance named in brackets
(what is not named is as in the module's run). They are no runs of their own: the runs
show what holds, and the exceptions these cases force on it are part of the
properties (`Overtaken` of the spool, which also covers the verdict on an event behind
a blocked predecessor, `Lost` of the close, `raced` of the unit-test loop), or they are
outside what a property says: `CompletionJustified` speaks of the step to *completed*
and not of a failed receipt after it, `HistoryIsKept` of the row of an ended Run and not
of steps added to it, `SettledIsProven` not of the worker's recovery transition,
`SuccessIsMeasured` not of where a scenario was verified.

- **`LocalRuntime!FailedReceiptNeverCompleted`**
  (`infrastructure/sqlite/local_runtime.py:979`) [1 job, 1 effect, 1 worker].
  record_receipt needs only the exact claim and no receipt, neither a lease nor a
  job that still runs. After a sweep, the verdict "completed" and
  reconcile_recovery, a delayed worker's receipt "failed" is accepted, so a
  completed job has a failed effect receipt. finish refuses exactly that: "Failed
  effect receipt completed job olamaz" (local_runtime.py:1101), and resolve_recovery
  refuses the opposite order: "Recovery resolution terminal receipt ile celisiyor"
  (local_runtime.py:2016).
- **`OperationalStore!SucceededRunStepsSucceeded`**
  (`infrastructure/sqlite/operational_store.py:1083`) [1 Work, 1 Run, 2 steps].
  add_run_step looks only for the existence of the Run, not at its status: a step
  can be added to a Run that already succeeded and then stays pending (or runs).
  transition_run refuses the same state from the other side: "Succeeded Run icin tum
  adimlar basarili olmali" (operational_store.py:1039, all steps of a succeeded Run
  must have succeeded).
- **`CanonicalJob!CompletedReceiptReplays`**
  (`infrastructure/sqlite/local_runtime.py:1403`) [`CanonicalSpec`, 1 caller,
  `MaxTime = 3`]. When the caller dies between its completed receipt and finish, the
  sweep completes the job but stores digest([(status, evidence)]) as
  terminal_evidence_digest, while _completed_result requires the receipt's own
  evidence_digest (canonical_job_runtime.py:65). The job is completed and its result
  can never be read: every call raises "Canonical job replay terminal receipt
  mismatch". The docstring of run_canonical_job says: "A completed exact replay
  reads CAS; other started jobs require recovery" (canonical_job_runtime.py:137).
- **`CanonicalJob!LiveCallerKeepsLease`**
  (`application/canonical_job_runtime.py:192`) [`CanonicalSpec`, 1 caller, `MaxTime
  = 3`]. run_canonical_job leases its job with owner_token = str(uuid4()), but
  recover_orphans compares the lease's owner_token with
  process_incarnation_token(owner_pid) (local_runtime.py:1232-1235), which is
  "psutil-create-time-micros:...". They never match, so the startup of any worker
  and `worker reconcile --uygula` sweep the unexpired lease of a live canonical
  caller. docs/WORKER.md:51-53 says reconcile settles "yalnız mevcut orphan/expired
  lease" (only existing orphan or expired leases), and process_identity.py:8 that
  the token is absent "only for a dead process".
- **`ClientSpool!StagedIsResolved`** (`application/client_lifecycle_spool.py:1295`)
  [`FairSpec`, 1 event, 1 drainer, the failure "rejected"]. record_attempt names an
  attempt by entry, outcome and evidence. When the process dies between the
  completed attempt and its attempt-state, and the next delivery of the entry fails,
  the failure takes the same attempt number; from then on record_attempt(completed)
  finds the old file, returns it without writing a state
  (client_lifecycle_spool.py:1256-1297), and the acknowledgement that follows raises
  "Lifecycle ACK exact completed attempt-state ister" (:1149) out of replay_pending.
  The entry and all entries behind it stay pending although every delivery now
  succeeds. The module says "A separate governed worker may later replay pending
  entries and add an immutable acknowledgement" (:5), and pending() repairs the
  cursor "so the queue cannot remain permanently parked" (:1057).
- **`SessionClose!RecoveryRequiredHasCase`**
  (`application/local_continuity_close.py:589`) [2 processes, 2 projections, 1
  fault]. The close job has one attempt. When the compiler dies or loses its lease
  after claim_next and before claim_effect, the sweep finds no effect and ends the
  job as failed; _load then reports the close as recovery-required
  (local_continuity_close.py:377-381), but there is no recovery case, prepare_repair
  refuses ("Explicit close repair needs exact unknown original effect") and no other
  job of the request is ever inserted, so the session stays closing.
  docs/archive/tasks/ZEKAM-LOCAL-INTELLIGENCE-PLANE-001.md:1256 says "Required close
  state açıkça `pending`, `complete` veya `recovery-required` olur", and its 16.2
  "Outbox item terminal receipt olmadan complete sayılmaz".
- **`SessionClose!ClosedStaysReadable`**
  (`infrastructure/sqlite/local_continuity_close.py:477`) [2 processes, 2
  projections, 2 faults]. record_receipt needs no lease. A compiler that pauses past
  its lease after its last heartbeat is swept; the close is reconciled (by repair or
  by verdict) and finalised; then the compiler records its completed receipt.
  _terminal_effect compares the terminal evidence of the job with a digest that it
  recomputes from the receipt stored now, which no longer matches, so every later
  load, finalize replay or verify of the closed session raises "Close terminal
  effect/recovery evidence drift". tests/unit/test_local_continuity_close.py:104
  calls the close "durable" and "replay_exact"
  (test_complete_close_is_durable_candidate_only_and_replay_exact).
- **`Rollout!CompletedIsNotReversed`** (`application/rollout_runtime.py:292`)
  [shadow, canary and activation, no fault]. recover_unsettled_activation reads the
  terminal (assert_claimed_recovery) in the authority ledger and reverses the
  selector in the worker's database, without the execution lock; an execution of the
  same plan that records its completed terminal in between is settled while its
  activation is reversed, and record_recovery_terminal refuses only afterwards.
  docs/OTONOM_EVOLUTION_RUNBOOK.md:95 says "Completed terminal varsa pointer'a
  dokunulmadan yalniz prepared settlement finalize edilir",
  evolution_authority.py:759 "Completed or unknown evolution terminal cannot be
  reversed".
- **`Rollout!RecoveryReversesOwnEffect`**
  (`infrastructure/rollout_process_worker.py:331`) [shadow, canary and two
  activations, 1 fault]. An activation plan that finds the selector changed leaves
  evidence recovery-required and no effect. If the selector already holds its
  candidate because an earlier activation of the same artifact is settled,
  recovering the second plan compares the selector with that artifact only and sets
  it back to the last known good: the settled activation is undone.
  application/rollout_runtime.py:282 says "Restore only an exact claimed activation
  whose settlement was interrupted."
- **`Rollout!ActivationAfterCanary`** (`application/rollout_runtime.py:231`)
  [shadow, canary and activation, no fault]. Nothing before executor.execute looks
  at the stages already settled; record_typed_rollout checks the order only after
  the worker switched the selector. An activation reserved without shadow and canary
  becomes active and stays so until a recovery. docs/OTONOM_EVOLUTION_RUNBOOK.md:92
  says "Sirasi shadow, local fixture canary, exact-scope activation ve gerekirse
  rollback'tir."
- **`Rollout!CompletedCanFinalize`**
  (`infrastructure/sqlite/local_improvement.py:2984`) [two shadow plans].
  typed_rollout_execution has unique(candidate_digest,stage), which prepare_only
  does not look at. A second plan of a stage already settled for the candidate
  (another fixture or authorization) executes, is prepared and gets its completed
  terminal; finalize_prepared_typed_rollout then raises IntegrityError on every
  attempt, recover_from_durable only repeats it, and rollout_recovery_status stays
  recovery-required, which refuses every later execute_reserved.
  docs/OTONOM_EVOLUTION_RUNBOOK.md:95 says "Completed terminal varsa pointer'a
  dokunulmadan yalniz prepared settlement finalize edilir".
- **`Rollout!RecoveredIsNotPending`** (`application/rollout_runtime.py:325`) [one
  shadow plan, 1 foreign edit]. When the worker found another selector, the verifier
  rejects, the terminal is failed and recover_from_durable writes only the
  improvement ledger's recovery receipt. The worker has no recovery_transition for
  the plan and typed_rollout_plan_digests does not list it, so
  rollout_recovery_status still counts it as pending and refuses every later
  execute_reserved. docs/OTONOM_EVOLUTION_RUNBOOK.md:101 says "Finalized veya
  recovered kayit live pending sayilmaz";
  tests/integration/test_authorized_rollout_runtime.py:383 asserts that the state is
  "clean" after recover_from_durable.
- **`UnitTestLoop!PauseWins`** (`application/unit_test_loop_state.py:94`) [2
  sessions, 2 controls]. With allow_resume LedgerLoopControl.signal ignores every
  USER_PAUSED terminal, also one recorded after the resumed session started, so a
  resumed session cannot be paused. The docstring of _gate
  (application/unit_test_loop.py:357) says "Yeni claim/patch/success oncesi: cancel
  ve pause kazanir.", docs/CANONICAL_INDEX_TEST_BAGLARI.md:53 "Gercek kullanici
  iptali ve durable pause kapilari korunur."
- **`UnitTestLoop!NoAttemptOverLeftover`** (`application/unit_test_loop.py:1216`) [2
  sessions, 1 fault]. An incomplete run leaves its patch on disk with an interrupted
  receipt. If the process dies before the terminal, or the job lost its lease (_stop
  then records the nonfinal recovery-required, unit_test_loop.py:258), the next
  session takes no notice of the patch and claims new attempts over it. The module
  docstring (application/unit_test_loop.py:18) says "Cancel/timeout sonrasi yeni
  attempt baslamaz; patch sahipligi readback ile kanita yazilir."
- **`UnitTestLoop!VerifiedInMeasuredWorld`** (`application/unit_test_loop.py:1580`)
  [1 session, 2 scenarios, 4 attempts, 5 calls, 1 edit]. Drift seen while a
  candidate is judged only sets needs_rebaseline; _loop then measures a new baseline
  before it compares observations, so _invalidate_for_drift is never called and
  scenarios verified against the old sources stay verified. Its docstring
  (application/unit_test_loop.py:490) says "Harici drift: eski dogrulama/basari
  TASINMAZ (M13); yeniden baseline."
- **`UnitTestLoop!UserEditsSurvive`**
  (`infrastructure/unit_test_runner/patch_workspace.py:119`) [1 session, 1 edit].
  apply compares the preimages of all files (107-110) and writes afterwards (116-119),
  revert reads the digest of a file and then replaces or unlinks it (143-157); what the
  user saves in between is overwritten, and no later revert brings it back. The module
  docstring (patch_workspace.py:6-7) says "baska bir digest (kullanici duzenlemesi)
  varsa dokunulmaz" (any other digest, an edit by the user, is not touched).
- **`UnitTestLoop!CallsAreRemembered`** (`application/unit_test_loop.py:809`) [2
  sessions, 1 control]. remote_calls lives in the state saved with a receipt. Calls
  made after the last receipt (plan, build, final verification) are not saved when
  the session pauses or stops for recovery, and the resumed session may make
  max_remote_calls minus the saved number again. The comment at the check
  (application/unit_test_loop.py:809) says "B3: sayac dispatch'ten ONCE uygulanir;
  limit asilmaz."
- **`UnitTestLoop!FinishedIsClosed`** (`application/unit_test_loop.py:281`) [2
  sessions, 1 control, 1 fault]. execute returns "already-final" before _recover.
  When a cancel is recorded while an attempt without a receipt is left by a crash
  (or _stop is refused because the cancel came first), the attempt stays open and
  its patch on disk for good. _recover's docstring
  (application/unit_test_loop.py:316) says "receipt'siz claim kapatilir.", the
  comment at :1132 "Acik kalan attempt: kendi patch'i geri alinir, receipt yazilir."
- **`UnitTestLoop!RepairIsJudged`** (`application/unit_test_loop.py:406`) [1
  session, 4 attempts, 6 calls]. The digest compared with accepted_plan_digest
  covers the plan's version and rejected_approach_digests (unit_test_plan.py:226).
  After one acceptance, a rejected approach (with_rejected) or a plan_delta of the
  builder (with_scenarios) changes it, and every later candidate is rejected as
  "plan-changed" although nothing outside changed, until some rebaseline. The
  comment in _failed_measurement (application/unit_test_loop.py:1399) says
  "onarilabilir: yalniz builder yolu; analyzer/planner yeniden cagrilmaz".
- **`UnitTestLoop!FinalizeHasPlan`** (`application/unit_test_loop.py:1827`) [1
  session, 1 edit]. A rebaseline that meets the target calls _try_finalize although
  no plan was made yet (production code or tests edited before the planner's first
  usable answer); the session dies with an AssertionError after its receipt. The
  code asserts "assert record.binding is not None and state.plan is not None"
  (application/unit_test_loop.py:1827).

## 5. Proofs

Checked by TLAPS (SMT, Zenon, LS4) for all sets of jobs, processes, resources,
effects, slots, Works, Runs, steps, projections, plans, sessions and drainers, all
requests and all bounds. Every invariant below was first checked by TLC on the instance of its
module's run.

**Assumptions on the constants**, all evaluated by TLC in the runs.
`NoneAssumption`, `SentinelAssumption`, `AuthoritySentinel`, `RolloutSentinel`,
`LoopSentinel`, `SpoolSentinel`: the null value is no row and no document.
`SpoolProcesses`: a process is no delivery id. `BoundsAssumption`, `RevisionBound`,
`CloseBounds`, `LoopAssumption`: capacity and lease duration are positive (the schema and `_bounded_int` demand it), the
bounds of the model are naturals. `StoreAssumption`: bound jobs are jobs, requests
are well-formed and ask for at least one attempt. `WorkerAssumption` and
`CanonicalAssumption`: one effect per job, and for canonical jobs a binding, one
attempt and no timeout, which is how these callers use the store.
`PublicationAssumption`: heads are commits. `BindingAssumption` and `AuthorityAssumption`: every
bound job has a tuple, and `OperationalStore`'s own assumptions. `SpoolAssumption`:
every delivery is of a session, `rejected` is one of the failures and differs from the
outcomes of the drain itself, retry limit and batch are positive, and the deliveries of
one spool are finitely many, since their number is the last position of the queue.
Finiteness of anything else is nowhere assumed.

| Theorem | States |
|---|---|
| `TypeCorrect`, `StoreConsistent` | `[]TypeOK`, `[]StoreInv` of the store |
| `LeaseDiscipline`, `LockDiscipline`, `ClaimsPinTheirAttempt` | the three parts of `StoreInv` |
| `EndsStayFinal` | `EndsAreFinal` |
| `StoreKeepsPromise` | `Spec => KeepsPromise`, refinement of `JobPromise` |
| `RecoverySound`, `AmbiguityStaysRecorded`, `CompletionIsJustified` | `[]RecoveryInv`, `[]AmbiguityRecorded`, `CompletionJustified` |
| `OutboxStaysSound`, `DeliveriesAreHandedOnce` | `[]OutboxSound`, `HandedOnce` |
| `QueuedCanBeClaimed`, `RecognisedOwnersAreSpared` | `[]ReadyHasAttemptsLeft`, `SweepSparesRecognised` |
| `WorkersUseTheStore`, `PublishersUseTheStore` | `WorkerSpec => Spec`, `PublisherSpec => Spec` |
| `EffectStartsOnce`, `SuccessIsReported`, `NoEffectForgotten` | `[]EffectAtMostOnce`, `[]NoInventedSuccess`, `[]NothingForgotten` |
| `EventsAreSentOnce`, `DeliveriesAreAcknowledged` | `[]SentAtMostOnce`, `[]NoInventedDelivery` |
| `EffectsAreProven` | `CanonicalSpec => []EffectIsProven` |
| `PublicationIsCanonical` | `PublicationSpec => CanonicalSpec` |
| `PushesAreAuthorized`, `PublicationsAreTold` | `[]PushIsAuthorized`, `[]PublicationIsTold` |
| `AuthTypeCorrect`, `NoDependencyCycle`, `NothingOvertakes`, `HistoryStays` | `[]AuthTypeOK`, `[]DependenciesAcyclic`, `[]DependenciesFirst`, `HistoryIsKept` |
| `BoundJobsUseTheStores` | `BoundSpec => Spec /\ Auth!AuthSpec` |
| `EffectsFollowPrerequisites`, `RetiredStaysStopped` | `[]EffectAfterPrerequisites`, `RetiredNeverStarts` |
| `CloseStaysSound`, `FrozenStaysQuiet`, `ClosedStaysProven` | `[]CloseInv`, `[]FrozenIsQuiet`, `[]ClosedIsProven` |
| `SpoolStaysMeaningful`, `SpoolTypes` | `SpoolSpec => []SpoolInv`, `[]SpoolTypeOK` |
| `AcknowledgementIsProof`, `CursorStandsBehindResolved` | `[]AckIsProof`, `[]CursorIsResolved` |
| `SpoolStaysConsistent`, `AttemptStateIsFinal` | `[]SpoolIsConsistent`, `TerminalAttemptIsFinal` |
| `RolloutStaysSound`, `LedgersOnlyGrow` | `[]RolloutInv`, `[][RowsOnlyAdded]_vars` |
| `SettlementsAreProven` | `[]SettledIsProven` |
| `SelectionIsAccounted` | `OneCandidate` implies `[]SelectedIsAccounted` |
| `GrantIsNeverOverdrawn` | `[]BudgetHolds` |
| `UnitTypeCorrect`, `LedgerAccounts` | `[]UnitTypeOK`, `[]AttemptsAreAccounted` |
| `UserContentSurvives`, `SuccessRestsOnMeasurement` | `[]UserContentIsRecoverable`, `SuccessIsMeasured` |

### 5.1 The runtime store

**`StoreInv`** is `TypeOK /\ RunningIffLeased /\ LocksBackedByLease /\
ClaimPinsAttempt`. No part is inductive alone. That an effect claim carries the
job's current token needs the lease to carry it (`RunningIffLeased`), since
`claim_effect` copies the token of the handle. That a retried job has no claim
needs the sweep to see all of them, and `claim_next` raises the token, so a
claimed job must not be `ready`. That no lock survives needs the lock's token to
determine one lease, again `RunningIffLeased`.

**Refinement of `JobPromise`.** The mapping sends `ready`, and `running` without a
claim, to *open*, `running` with a claim to *committed*, `recovery-required` to
*ambiguous*. `QueueStepMoves` shows each transaction to be a set of job moves or one
new claim; `PhaseMove` and `ClaimIsCommit` turn these into steps of `JobPromise`. The
retry of an expired attempt is a stutter, which is only true because a job with a
claim is never retried.

**`RecoveryInv`** is `StoreInv /\ AmbiguityRecorded /\ RunningCases`.
`RunningCases` says that a job which still runs has cases only for unknown
receipts. Without it `CompletionJustified` does not follow: `FinishTerminal` and
the sweep look at receipts only, so one must know that no verdict *failed* can
already exist for a claim whose receipt says *completed*.

**`OutboxInv`** adds that only finitely many jobs are stored and only finitely many
deliveries are open. The bound on the backlog is a cardinality, one sweep may emit an
event for every job it ends, and nothing limits `Jobs`: the count of a step's new
events is only known because each belongs to a stored job, and the stored jobs, added
one at a time, stay finite. `DeliveryMove` names what may happen to one delivery; it
gives both the evidence and `HandedOnce`.

**`SweepInv`** is `StoreInv /\ OrphansEnded /\ AttemptsOK`. `OrphansEnded` says that
no orphan's token lies ahead of its job's, and that a lease which still carries it
has an owner the probe still does not recognise. A fencing token is handed out once, so a sweep that uses an old snapshot
cannot meet a newer lease of the same job under an orphan's token.

### 5.2 Users of the store

`WorkersUseTheStore` and `PublishersUseTheStore` show each step of a tick, its keeper,
startup and the human to be a step of the store or none, so the invariants above hold
of them. What the ticks add:

- **`TickInv`**: two workers never hold the same handle (`HandlesAreUnique`), and
  where a worker stands says what is stored (`PlacesAreTrue`): before its claim is
  committed nothing was started under its token, behind it the claim carries that
  token. A second start would need a second worker past the commit with the same
  token. The worker may be swept, and its job taken over, at any point; its handle
  is then older than the job's token, and every call it still makes is refused.
- **`PublisherInv`**: an event that was ever claimed is never pending again, and the
  publisher in the middle of a call is the owner the row names. So the count of calls
  is tied to the claim, however the renewed expiry and `claim_box` drift apart.
- **`CanonicalInv`** adds to the same argument the order of claim, checkpoint,
  receipt and end, and that a canonical job has no receipt *failed*: only a human
  verdict ends a claimed job as failed (`FailedIsJudged`). From it follow
  `AnswerIsProved` and, with the steps of `execute()` (`StepIsTrue`), that a push is
  never reported as one that did not happen.
- `PublicationIsCanonical` is step simulation: the variables of the publication are
  added to those of the canonical job, and each phase of `execute()` maps to a step of
  the call or to a stutter.

### 5.3 The authority rows and the bindings

**`AuthInv`** adds to the three properties that no dependency event is newer than its
Work's revision (`HistoryIsOld`) and that the dependencies of a step are stored. The
first makes the newest event of an edge well defined: the edge that a change adds or
removes is exactly that edge (`EdgeChange`). For the cycle, `Reaches` is false for a
set closed under the edges that holds the new dependency and not the dependent Work;
a set of Works without an end is split along it (`AddedEdgeKeepsAcyclic`). No
finiteness is needed.

**`BoundInv`** joins both stores with `CurrentIsQuery`, the bit the queue looks at is
the query over the rows, and `ClaimsBehindPrerequisites`. The latter is stronger than
`EffectAfterPrerequisites`: it also says that the Work has reached the bound revision
and that the step is stored, without which a later edge event could belong to the
bound revision and a later step could take the bound name. The lemmas about the
operational store are cited through an instance of their module.

### 5.4 Session close

**`CloseInv`** says that one process at most has a job in hand and that no receipt
exists before it writes one (`RunsAgree`), that a job has its lease exactly while it
runs and a verdict exactly with a closed case (`RowsAgree`), that the process
which delivers the close event is the one that claimed it, and that a session that is
still open has no close job. `ClosedIsProven` is
not inductive without them: a process that paused before the end must not be able
to write anything once another one finished the close.

Proving it corrected the model: the sweep and `finish` used to reopen a case that had
been resolved while its job still ran. `insert_effect_recovery_case_tx` raises there,
so the actions now have the guard `CaseAdmissible`, and the job stays running for ever,
the wedge of section 4.

### 5.5 Client spool

The properties of the spool are about files, and none is inductive: between two writes
the files disagree. **`SpoolInv`** therefore says three things.

- *What the files mean at any moment* (`QueueInv`, `DrainInv`). The queue up to
  `Committed` is whole: positions, deliveries and events name one another, and each
  session is one chain. Behind it is at most one entry, the one the pending queue state
  names, each of whose files is absent or says what that state says. Attempts are of
  committed entries, an attempt state restates an attempt on file, an acknowledgement has
  its completed attempt and an acknowledged predecessor, and a cursor record, also one
  that a crash left behind the cursor, says how its position was resolved.
- *What the owner of the lock still has to write* (`TodoInv`). The rest of `todo` is what
  the owner would decide on if it took the lock now, from the write it has reached:
  `StageTodo` for a hook, `AdvanceTodo`, `AckTodo` and `AttemptTodo` for a drainer. This
  is why a crash does no harm: the next owner decides on the same writes again.
- *What a drainer relies on without the lock* (`BatchInv`, `StagedInv`): its positions
  are committed, and an outcome `completed` that it carries to `record_attempt` is of an
  event the ledger has.

The proof goes action by action, and for `Write` by the kind of `todo` and, for a hook,
by which of the thirteen writes is due (six that recover another hook's entry, then its
own seven). The step that carries most is the last write of a commit: it makes the
pending entry part of the queue, so that `Committed`, the chain of the session and the
checkpoint move at once (`CommitWritten`), and a hook that recovered somebody else's
entry goes on with the writes it had decided on before (`OwnWritesStay`).

`SpoolIsConsistent` then follows: `NoCollision` write by write from `TodoInv`
(a record that an acknowledgement rewrites cannot have said `manual-review`, since the
entry's attempt is completed), the other two parts from `QueueInv` and `StagedInv`.
`AckIsProof` follows the acknowledgement through the attempt state to its attempt.
`AttemptStateIsFinal` is the action property of two drainers with the same entry.

### 5.6 Rollout

**`RolloutInv`** relates the three databases: what a terminal says agrees with the
evidence and the transition it was written from (`TerminalsAgree`), where a call or a
recovery stands says which of its rows exist (`CallsAgree`, `RecoveriesAgree`), and
receipts and settlements need the rows before them (`LedgersAgree`). With
`LedgersOnlyGrow`, what a process read before it stalled is still true when it goes
on, also beside a recovery of the same plan.

`SelectionIsAccounted` needs the hypothesis `OneCandidate` (the plans are of one
candidate and at most one of them activates it, and no other writer selects its
artifact), which the instance of the run satisfies: with two activations of the same
artifact "the activation stands" is no property of a single plan, and TLC refutes the
formula. The proof of its first half adds `RollbackFollows`, that a rollback acts only
after the activation has evidence; the second half, `TakenBackOnRecord`, is inductive
under the hypothesis.

`GrantIsNeverOverdrawn` counts. The charge of a set of plans is the number of its units
(`ChargedUnits`, pairs of a plan and one of the units it is charged with), so the sum is
a cardinality and needs no induction. A reservation adds the units of a new plan, which
the admission check has compared with what is left; every other step can only replace
what a plan may use by what it did use (`ChargesOnlyFall`, which needs that a terminal is
never taken back and that its use is within the plan's cost). `BudgetInv` adds that the
units are finitely many, without which the count says nothing.

### 5.7 Unit-test loop

**`LoopInv`** says what a session knows of its attempt at each place
(`SessionTypes`, `EndingTypes`), that from its claim to its receipt the last attempt is
the session's own (`OwnAttempt`), and what the disk can hold. `LeftoverIsRecorded` is not
inductive alone, because a receipt replaces the saved state: a file that the old state
owns and the new one does not would lose its record. `AcceptedFollows` rules it out. The
owned files of the running session are the saved ones, less those whose content on disk
is no longer theirs, plus the one accepted just now. A revert could still bring such
content back; `PreimageIsBacked` says that what it puts back is the user's, or of a
closed attempt that the ledger names, and never what was dropped as tampered with.
That holds across a crash, since the session that recovers the attempt starts from the
state saved before it.

`LedgerAccounts` adds `MeasureInv`: an attempt has no measurement before its run, and
one that is judged has only measurements of the session that judges it, no more than
the repeats it counted. A resumed session closes what it finds open and measures
nothing of it.

`UserContentSurvives` adds `UserInv`. The property alone does not say that a revert
leads back to the user's content: the open attempt must stand on its preimage
(`under`), and a write or a restore must still meet what its check saw, which is true
exactly of the files that are not `raced`.

`SuccessIsMeasured` needs `OnTheWay`: from the receipt of the attempt that met the target
to the end, the loop's baseline and owned files are the saved ones, and the check in
`_succeed` compares the measurement with them. An edit after that check does no harm,
since the record is of the measurement.

### 5.8 Only model-checked

- Liveness (`ExpiredLeaseSettlesOrResolvedEarly`, `ExpiredClaimSettles`,
  `StagedIsResolvedUnlessOvertaken`, `ClosesUnlessLost`, `EvidenceCloses`,
  `EverySessionEnds`): fairness and `ENABLED` are outside the prover.

Every invariant and action property that a run checks is also a theorem.

No module has a RECURSIVE operator.

## 6. Plan

Model next: the order of `claim_next`, with the starvation question that the comment
at `infrastructure/sqlite/local_runtime.py:795` raises; the skill lifecycle over its
two databases; the continuity v4 writer; the ledger of provider calls.
