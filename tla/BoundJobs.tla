----------------------------- MODULE BoundJobs -----------------------------
(***************************************************************************)
(* The job queue of LocalRuntime beside the authority rows of              *)
(* OperationalStore: the bridge table local_job_binding                    *)
(* (infrastructure/sqlite/local_job_binding.py, work_dependency_schema.py) *)
(* decides from the Work, Run, step and configuration rows whether a bound *)
(* job may be queued, leased and given an effect claim.                    *)
(*                                                                         *)
(* Both stores are one SQLite file, so every call of either is atomic with *)
(* respect to the other.  A job is named by its idempotency key, which     *)
(* covers its binding, so Binding is a constant.  The project stays active *)
(* and no source binding is withdrawn: the code has no such operation.     *)
(***************************************************************************)
EXTENDS LocalRuntime

CONSTANTS Works, Runs, Steps, Configs, MaxRevision, MaxSequence,
          Binding   \* local_job_binding: the canonical tuple of each bound job

VARIABLES work, depEvent, config, active, run, step, checkpoint

Auth == INSTANCE OperationalStore

authVars == <<work, depEvent, config, active, run, step, checkpoint>>
boundVars == <<vars, authVars>>

Tuple == [work : Works, revision : Nat, run : Runs, step : Steps \cup {None}, config : Configs]

ASSUME BindingAssumption == Binding \in [Bound -> Tuple]
\* What OperationalStore assumes of its constants.
ASSUME AuthorityAssumption ==
  /\ None \notin Auth!Work /\ None \notin Auth!Run /\ None \notin Auth!Step
  /\ MaxRevision \in Nat /\ MaxSequence \in Nat

\* local_job_binding_admit: what enqueue asks of the tuple.
Admitted(b) ==
  /\ work[b.work] # None
  /\ work[b.work].revision = b.revision
  /\ work[b.work].state \in {"ready", "active", "verification"}
  /\ run[b.run] # None
  /\ run[b.run].work = b.work
  /\ run[b.run].status \in {"planned", "running"}
  /\ run[b.run].config = b.config
  /\ active = b.config
  /\ b.step # None =>
       /\ step[b.step] # None
       /\ step[b.step].run = b.run
       /\ step[b.step].status \in {"pending", "ready", "running"}

\* Mutant: the query of schema v7, which knows no Work dependencies.
CurrentTupleV7(b) ==
  /\ Admitted(b)
  /\ b.step # None => Auth!StepDependenciesMet(b.step)

\* Mutant: the tuple is compared without the Work's revision.
CurrentUnversioned(b) ==
  /\ work[b.work] # None
  /\ Admitted([b EXCEPT !.revision = work[b.work].revision])
  /\ b.step # None => Auth!StepDependenciesMet(b.step)
  /\ Auth!DependenciesComplete(b.work)

\* current_binding_query: the admission, and every dependency of the step and of
\* the Work is done.
CurrentTuple(b) ==
  /\ Admitted(b)
  /\ b.step # None => Auth!StepDependenciesMet(b.step)
  /\ Auth!DependenciesComplete(b.work)

CurrentJobs == {j \in Bound : CurrentTuple(Binding[j])}

\* Calls of the runtime store.
RuntimeStep ==
  /\ JobStep \/ (OutboxStep /\ UNCHANGED storeVars)
  /\ \A j \in Bound : state[j] = "absent" /\ state'[j] # "absent" => Admitted(Binding[j])
  /\ UNCHANGED authVars

\* Calls of the operational store: to the queue each is an AuthorityChange, or
\* nothing.
AuthorityStep ==
  /\ Auth!AuthNext
  /\ current' = CurrentJobs'
  /\ UNCHANGED <<now, alive, delivery, jobVars, leaseVars, effectVars, slot, orphans>>

BoundInit ==
  /\ Init
  /\ Auth!AuthInit
  /\ current = CurrentJobs

BoundNext == RuntimeStep \/ AuthorityStep

BoundSpec == BoundInit /\ [][BoundNext]_boundVars

-----------------------------------------------------------------------------
(* Properties *)

\* The dependencies that a Work had at a revision.
DependenciesAt(w, r) ==
  {e.on : e \in {x \in depEvent :
     /\ x.work = w /\ x.action = "added" /\ x.revision <= r
     /\ ~\E later \in depEvent :
          later.work = w /\ later.on = x.on /\ later.revision > x.revision
            /\ later.revision <= r}}

\* No effect runs ahead of what it depends on: once a bound job has an effect
\* claim, the dependencies its Work had at the bound revision are complete and
\* those of its step succeeded, and no later call takes that back.
EffectAfterPrerequisites ==
  \A k \in Effects :
    claim[k] # None /\ claim[k].job \in Bound =>
      LET b == Binding[claim[k].job] IN
      /\ \A d \in DependenciesAt(b.work, b.revision) : Auth!Complete(d)
      /\ b.step # None => Auth!StepDependenciesMet(b.step)

Retired(b) ==
  \/ work[b.work] # None /\ work[b.work].revision > b.revision
  \/ run[b.run] # None /\ run[b.run].status \in Auth!TerminalRun

\* Authority does not come back: once the Work moved past the bound revision or
\* the Run ended, the job is neither leased nor given an effect claim again,
\* although configuration, status "unknown" and leases do come back.
RetiredNeverStarts ==
  [][\A j \in Bound :
       Retired(Binding[j]) =>
         /\ Retired(Binding[j])'
         /\ attempts'[j] = attempts[j]
         /\ ClaimsOf(j)' = ClaimsOf(j)]_boundVars
=============================================================================
