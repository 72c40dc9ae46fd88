-------------------------- MODULE OperationalStore --------------------------
(***************************************************************************)
(* The canonical authority rows of SQLiteOperationalStore                  *)
(* (infrastructure/sqlite/operational_store.py over repository.py's tables *)
(* and the triggers of work_dependency_schema.py): Work items and their    *)
(* dependency history, configuration revisions, Runs, Run steps and        *)
(* checkpoints.                                                            *)
(*                                                                         *)
(* Each call is one BEGIN IMMEDIATE transaction that either commits or     *)
(* changes nothing.  Any caller may make any call; what it believes of the *)
(* row (expected revision, expected status) is an argument.                *)
(***************************************************************************)
EXTENDS Naturals, FiniteSets

CONSTANTS
  None,         \* no row
  Works,        \* Work ids of one project
  Runs,         \* Run ids
  Steps,        \* Run step ids
  Configs,      \* configuration digests
  MaxRevision,  \* bound: revisions of one Work
  MaxSequence   \* bound: checkpoints of one Run

VARIABLES
  work,        \* work_item: state, revision, evidence_digest (present or not)
  depEvent,    \* work_dependency_event, the append-only dependency history
  config,      \* config_revision: the digests stored so far
  active,      \* the one with active = 1
  run,         \* run: its Work, its configuration, status
  step,        \* run_step: its Run, status, dependencies
  checkpoint   \* checkpoint: the last sequence of each Run

authVars == <<work, depEvent, config, active, run, step, checkpoint>>

WorkStates == {"proposed", "ready", "active", "blocked", "verification",
               "completed", "cancelled", "archived"}
RunStatuses == {"planned", "running", "succeeded", "failed", "cancelled", "unknown"}
StepStatuses == {"pending", "ready", "running", "succeeded", "failed", "cancelled", "unknown"}
TerminalRun == {"succeeded", "failed", "cancelled"}

\* States that a Work enters only when its dependencies are complete.
GatedStates == {"ready", "active", "verification", "completed"}
\* States in which its dependencies may change.
EditableStates == {"proposed", "ready", "blocked"}

Work == [state : WorkStates, revision : Nat, evidence : BOOLEAN]
Run == [work : Works, config : Configs, status : RunStatuses]
Step == [run : Runs, status : StepStatuses, deps : SUBSET Steps]
DepEvent == [work : Works, on : Works, revision : Nat, action : {"added", "removed"}]

ASSUME AuthoritySentinel == None \notin Work /\ None \notin Run /\ None \notin Step
ASSUME RevisionBound == MaxRevision \in Nat /\ MaxSequence \in Nat

-----------------------------------------------------------------------------
(* Transition tables *)

WorkTransitions ==
  [proposed |-> {"ready", "cancelled"},
   ready |-> {"active", "blocked", "cancelled"},
   active |-> {"blocked", "verification", "cancelled"},
   blocked |-> {"ready", "active", "cancelled"},
   verification |-> {"active", "completed", "blocked"},
   completed |-> {},
   cancelled |-> {"ready"},
   archived |-> {}]

RunTransitions ==
  [planned |-> {"running", "cancelled", "unknown"},
   running |-> {"succeeded", "failed", "cancelled", "unknown"},
   unknown |-> {"running", "succeeded", "failed", "cancelled"},
   succeeded |-> {}, failed |-> {}, cancelled |-> {}]

StepTransitions ==
  [pending |-> {"ready", "cancelled", "unknown"},
   ready |-> {"running", "cancelled", "unknown"},
   running |-> {"succeeded", "failed", "cancelled", "unknown"},
   unknown |-> {"ready", "running", "failed", "cancelled"},
   succeeded |-> {}, failed |-> {}, cancelled |-> {}]

-----------------------------------------------------------------------------
(* Dependencies of Work *)

\* work_dependency_current: the edges whose latest event is "added".
Dependencies(w) ==
  {e.on : e \in {x \in depEvent :
     /\ x.work = w
     /\ x.action = "added"
     /\ ~\E later \in depEvent :
          later.work = w /\ later.on = x.on /\ later.revision > x.revision}}

Complete(w) == work[w] # None /\ work[w].state = "completed" /\ work[w].evidence

\* has_unfinished_work_dependencies, and the trigger work_dependency_state_guard.
DependenciesComplete(w) == \A d \in Dependencies(w) : Complete(d)

\* Mutant: only the direct edge back is looked for.
DirectlyReaches(d, w) == d = w \/ w \in Dependencies(d)

\* The trigger's recursive query: every set that holds d and is closed under
\* current edges holds w.
Reaches(d, w) ==
  \A S \in SUBSET Works :
    d \in S /\ (\A x \in S : Dependencies(x) \subseteq S) => w \in S

-----------------------------------------------------------------------------
(* Work *)

\* Any state of _WORK_STATES may be the first one; a replay of the idempotency
\* key returns the row or refuses a drift.
CreateWork(w, to, evidence) ==
  /\ work[w] = None
  /\ to = "completed" => evidence
  /\ work' = [work EXCEPT ![w] = [state |-> to, revision |-> 1, evidence |-> evidence]]
  /\ UNCHANGED <<depEvent, config, active, run, step, checkpoint>>

\* Mutant: the dependencies are looked at on the way to "ready" only.
TransitionUngated(w, expected, to, evidence) ==
  /\ work[w] # None
  /\ to = "completed" => evidence
  /\ work[w].revision = expected
  /\ expected < MaxRevision
  /\ to \in WorkTransitions[work[w].state]
  /\ to = "ready" => DependenciesComplete(w)
  /\ work' = [work EXCEPT ![w] = [state |-> to, revision |-> expected + 1, evidence |-> evidence]]
  /\ UNCHANGED <<depEvent, config, active, run, step, checkpoint>>

TransitionWork(w, expected, to, evidence) ==
  /\ work[w] # None
  /\ to = "completed" => evidence
  /\ work[w].revision = expected
  /\ expected < MaxRevision
  /\ to \in WorkTransitions[work[w].state]
  /\ to \in GatedStates => DependenciesComplete(w)
  /\ work' = [work EXCEPT ![w] = [state |-> to, revision |-> expected + 1, evidence |-> evidence]]
  /\ UNCHANGED <<depEvent, config, active, run, step, checkpoint>>

\* Mutant: a dependency change leaves the Work's revision alone.
ChangeUnrevised(w, d, expected, action) ==
  /\ work[w] # None /\ work[d] # None /\ w # d
  /\ work[w].revision = expected
  /\ expected < MaxRevision
  /\ work[w].state \in EditableStates
  /\ IF action = "added" THEN d \notin Dependencies(w) /\ ~Reaches(d, w)
                         ELSE d \in Dependencies(w)
  /\ depEvent' = depEvent \cup
       {[work |-> w, on |-> d, revision |-> expected + 1, action |-> action]}
  /\ UNCHANGED <<work, config, active, run, step, checkpoint>>

\* The method's own guards and those of the trigger work_dependency_event_scope;
\* the dependency change is a revision of the Work in the same state.
ChangeWorkDependency(w, d, expected, action) ==
  /\ work[w] # None /\ work[d] # None /\ w # d
  /\ work[w].revision = expected
  /\ expected < MaxRevision
  /\ work[w].state \in EditableStates
  /\ IF action = "added" THEN d \notin Dependencies(w) /\ ~Reaches(d, w)
                         ELSE d \in Dependencies(w)
  /\ work' = [work EXCEPT ![w].revision = expected + 1]
  /\ depEvent' = depEvent \cup
       {[work |-> w, on |-> d, revision |-> expected + 1, action |-> action]}
  /\ UNCHANGED <<config, active, run, step, checkpoint>>

-----------------------------------------------------------------------------
(* Configuration *)

\* A new digest is stored and becomes the only active one; a stored digest is
\* activated again.
ActivateConfig(c) ==
  /\ active # c
  /\ config' = config \cup {c}
  /\ active' = c
  /\ UNCHANGED <<work, depEvent, run, step, checkpoint>>

-----------------------------------------------------------------------------
(* Runs and their steps *)

\* Neither the Work's state nor the configuration's active bit is looked at.
CreateRun(r, w, c) ==
  /\ run[r] = None
  /\ work[w] # None
  /\ c \in config
  /\ run' = [run EXCEPT ![r] = [work |-> w, config |-> c, status |-> "planned"]]
  /\ UNCHANGED <<work, depEvent, config, active, step, checkpoint>>

StepsOf(r) == {s \in Steps : step[s] # None /\ step[s].run = r}

\* A terminal status carries a receipt digest, any other carries none.
TransitionRun(r, expected, to) ==
  /\ run[r] # None
  /\ run[r].status = expected
  /\ to \in RunTransitions[expected]
  /\ to = "succeeded" => \A s \in StepsOf(r) : step[s].status = "succeeded"
  /\ run' = [run EXCEPT ![r].status = to]
  /\ UNCHANGED <<work, depEvent, config, active, step, checkpoint>>

\* Dependencies are steps of the same Run that already exist.  The Run's status
\* is not looked at.
AddRunStep(s, r, D) ==
  /\ step[s] = None
  /\ run[r] # None
  /\ D \subseteq StepsOf(r)
  /\ step' = [step EXCEPT ![s] = [run |-> r, status |-> "pending", deps |-> D]]
  /\ UNCHANGED <<work, depEvent, config, active, run, checkpoint>>

StepDependenciesMet(s) == \A d \in step[s].deps : step[d].status = "succeeded"

TransitionRunStep(s, expected, to) ==
  /\ step[s] # None
  /\ step[s].status = expected
  /\ to \in StepTransitions[expected]
  /\ to \in {"ready", "running"} => StepDependenciesMet(s)
  /\ step' = [step EXCEPT ![s].status = to]
  /\ UNCHANGED <<work, depEvent, config, active, run, checkpoint>>

RecordCheckpoint(r, sequence) ==
  /\ run[r] # None
  /\ run[r].status \notin TerminalRun
  /\ sequence = checkpoint[r] + 1
  /\ sequence <= MaxSequence
  /\ checkpoint' = [checkpoint EXCEPT ![r] = sequence]
  /\ UNCHANGED <<work, depEvent, config, active, run, step>>

-----------------------------------------------------------------------------
AuthInit ==
  /\ work = [w \in Works |-> None]
  /\ depEvent = {}
  /\ config = {}
  /\ active = None
  /\ run = [r \in Runs |-> None]
  /\ step = [s \in Steps |-> None]
  /\ checkpoint = [r \in Runs |-> 0]

AuthNext ==
  \/ \E w \in Works, e \in BOOLEAN :
       \/ \E to \in WorkStates : CreateWork(w, to, e)
       \/ \E expected \in 1..MaxRevision, to \in WorkStates : TransitionWork(w, expected, to, e)
  \/ \E w, d \in Works, expected \in 1..MaxRevision, a \in {"added", "removed"} :
       ChangeWorkDependency(w, d, expected, a)
  \/ \E c \in Configs : ActivateConfig(c)
  \/ \E r \in Runs :
       \/ \E w \in Works, c \in Configs : CreateRun(r, w, c)
       \/ \E expected, to \in RunStatuses : TransitionRun(r, expected, to)
       \/ \E sequence \in 1..MaxSequence : RecordCheckpoint(r, sequence)
       \/ \E s \in Steps, D \in SUBSET Steps : AddRunStep(s, r, D)
  \/ \E s \in Steps, expected, to \in StepStatuses : TransitionRunStep(s, expected, to)

AuthSpec == AuthInit /\ [][AuthNext]_authVars

-----------------------------------------------------------------------------
(* Properties *)

\* The columns of the authority tables hold values of their declared domains.
AuthTypeOK ==
  /\ work \in [Works -> Work \cup {None}]
  /\ depEvent \subseteq DepEvent
  /\ config \subseteq Configs
  /\ active \in config \cup {None}
  /\ run \in [Runs -> Run \cup {None}]
  /\ step \in [Steps -> Step \cup {None}]
  /\ checkpoint \in [Runs -> Nat]

\* The dependency graph of Work stays free of cycles through every sequence of
\* added and removed edges (trigger work_dependency_event_scope): every set of
\* Works has one that depends on none of the set, so some Work can be finished.
DependenciesAcyclic ==
  \A S \in SUBSET Works : S # {} => \E w \in S : Dependencies(w) \cap S = {}

\* A Work that was started has all its dependencies complete, and keeps them so:
\* only "ready" and the closed or waiting states may have unfinished ones, since
\* change_work_dependency still accepts a ready Work.
StartedWorkDependenciesComplete ==
  \A w \in Works :
    work[w] # None /\ work[w].state \in {"active", "verification", "completed"} =>
      DependenciesComplete(w)

\* An optimistic check against the revision is enough: while a Work's revision
\* stays the same, so do its state, its evidence and its dependencies, and a
\* revision never comes back.
RevisionNamesContent ==
  [][\A w \in Works :
       work[w] # None =>
         /\ work'[w] # None
         /\ work'[w].revision >= work[w].revision
         /\ work'[w].revision = work[w].revision =>
              work'[w] = work[w] /\ Dependencies(w)' = Dependencies(w)]_authVars

\* A step that is ready, runs or succeeded has only succeeded dependencies, also
\* when it got there through "unknown" (transition_run_step: "Transition a step
\* only after its dependency graph is satisfied").
StepDependenciesSucceeded ==
  \A s \in Steps :
    step[s] # None /\ step[s].status \in {"ready", "running", "succeeded"} =>
      StepDependenciesMet(s)

\* The evidence of an ended Run is complete: after its terminal transition the
\* Run's status, and the checkpoints that explain it, never change.
EndedRunIsFrozen ==
  [][\A r \in Runs :
       run[r] # None /\ run[r].status \in TerminalRun =>
         run'[r] = run[r] /\ checkpoint'[r] = checkpoint[r]]_authVars

\* Nothing overtakes what it depends on, neither a Work nor a Run step
\* (work_dependency_state_guard, transition_run_step).
DependenciesFirst == StartedWorkDependenciesComplete /\ StepDependenciesSucceeded

\* What other rows refer to is not rewritten under them: neither the content of a
\* Work's revision nor an ended Run.
HistoryIsKept == RevisionNamesContent /\ EndedRunIsFrozen

\* "Succeeded Run icin tum adimlar basarili olmali": every step of a succeeded
\* Run succeeded.  add_run_step accepts a Run that has already succeeded.
SucceededRunStepsSucceeded ==
  \A r \in Runs :
    run[r] # None /\ run[r].status = "succeeded" =>
      \A s \in StepsOf(r) : step[s].status = "succeeded"
=============================================================================
