----------------------- MODULE OperationalStoreProofs -----------------------
(***************************************************************************)
(* Theorems about OperationalStore, for every value of its constants: the  *)
(* dependency graph of Work stays free of cycles, nothing overtakes what   *)
(* it depends on, and revisions and ended Runs are never rewritten.        *)
(***************************************************************************)
EXTENDS OperationalStore, TLAPS

\* The dependency history is older than the Work's current revision, and belongs
\* to stored Works.
HistoryIsOld ==
  \A x \in depEvent : work[x.work] # None /\ x.revision <= work[x.work].revision

\* The dependencies of a Run step are stored steps.
StepDependenciesStored ==
  \A s \in Steps : step[s] # None => \A d \in step[s].deps : step[d] # None

AuthInv ==
  /\ AuthTypeOK
  /\ HistoryIsOld
  /\ StepDependenciesStored
  /\ DependenciesAcyclic
  /\ StartedWorkDependenciesComplete
  /\ StepDependenciesSucceeded

-----------------------------------------------------------------------------
(* Type correctness *)

\* A stored Work is a Work, and so are the rows of the other tables.
LEMMA RowTypes ==
  ASSUME AuthTypeOK
  PROVE  /\ \A w \in Works : work[w] # None =>
              /\ work[w] \in Work /\ work[w].state \in WorkStates
              /\ work[w].revision \in Nat /\ work[w].evidence \in BOOLEAN
         /\ \A r \in Runs : run[r] # None => run[r] \in Run /\ run[r].status \in RunStatuses
         /\ \A s \in Steps : step[s] # None =>
              /\ step[s] \in Step /\ step[s].status \in StepStatuses
              /\ step[s].deps \in SUBSET Steps /\ step[s].run \in Runs
         /\ \A x \in depEvent : x.work \in Works /\ x.on \in Works /\ x.revision \in Nat
BY DEF AuthTypeOK, Work, Run, Step, DepEvent

\* Dependencies are Works.
LEMMA DependenciesType ==
  ASSUME AuthTypeOK, NEW w
  PROVE  Dependencies(w) \in SUBSET Works
BY RowTypes DEF Dependencies

\* Every transaction keeps the tables well-formed.
LEMMA AuthNextType ==
  ASSUME AuthTypeOK, [AuthNext]_authVars
  PROVE  AuthTypeOK'
<1>1. ASSUME NEW w \in Works, NEW e \in BOOLEAN, NEW to \in WorkStates, CreateWork(w, to, e)
      PROVE  AuthTypeOK'
  <2>1. [state |-> to, revision |-> 1, evidence |-> e] \in Work
    BY DEF Work
  <2> QED
    BY <1>1, <2>1 DEF CreateWork, AuthTypeOK
<1>2. ASSUME NEW w \in Works, NEW e \in BOOLEAN, NEW x \in 1..MaxRevision, NEW to \in WorkStates,
             TransitionWork(w, x, to, e)
      PROVE  AuthTypeOK'
  <2>1. [state |-> to, revision |-> x + 1, evidence |-> e] \in Work
    BY RevisionBound DEF Work
  <2> QED
    BY <1>2, <2>1 DEF TransitionWork, AuthTypeOK
<1>3. ASSUME NEW w \in Works, NEW d \in Works, NEW x \in 1..MaxRevision, NEW a \in {"added", "removed"},
             ChangeWorkDependency(w, d, x, a)
      PROVE  AuthTypeOK'
  <2>1. [work |-> w, on |-> d, revision |-> x + 1, action |-> a] \in DepEvent
    BY RevisionBound DEF DepEvent
  <2>2. work[w] \in Work /\ x + 1 \in Nat
    BY <1>3, RowTypes, RevisionBound DEF ChangeWorkDependency
  <2>3. [work[w] EXCEPT !.revision = x + 1] \in Work
    BY <2>2 DEF Work
  <2>4. work' = [work EXCEPT ![w] = [work[w] EXCEPT !.revision = x + 1]]
    BY <1>3 DEF ChangeWorkDependency
  <2>5. work' \in [Works -> Work \cup {None}]
    BY <2>3, <2>4 DEF AuthTypeOK
  <2> QED
    BY <1>3, <2>1, <2>5 DEF ChangeWorkDependency, AuthTypeOK
<1>4. ASSUME NEW c \in Configs, ActivateConfig(c)
      PROVE  AuthTypeOK'
  BY <1>4 DEF ActivateConfig, AuthTypeOK
<1>5. ASSUME NEW r \in Runs, NEW w \in Works, NEW c \in Configs, CreateRun(r, w, c)
      PROVE  AuthTypeOK'
  <2>1. [work |-> w, config |-> c, status |-> "planned"] \in Run
    BY DEF Run, RunStatuses
  <2> QED
    BY <1>5, <2>1 DEF CreateRun, AuthTypeOK
<1>6. ASSUME NEW r \in Runs, NEW x \in RunStatuses, NEW to \in RunStatuses, TransitionRun(r, x, to)
      PROVE  AuthTypeOK'
  <2>1. [run[r] EXCEPT !.status = to] \in Run
    BY <1>6, RowTypes DEF TransitionRun, Run
  <2>2. run' = [run EXCEPT ![r] = [run[r] EXCEPT !.status = to]]
    BY <1>6 DEF TransitionRun
  <2> QED
    BY <1>6, <2>1, <2>2 DEF TransitionRun, AuthTypeOK
<1>7. ASSUME NEW r \in Runs, NEW n \in 1..MaxSequence, RecordCheckpoint(r, n)
      PROVE  AuthTypeOK'
  BY <1>7, RevisionBound DEF RecordCheckpoint, AuthTypeOK
<1>8. ASSUME NEW r \in Runs, NEW s \in Steps, NEW D \in SUBSET Steps, AddRunStep(s, r, D)
      PROVE  AuthTypeOK'
  <2>1. [run |-> r, status |-> "pending", deps |-> D] \in Step
    BY DEF Step, StepStatuses
  <2> QED
    BY <1>8, <2>1 DEF AddRunStep, AuthTypeOK
<1>9. ASSUME NEW s \in Steps, NEW x \in StepStatuses, NEW to \in StepStatuses, TransitionRunStep(s, x, to)
      PROVE  AuthTypeOK'
  <2>1. [step[s] EXCEPT !.status = to] \in Step
    BY <1>9, RowTypes DEF TransitionRunStep, Step
  <2>2. step' = [step EXCEPT ![s] = [step[s] EXCEPT !.status = to]]
    BY <1>9 DEF TransitionRunStep
  <2> QED
    BY <1>9, <2>1, <2>2 DEF TransitionRunStep, AuthTypeOK
<1>10. CASE UNCHANGED authVars
  BY <1>10 DEF authVars, AuthTypeOK
<1> QED
  BY <1>1, <1>2, <1>3, <1>4, <1>5, <1>6, <1>7, <1>8, <1>9, <1>10 DEF AuthNext

-----------------------------------------------------------------------------
(* What one transaction does to a Work *)

\* The moves of a Work: created, moved along the table, revised with a new edge
\* event, or left alone together with its dependencies.
Created(w) ==
  /\ work[w] = None /\ work'[w] # None /\ depEvent' = depEvent
Moved(w) ==
  /\ work[w] # None /\ work'[w] # None /\ depEvent' = depEvent
  /\ work'[w].revision = work[w].revision + 1
  /\ work'[w].state \in WorkTransitions[work[w].state]
  /\ work'[w].state \in GatedStates => DependenciesComplete(w)
Revised(w) ==
  /\ work[w] # None /\ work'[w] # None
  /\ work'[w].revision = work[w].revision + 1
  /\ work'[w].state = work[w].state /\ work[w].state \in EditableStates
  /\ \E d \in Works, a \in {"added", "removed"} :
       /\ IF a = "added" THEN d \notin Dependencies(w) /\ ~Reaches(d, w) ELSE d \in Dependencies(w)
       /\ depEvent' = depEvent \cup
            {[work |-> w, on |-> d, revision |-> work[w].revision + 1, action |-> a]}

\* Every transaction changes one Work at most, in one of these ways.
LEMMA WorkMoves ==
  ASSUME AuthTypeOK, AuthTypeOK', [AuthNext]_authVars
  PROVE  \/ work' = work /\ depEvent' = depEvent
         \/ \E w \in Works : /\ Created(w) \/ Moved(w) \/ Revised(w)
                             /\ \A v \in Works \ {w} : work'[v] = work[v]
<1> DEFINE Goal == \/ work' = work /\ depEvent' = depEvent
                   \/ \E w \in Works : /\ Created(w) \/ Moved(w) \/ Revised(w)
                                       /\ \A v \in Works \ {w} : work'[v] = work[v]
<1>1. ASSUME NEW w \in Works, NEW e \in BOOLEAN, NEW to \in WorkStates, CreateWork(w, to, e)
      PROVE  Goal
  <2>1. [state |-> to, revision |-> 1, evidence |-> e] \in Work
    BY DEF Work
  <2>2. Created(w) /\ \A v \in Works \ {w} : work'[v] = work[v]
    BY <1>1, <2>1, AuthoritySentinel DEF CreateWork, AuthTypeOK, Created
  <2> QED
    BY <2>2
<1>2. ASSUME NEW w \in Works, NEW e \in BOOLEAN, NEW x \in 1..MaxRevision, NEW to \in WorkStates,
             TransitionWork(w, x, to, e)
      PROVE  Goal
  <2> DEFINE b == [state |-> to, revision |-> x + 1, evidence |-> e]
  <2>1. b \in Work
    BY RevisionBound DEF Work
  <2>2. b # None /\ b.state = to /\ b.revision = x + 1
    BY <2>1, AuthoritySentinel
  <2>3. /\ work' = [work EXCEPT ![w] = b] /\ depEvent' = depEvent /\ work[w] # None
        /\ work[w].revision = x /\ to \in WorkTransitions[work[w].state]
        /\ to \in GatedStates => DependenciesComplete(w)
    BY <1>2 DEF TransitionWork
  <2> HIDE DEF b
  <2>4. Moved(w) /\ \A v \in Works \ {w} : work'[v] = work[v]
    BY <2>2, <2>3 DEF AuthTypeOK, Moved
  <2> QED
    BY <2>4
<1>3. ASSUME NEW w \in Works, NEW d \in Works, NEW x \in 1..MaxRevision, NEW a \in {"added", "removed"},
             ChangeWorkDependency(w, d, x, a)
      PROVE  Goal
  <2> DEFINE b == [work[w] EXCEPT !.revision = x + 1]
  <2>1. work[w] # None /\ work[w] \in Work /\ work[w].revision = x /\ work[w].state \in EditableStates
    BY <1>3, RowTypes DEF ChangeWorkDependency
  <2>2. b \in Work
    BY <2>1, RevisionBound DEF Work
  <2>3. b # None /\ b.state = work[w].state /\ b.revision = x + 1
    BY <2>1, <2>2, AuthoritySentinel DEF Work
  <2>4. /\ work' = [work EXCEPT ![w] = b]
        /\ IF a = "added" THEN d \notin Dependencies(w) /\ ~Reaches(d, w) ELSE d \in Dependencies(w)
        /\ depEvent' = depEvent \cup {[work |-> w, on |-> d, revision |-> x + 1, action |-> a]}
    BY <1>3 DEF ChangeWorkDependency
  <2> HIDE DEF b
  <2>5. work'[w] = b /\ \A v \in Works \ {w} : work'[v] = work[v]
    BY <2>4 DEF AuthTypeOK
  <2>6. Revised(w)
    BY <2>1, <2>3, <2>4, <2>5 DEF Revised
  <2> QED
    BY <2>5, <2>6
<1>4. ASSUME UNCHANGED <<work, depEvent>>
      PROVE  Goal
  BY <1>4
<1>5. ASSUME NEW r \in Runs,
             \/ \E w \in Works, c \in Configs : CreateRun(r, w, c)
             \/ \E expected, to \in RunStatuses : TransitionRun(r, expected, to)
             \/ \E sequence \in 1..MaxSequence : RecordCheckpoint(r, sequence)
             \/ \E s \in Steps, D \in SUBSET Steps : AddRunStep(s, r, D)
      PROVE  Goal
  BY <1>4, <1>5 DEF CreateRun, TransitionRun, RecordCheckpoint, AddRunStep
<1>6. ASSUME NEW s \in Steps, NEW x, NEW to, TransitionRunStep(s, x, to)
      PROVE  Goal
  BY <1>4, <1>6 DEF TransitionRunStep
<1>7. ASSUME NEW c \in Configs, ActivateConfig(c)
      PROVE  Goal
  BY <1>4, <1>7 DEF ActivateConfig
<1>8. ASSUME UNCHANGED authVars
      PROVE  Goal
  BY <1>4, <1>8 DEF authVars
<1> HIDE DEF Goal
<1>9. Goal
  BY <1>1, <1>2, <1>3, <1>5, <1>6, <1>7, <1>8 DEF AuthNext
<1> QED
  BY <1>9 DEF Goal

-----------------------------------------------------------------------------
(* What a new edge event does to the graph *)

\* A dependency is the latest event of its edge, and that says "added".
LEMMA DependencyIs ==
  ASSUME NEW w, NEW d
  PROVE  d \in Dependencies(w) <=>
           \E x \in depEvent :
             /\ x.work = w /\ x.on = d /\ x.action = "added"
             /\ \A y \in depEvent : y.work = w /\ y.on = d => ~(y.revision > x.revision)
BY DEF Dependencies

\* A newer event decides its edge and no other: it adds or removes exactly it.
LEMMA EdgeChange ==
  ASSUME AuthTypeOK, AuthTypeOK', HistoryIsOld, NEW w \in Works, NEW d \in Works,
         work[w] # None, NEW a \in {"added", "removed"},
         depEvent' = depEvent \cup
           {[work |-> w, on |-> d, revision |-> work[w].revision + 1, action |-> a]}
  PROVE  /\ \A v \in Works \ {w} : Dependencies(v)' = Dependencies(v)
         /\ Dependencies(w)' = IF a = "added" THEN Dependencies(w) \cup {d} ELSE Dependencies(w) \ {d}
<1> DEFINE n == work[w].revision + 1
           z == [work |-> w, on |-> d, revision |-> n, action |-> a]
<1>1. n \in Nat /\ \A x \in depEvent : x.work = w => x.revision \in Nat /\ x.revision < n
  BY RowTypes DEF HistoryIsOld
<1>2. z.work = w /\ z.on = d /\ z.revision = n /\ z.action = a /\ depEvent' = depEvent \cup {z}
  OBVIOUS
<1> HIDE DEF n, z
<1>3. ASSUME NEW v \in Works, NEW u, v # w \/ u # d
      PROVE  u \in Dependencies(v)' <=> u \in Dependencies(v)
  BY <1>2, <1>3, DependencyIs DEF Dependencies
<1>4. d \in Dependencies(w)' <=> a = "added"
  <2>1. \A x \in depEvent' : x.work = w /\ x.on = d => x = z \/ z.revision > x.revision
    BY <1>1, <1>2
  <2>2. \A y \in depEvent' : y.work = w /\ y.on = d => ~(y.revision > z.revision)
    BY <1>1, <1>2
  <2>3. z \in depEvent' /\ (a = "added" <=> z.action = "added")
    BY <1>2
  <2> QED
    BY <1>2, <2>1, <2>2, <2>3 DEF Dependencies
<1>5. Dependencies(w) \in SUBSET Works /\ Dependencies(w)' \in SUBSET Works
  BY DependenciesType DEF Dependencies, AuthTypeOK, DepEvent
<1>6. \A v \in Works \ {w} : Dependencies(v)' = Dependencies(v)
  BY <1>3
<1> QED
  BY <1>3, <1>4, <1>6

\* An edge that closes no cycle keeps the graph free of cycles.
LEMMA AddedEdgeKeepsAcyclic ==
  ASSUME AuthTypeOK, DependenciesAcyclic, NEW w \in Works, NEW d \in Works, ~Reaches(d, w),
         \A v \in Works \ {w} : Dependencies(v)' = Dependencies(v),
         Dependencies(w)' \subseteq Dependencies(w) \cup {d}
  PROVE  DependenciesAcyclic'
<1>1. PICK C \in SUBSET Works :
             d \in C /\ w \notin C /\ \A x \in C : Dependencies(x) \subseteq C
  BY DEF Reaches
<1>2. ASSUME NEW S \in SUBSET Works, S # {}
      PROVE  \E v \in S : Dependencies(v)' \cap S = {}
  <2>1. CASE S \cap C # {}
    <3>1. PICK v \in S \cap C : Dependencies(v) \cap (S \cap C) = {}
      BY <2>1 DEF DependenciesAcyclic
    <3>2. Dependencies(v) \subseteq C /\ Dependencies(v)' = Dependencies(v)
      BY <1>1, <3>1
    <3> QED
      BY <3>1, <3>2
  <2>2. CASE S \cap C = {}
    <3>1. PICK v \in S : Dependencies(v) \cap S = {}
      BY <1>2 DEF DependenciesAcyclic
    <3>2. d \notin S /\ Dependencies(v)' \subseteq Dependencies(v) \cup {d}
      BY <1>1, <2>2, <3>1
    <3> QED
      BY <3>1, <3>2
  <2> QED
    BY <2>1, <2>2
<1> QED
  BY <1>2 DEF DependenciesAcyclic

\* A complete Work stays complete: "completed" has no way out and its
\* dependencies are no longer editable.
LEMMA CompleteStays ==
  ASSUME AuthTypeOK, AuthTypeOK', [AuthNext]_authVars, NEW d \in Works, Complete(d)
  PROVE  Complete(d)'
<1>1. CASE work' = work
  BY <1>1 DEF Complete
<1>2. ASSUME NEW w \in Works, Created(w) \/ Moved(w) \/ Revised(w),
             \A v \in Works \ {w} : work'[v] = work[v]
      PROVE  Complete(d)'
  <2>1. w # d
    BY <1>2 DEF Complete, Created, Moved, Revised, WorkTransitions, EditableStates
  <2> QED
    BY <1>2, <2>1 DEF Complete
<1> QED
  BY <1>1, <1>2, WorkMoves

\* Every transaction keeps the dependency history old, the graph free of cycles
\* and the dependencies of started Works complete.
LEMMA NextKeepsGraph ==
  ASSUME AuthInv, AuthTypeOK', [AuthNext]_authVars
  PROVE  HistoryIsOld' /\ DependenciesAcyclic' /\ StartedWorkDependenciesComplete'
<1> DEFINE Goal == HistoryIsOld' /\ DependenciesAcyclic' /\ StartedWorkDependenciesComplete'
<1>0. AuthTypeOK
  BY DEF AuthInv
<1>1. ASSUME work' = work, depEvent' = depEvent
      PROVE  Goal
  BY <1>1 DEF AuthInv, HistoryIsOld, DependenciesAcyclic, StartedWorkDependenciesComplete,
              Dependencies, DependenciesComplete, Complete
<1>2. ASSUME NEW w \in Works, \A v \in Works \ {w} : work'[v] = work[v], Created(w) \/ Moved(w)
      PROVE  Goal
  <2>1. \A v \in Works : Dependencies(v)' = Dependencies(v)
    BY <1>2 DEF Created, Moved, Dependencies
  <2>2. DependenciesAcyclic'
    BY <2>1 DEF AuthInv, DependenciesAcyclic
  <2>3. HistoryIsOld'
    <3>1. ASSUME NEW x \in depEvent
          PROVE  work'[x.work] # None /\ x.revision <= work'[x.work].revision
      <4>1. /\ x.work \in Works /\ x.revision \in Nat /\ work[x.work] # None
            /\ work[x.work].revision \in Nat /\ x.revision <= work[x.work].revision
        BY <1>0, RowTypes DEF AuthInv, HistoryIsOld
      <4> QED
        BY <1>2, <4>1 DEF Created, Moved
    <3> QED
      BY <1>2, <3>1 DEF HistoryIsOld, Created, Moved
  <2>4. ASSUME NEW v \in Works, work'[v] # None,
               work'[v].state \in {"active", "verification", "completed"}
        PROVE  DependenciesComplete(v)
    <3>1. CASE v # w
      BY <1>2, <2>4, <3>1 DEF AuthInv, StartedWorkDependenciesComplete
    <3>2. CASE v = w /\ Created(w)
      <4>1. \A x \in depEvent : x.work # w
        BY <3>2 DEF Created, AuthInv, HistoryIsOld
      <4> QED
        BY <3>2, <4>1 DEF DependenciesComplete, Dependencies
    <3>3. CASE v = w /\ Moved(w)
      BY <2>4, <3>3 DEF Moved, GatedStates
    <3> QED
      BY <1>2, <3>1, <3>2, <3>3
  <2>5. StartedWorkDependenciesComplete'
    <3>1. \A v \in Works : DependenciesComplete(v) => DependenciesComplete(v)'
      BY <1>0, <2>1, CompleteStays, DependenciesType DEF DependenciesComplete
    <3> QED
      BY <2>4, <3>1 DEF StartedWorkDependenciesComplete
  <2> QED
    BY <2>2, <2>3, <2>5
<1>3. ASSUME NEW w \in Works, \A v \in Works \ {w} : work'[v] = work[v], Revised(w)
      PROVE  Goal
  <2>0. PICK d \in Works, a \in {"added", "removed"} :
          /\ IF a = "added" THEN d \notin Dependencies(w) /\ ~Reaches(d, w) ELSE d \in Dependencies(w)
          /\ depEvent' = depEvent \cup
               {[work |-> w, on |-> d, revision |-> work[w].revision + 1, action |-> a]}
    BY <1>3 DEF Revised
  <2>1. /\ \A v \in Works \ {w} : Dependencies(v)' = Dependencies(v)
        /\ Dependencies(w)' = IF a = "added" THEN Dependencies(w) \cup {d} ELSE Dependencies(w) \ {d}
    BY <1>0, <1>3, <2>0, EdgeChange DEF AuthInv, Revised
  <2>2. DependenciesAcyclic'
    <3>1. CASE a = "added"
      BY <1>0, <2>0, <2>1, <3>1, AddedEdgeKeepsAcyclic DEF AuthInv
    <3>2. CASE a = "removed"
      <4>1. \A v \in Works : Dependencies(v)' \subseteq Dependencies(v)
        BY <2>1, <3>2
      <4> QED
        BY <4>1 DEF AuthInv, DependenciesAcyclic
    <3> QED
      BY <3>1, <3>2
  <2>3. HistoryIsOld'
    <3>1. ASSUME NEW x \in depEvent'
          PROVE  work'[x.work] # None /\ x.revision <= work'[x.work].revision
      <4>1. CASE x \in depEvent
        <5>1. /\ x.work \in Works /\ x.revision \in Nat /\ work[x.work] # None
              /\ work[x.work].revision \in Nat /\ x.revision <= work[x.work].revision
          BY <1>0, <4>1, RowTypes DEF AuthInv, HistoryIsOld
        <5> QED
          BY <1>3, <5>1 DEF Revised
      <4>2. CASE x = [work |-> w, on |-> d, revision |-> work[w].revision + 1, action |-> a]
        <5>1. x.work = w /\ x.revision = work[w].revision + 1 /\ work[w].revision \in Nat
          BY <1>0, <1>3, <4>2, RowTypes DEF Revised
        <5> QED
          BY <1>3, <5>1 DEF Revised
      <4> QED
        BY <2>0, <4>1, <4>2
    <3> QED
      BY <3>1 DEF HistoryIsOld
  <2>4. StartedWorkDependenciesComplete'
    <3>1. work'[w].state \notin {"active", "verification", "completed"}
      BY <1>3 DEF Revised, EditableStates
    <3>2. ASSUME NEW v \in Works \ {w}, DependenciesComplete(v)
          PROVE  DependenciesComplete(v)'
      BY <1>0, <2>1, <3>2, CompleteStays, DependenciesType DEF DependenciesComplete
    <3> QED
      BY <1>3, <3>1, <3>2 DEF AuthInv, StartedWorkDependenciesComplete
  <2> QED
    BY <2>2, <2>3, <2>4
<1> HIDE DEF Goal
<1>4. Goal
  BY <1>0, <1>1, <1>2, <1>3, WorkMoves
<1> QED
  BY <1>4 DEF Goal

-----------------------------------------------------------------------------
(* What one transaction does to a Run step *)

\* The moves of a Run step: added as pending on stored steps, moved along the
\* table, or left alone.
StepAdded(s) ==
  /\ step[s] = None /\ step'[s] # None /\ step'[s].status = "pending"
  /\ \A d \in step'[s].deps : d \in Steps /\ step[d] # None
StepMoved(s) ==
  /\ step[s] # None /\ step'[s] # None /\ step'[s].deps = step[s].deps
  /\ step'[s].status \in StepTransitions[step[s].status]
  /\ step'[s].status \in {"ready", "running"} => StepDependenciesMet(s)

\* Every transaction changes one step at most, in one of these ways.
LEMMA StepMoves ==
  ASSUME AuthTypeOK, [AuthNext]_authVars
  PROVE  \/ step' = step
         \/ \E s \in Steps : /\ StepAdded(s) \/ StepMoved(s)
                             /\ \A t \in Steps \ {s} : step'[t] = step[t]
<1> DEFINE Goal == \/ step' = step
                   \/ \E s \in Steps : /\ StepAdded(s) \/ StepMoved(s)
                                       /\ \A t \in Steps \ {s} : step'[t] = step[t]
<1>1. ASSUME NEW s \in Steps, NEW r \in Runs, NEW D \in SUBSET Steps, AddRunStep(s, r, D)
      PROVE  Goal
  <2> DEFINE b == [run |-> r, status |-> "pending", deps |-> D]
  <2>1. b \in Step
    BY DEF Step, StepStatuses
  <2>2. b # None /\ b.status = "pending" /\ b.deps = D
    BY <2>1, AuthoritySentinel
  <2>3. step[s] = None /\ step' = [step EXCEPT ![s] = b] /\ \A d \in D : d \in Steps /\ step[d] # None
    BY <1>1 DEF AddRunStep, StepsOf
  <2> HIDE DEF b
  <2>4. StepAdded(s) /\ \A t \in Steps \ {s} : step'[t] = step[t]
    BY <2>2, <2>3 DEF AuthTypeOK, StepAdded
  <2> QED
    BY <2>4
<1>2. ASSUME NEW s \in Steps, NEW x \in StepStatuses, NEW to \in StepStatuses, TransitionRunStep(s, x, to)
      PROVE  Goal
  <2> DEFINE b == [step[s] EXCEPT !.status = to]
  <2>1. step[s] # None /\ step[s] \in Step /\ step[s].status = x
    BY <1>2, RowTypes DEF TransitionRunStep
  <2>2. b \in Step
    BY <2>1 DEF Step
  <2>3. b # None /\ b.status = to /\ b.deps = step[s].deps
    BY <2>1, <2>2, AuthoritySentinel DEF Step
  <2>4. /\ step' = [step EXCEPT ![s] = b] /\ to \in StepTransitions[x]
        /\ to \in {"ready", "running"} => StepDependenciesMet(s)
    BY <1>2 DEF TransitionRunStep
  <2> HIDE DEF b
  <2>5. StepMoved(s) /\ \A t \in Steps \ {s} : step'[t] = step[t]
    BY <2>1, <2>3, <2>4 DEF AuthTypeOK, StepMoved
  <2> QED
    BY <2>5
<1>3. ASSUME step' = step
      PROVE  Goal
  BY <1>3
<1>4. ASSUME NEW w \in Works, NEW e \in BOOLEAN,
             \/ \E to \in WorkStates : CreateWork(w, to, e)
             \/ \E x \in 1..MaxRevision, to \in WorkStates : TransitionWork(w, x, to, e)
      PROVE  Goal
  BY <1>3, <1>4 DEF CreateWork, TransitionWork
<1>5. ASSUME NEW w \in Works, NEW d \in Works, NEW x, NEW a, ChangeWorkDependency(w, d, x, a)
      PROVE  Goal
  BY <1>3, <1>5 DEF ChangeWorkDependency
<1>6. ASSUME NEW r \in Runs,
             \/ \E w \in Works, c \in Configs : CreateRun(r, w, c)
             \/ \E expected, to \in RunStatuses : TransitionRun(r, expected, to)
             \/ \E sequence \in 1..MaxSequence : RecordCheckpoint(r, sequence)
      PROVE  Goal
  BY <1>3, <1>6 DEF CreateRun, TransitionRun, RecordCheckpoint
<1>7. ASSUME (\E c \in Configs : ActivateConfig(c)) \/ UNCHANGED authVars
      PROVE  Goal
  BY <1>3, <1>7 DEF ActivateConfig, authVars
<1> HIDE DEF Goal
<1>8. Goal
  BY <1>1, <1>2, <1>4, <1>5, <1>6, <1>7 DEF AuthNext
<1> QED
  BY <1>8 DEF Goal

\* Every transaction keeps the dependencies of steps stored, and those of a step
\* that is ready, runs or succeeded succeeded: "succeeded" has no way out.
LEMMA NextKeepsSteps ==
  ASSUME AuthInv, [AuthNext]_authVars
  PROVE  StepDependenciesStored' /\ StepDependenciesSucceeded'
<1> DEFINE Goal == StepDependenciesStored' /\ StepDependenciesSucceeded'
<1>0. AuthTypeOK
  BY DEF AuthInv
<1>1. ASSUME step' = step
      PROVE  Goal
  BY <1>1 DEF AuthInv, StepDependenciesStored, StepDependenciesSucceeded, StepDependenciesMet
<1>2. ASSUME NEW s \in Steps, \A t \in Steps \ {s} : step'[t] = step[t], StepAdded(s) \/ StepMoved(s)
      PROVE  Goal
  <2>1. \A d \in Steps : step[d] # None => step'[d] # None
    BY <1>2 DEF StepAdded, StepMoved
  <2>2. \A d \in Steps : step[d] # None /\ step[d].status = "succeeded" => step'[d].status = "succeeded"
    BY <1>2 DEF StepAdded, StepMoved, StepTransitions
  <2>3. ASSUME NEW t \in Steps, step[t] # None
        PROVE  /\ step'[t].deps = step[t].deps /\ step[t].deps \in SUBSET Steps
               /\ \A d \in step[t].deps : step[d] # None
    BY <1>0, <1>2, <2>3, RowTypes DEF StepAdded, StepMoved, AuthInv, StepDependenciesStored
  <2>4. StepDependenciesStored'
    <3>1. ASSUME NEW t \in Steps, step'[t] # None, NEW d \in step'[t].deps
          PROVE  step'[d] # None
      <4>1. CASE step[t] # None
        BY <2>1, <2>3, <3>1, <4>1
      <4>2. CASE step[t] = None
        <5>1. t = s /\ StepAdded(s)
          BY <1>2, <3>1, <4>2 DEF StepMoved
        <5> QED
          BY <2>1, <3>1, <5>1 DEF StepAdded
      <4> QED
        BY <4>1, <4>2
    <3> QED
      BY <3>1 DEF StepDependenciesStored
  <2>5. ASSUME NEW t \in Steps, step'[t] # None, step'[t].status \in {"ready", "running", "succeeded"}
        PROVE  step[t] # None /\ StepDependenciesMet(t)
    <3>1. CASE t # s
      BY <1>2, <2>5, <3>1 DEF AuthInv, StepDependenciesSucceeded
    <3>2. CASE t = s
      <4>1. StepMoved(s)
        BY <1>2, <2>5, <3>2 DEF StepAdded
      <4>2. step[s].status \in StepStatuses
        BY <1>0, <4>1, RowTypes DEF StepMoved
      <4>3. step'[s].status = "succeeded" => step[s].status = "running"
        BY <4>1, <4>2 DEF StepMoved, StepTransitions, StepStatuses
      <4> QED
        BY <2>5, <3>2, <4>1, <4>3 DEF StepMoved, AuthInv, StepDependenciesSucceeded
    <3> QED
      BY <3>1, <3>2
  <2>6. StepDependenciesSucceeded'
    <3>1. ASSUME NEW t \in Steps, step'[t] # None, step'[t].status \in {"ready", "running", "succeeded"},
                 NEW d \in step'[t].deps
          PROVE  step'[d].status = "succeeded"
      <4>1. step[t] # None /\ StepDependenciesMet(t)
        BY <2>5, <3>1
      <4>2. d \in step[t].deps /\ d \in Steps /\ step[d] # None
        BY <2>3, <3>1, <4>1
      <4> QED
        BY <2>2, <4>1, <4>2 DEF StepDependenciesMet
    <3> QED
      BY <3>1 DEF StepDependenciesSucceeded, StepDependenciesMet
  <2> QED
    BY <2>4, <2>6
<1> HIDE DEF Goal
<1>3. Goal
  BY <1>0, <1>1, <1>2, StepMoves
<1> QED
  BY <1>3 DEF Goal

-----------------------------------------------------------------------------
(* What no transaction takes back *)

\* A revision names one content, and no revision comes back.
RevisionsNamed ==
  \A w \in Works :
    work[w] # None =>
      /\ work'[w] # None
      /\ work'[w].revision >= work[w].revision
      /\ work'[w].revision = work[w].revision =>
           work'[w] = work[w] /\ Dependencies(w)' = Dependencies(w)

\* An ended Run keeps its row and its checkpoints.
EndedKept ==
  \A r \in Runs :
    run[r] # None /\ run[r].status \in TerminalRun =>
      run'[r] = run[r] /\ checkpoint'[r] = checkpoint[r]

\* A Work moves and its edges change only with a new revision.
LEMMA NextNamesRevisions ==
  ASSUME AuthInv, AuthInv', [AuthNext]_authVars
  PROVE  RevisionsNamed
<1>0. AuthTypeOK /\ AuthTypeOK' /\ \A w \in Works : work[w] # None => work[w].revision \in Nat
  BY RowTypes DEF AuthInv
<1>1. CASE work' = work /\ depEvent' = depEvent
  BY <1>0, <1>1 DEF RevisionsNamed, Dependencies
<1>2. ASSUME NEW w \in Works, \A v \in Works \ {w} : work'[v] = work[v], Created(w) \/ Moved(w)
      PROVE  RevisionsNamed
  <2>1. \A v \in Works : Dependencies(v)' = Dependencies(v)
    BY <1>2 DEF Created, Moved, Dependencies
  <2>2. ASSUME NEW v \in Works, work[v] # None
        PROVE  /\ work'[v] # None
               /\ work'[v].revision >= work[v].revision
               /\ work'[v].revision = work[v].revision =>
                    work'[v] = work[v] /\ Dependencies(v)' = Dependencies(v)
    <3>1. CASE v = w
      BY <1>0, <1>2, <2>2, <3>1 DEF Created, Moved
    <3>2. CASE v # w
      BY <1>0, <1>2, <2>1, <2>2, <3>2
    <3> QED
      BY <3>1, <3>2
  <2> QED
    BY <2>2 DEF RevisionsNamed
<1>3. ASSUME NEW w \in Works, \A v \in Works \ {w} : work'[v] = work[v], Revised(w)
      PROVE  RevisionsNamed
  <2>1. \A v \in Works \ {w} : Dependencies(v)' = Dependencies(v)
    BY <1>0, <1>3, EdgeChange DEF Revised, AuthInv
  <2>2. ASSUME NEW v \in Works, work[v] # None
        PROVE  /\ work'[v] # None
               /\ work'[v].revision >= work[v].revision
               /\ work'[v].revision = work[v].revision =>
                    work'[v] = work[v] /\ Dependencies(v)' = Dependencies(v)
    <3>1. CASE v = w
      BY <1>0, <1>3, <2>2, <3>1 DEF Revised
    <3>2. CASE v # w
      BY <1>0, <1>3, <2>1, <2>2, <3>2
    <3> QED
      BY <3>1, <3>2
  <2> QED
    BY <2>2 DEF RevisionsNamed
<1> QED
  BY <1>0, <1>1, <1>2, <1>3, WorkMoves

\* No transaction touches the row or the checkpoints of an ended Run.
LEMMA NextKeepsEnded ==
  ASSUME AuthInv, [AuthNext]_authVars
  PROVE  EndedKept
<1>0. AuthTypeOK
  BY DEF AuthInv
<1>1. ASSUME UNCHANGED <<run, checkpoint>>
      PROVE  EndedKept
  BY <1>1 DEF EndedKept
<1>2. ASSUME NEW r \in Runs, NEW w \in Works, NEW c \in Configs, CreateRun(r, w, c)
      PROVE  EndedKept
  BY <1>0, <1>2 DEF CreateRun, AuthTypeOK, EndedKept
<1>3. ASSUME NEW r \in Runs, NEW x \in RunStatuses, NEW to \in RunStatuses, TransitionRun(r, x, to)
      PROVE  EndedKept
  <2>1. run[r].status \notin TerminalRun
    BY <1>3 DEF TransitionRun, RunTransitions, TerminalRun
  <2> QED
    BY <1>0, <1>3, <2>1 DEF TransitionRun, AuthTypeOK, EndedKept
<1>4. ASSUME NEW r \in Runs, NEW n \in 1..MaxSequence, RecordCheckpoint(r, n)
      PROVE  EndedKept
  BY <1>0, <1>4 DEF RecordCheckpoint, AuthTypeOK, EndedKept
<1>5. ASSUME NEW r \in Runs, NEW s \in Steps, NEW D \in SUBSET Steps, AddRunStep(s, r, D)
      PROVE  EndedKept
  BY <1>1, <1>5 DEF AddRunStep
<1>6. ASSUME NEW s \in Steps, NEW x, NEW to, TransitionRunStep(s, x, to)
      PROVE  EndedKept
  BY <1>1, <1>6 DEF TransitionRunStep
<1>7. ASSUME NEW w \in Works, NEW e \in BOOLEAN,
             \/ \E to \in WorkStates : CreateWork(w, to, e)
             \/ \E x \in 1..MaxRevision, to \in WorkStates : TransitionWork(w, x, to, e)
      PROVE  EndedKept
  BY <1>1, <1>7 DEF CreateWork, TransitionWork
<1>8. ASSUME NEW w \in Works, NEW d \in Works, NEW x, NEW a, ChangeWorkDependency(w, d, x, a)
      PROVE  EndedKept
  BY <1>1, <1>8 DEF ChangeWorkDependency
<1>9. ASSUME (\E c \in Configs : ActivateConfig(c)) \/ UNCHANGED authVars
      PROVE  EndedKept
  BY <1>1, <1>9 DEF ActivateConfig, authVars
<1> QED
  BY <1>2, <1>3, <1>4, <1>5, <1>6, <1>7, <1>8, <1>9 DEF AuthNext

-----------------------------------------------------------------------------
(* What stays true of the prerequisites of a bound job *)

\* Completed Works stay complete, the history only grows and what is added to
\* it is newer than the Work was, and a step whose dependencies succeeded keeps
\* them.
PrerequisitesKept ==
  /\ \A d \in Works : Complete(d) => Complete(d)'
  /\ depEvent \subseteq depEvent'
  /\ \A x \in depEvent' \ depEvent : x.revision > work[x.work].revision
  /\ \A s \in Steps :
       step[s] # None /\ StepDependenciesMet(s) => step'[s] # None /\ StepDependenciesMet(s)'

\* Every transaction keeps the prerequisites that were met.
LEMMA NextKeepsPrerequisites ==
  ASSUME AuthInv, AuthInv', [AuthNext]_authVars
  PROVE  PrerequisitesKept
<1>0. AuthTypeOK /\ AuthTypeOK'
  BY DEF AuthInv
<1>1. \A d \in Works : Complete(d) => Complete(d)'
  BY <1>0, CompleteStays
<1>2. /\ depEvent \subseteq depEvent'
      /\ \A x \in depEvent' \ depEvent : x.revision > work[x.work].revision
  <2>1. CASE depEvent' = depEvent
    BY <2>1
  <2>2. ASSUME NEW w \in Works, Revised(w)
        PROVE  /\ depEvent \subseteq depEvent'
               /\ \A x \in depEvent' \ depEvent : x.revision > work[x.work].revision
    BY <1>0, <2>2, RowTypes DEF Revised
  <2> QED
    BY <1>0, <2>1, <2>2, WorkMoves DEF Created, Moved
<1>3. ASSUME NEW s \in Steps, step[s] # None, StepDependenciesMet(s)
      PROVE  step'[s] # None /\ StepDependenciesMet(s)'
  <2>1. \A d \in step[s].deps : d \in Steps /\ step[d] # None /\ step[d].status = "succeeded"
    BY <1>0, <1>3, RowTypes DEF AuthInv, StepDependenciesStored, StepDependenciesMet
  <2>2. CASE step' = step
    BY <1>3, <2>2 DEF StepDependenciesMet
  <2>3. ASSUME NEW t \in Steps, StepAdded(t) \/ StepMoved(t),
               \A u \in Steps \ {t} : step'[u] = step[u]
        PROVE  step'[s] # None /\ StepDependenciesMet(s)'
    <3>1. \A u \in Steps : step[u] # None /\ step[u].status = "succeeded" => u # t
      BY <2>3 DEF StepAdded, StepMoved, StepTransitions
    <3>2. step'[s] # None /\ step'[s].deps = step[s].deps
      BY <1>3, <2>3 DEF StepAdded, StepMoved
    <3> QED
      BY <2>1, <2>3, <3>1, <3>2 DEF StepDependenciesMet
  <2> QED
    BY <1>0, <2>2, <2>3, StepMoves
<1> QED
  BY <1>1, <1>2, <1>3 DEF PrerequisitesKept

-----------------------------------------------------------------------------
(* The theorems *)

\* The empty tables are consistent.
LEMMA InitAuth == AuthInit => AuthInv
<1> SUFFICES ASSUME AuthInit PROVE AuthInv
  OBVIOUS
<1>1. \A w : Dependencies(w) = {}
  BY DEF AuthInit, Dependencies
<1>2. DependenciesAcyclic
  BY <1>1 DEF DependenciesAcyclic
<1> QED
  BY <1>2 DEF AuthInit, AuthInv, AuthTypeOK, HistoryIsOld, StepDependenciesStored,
              StartedWorkDependenciesComplete, StepDependenciesSucceeded

\* Every transaction keeps the tables consistent.
LEMMA NextKeepsAuth ==
  ASSUME AuthInv, [AuthNext]_authVars
  PROVE  AuthInv'
BY AuthNextType, NextKeepsGraph, NextKeepsSteps DEF AuthInv

\* The inductive invariant of the authority rows.
LEMMA AuthConsistent == AuthSpec => []AuthInv
BY InitAuth, NextKeepsAuth, PTL DEF AuthSpec

\* The columns of the authority tables hold values of their declared domains in
\* every reachable state.
THEOREM AuthTypeCorrect == AuthSpec => []AuthTypeOK
BY AuthConsistent, PTL DEF AuthInv

\* No sequence of added and removed edges makes a cycle of Works that wait for
\* each other.
THEOREM NoDependencyCycle == AuthSpec => []DependenciesAcyclic
BY AuthConsistent, PTL DEF AuthInv

\* Neither a Work nor a Run step overtakes what it depends on.
THEOREM NothingOvertakes == AuthSpec => []DependenciesFirst
<1>1. AuthInv => DependenciesFirst
  BY DEF AuthInv, DependenciesFirst
<1> QED
  BY <1>1, AuthConsistent, PTL

\* A revision names one content of its Work for ever, and an ended Run keeps its
\* status and its checkpoints.
THEOREM HistoryStays == AuthSpec => HistoryIsKept
<1>1. AuthInv /\ AuthInv' /\ [AuthNext]_authVars => [RevisionsNamed]_authVars /\ [EndedKept]_authVars
  BY NextNamesRevisions, NextKeepsEnded
<1> QED
  BY <1>1, AuthConsistent, PTL
    DEF AuthSpec, HistoryIsKept, RevisionNamesContent, EndedRunIsFrozen, RevisionsNamed, EndedKept
=============================================================================
