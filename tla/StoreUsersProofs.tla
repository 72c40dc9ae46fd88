-------------------------- MODULE StoreUsersProofs --------------------------
(***************************************************************************)
(* Theorems about two users of the runtime store, for every value of the   *)
(* constants.                                                              *)
(*                                                                         *)
(* BoundJobs: the two stores in one file are behaviours of each, so what   *)
(* is proved of each alone holds of both together; no effect is claimed    *)
(* ahead of what its job depends on; and retired authority starts nothing  *)
(* again.                                                                  *)
(*                                                                         *)
(* PublisherTick: for any number of publisher processes, events and        *)
(* deaths, an event is sent at most once and no delivery is invented.      *)
(***************************************************************************)
EXTENDS BoundJobs, PublisherTick, LocalRuntimeProofs

\* The lemmas about the operational store, whose operators are those of Auth.
Facts == INSTANCE OperationalStoreProofs

-----------------------------------------------------------------------------
(* The operators of the two instances are the same *)

\* Both are OperationalStore over the same rows.
LEMMA SameOperators ==
  /\ \A w : Facts!Complete(w) <=> Auth!Complete(w)
  /\ \A w : Facts!Dependencies(w) = Auth!Dependencies(w)
  /\ \A w : Facts!DependenciesComplete(w) <=> Auth!DependenciesComplete(w)
  /\ \A s : Facts!StepDependenciesMet(s) <=> Auth!StepDependenciesMet(s)
  /\ Facts!TerminalRun = Auth!TerminalRun
  /\ Facts!authVars = authVars /\ Auth!authVars = authVars
BY DEF Facts!Complete, Auth!Complete, Facts!Dependencies, Auth!Dependencies,
       Facts!DependenciesComplete, Auth!DependenciesComplete,
       Facts!StepDependenciesMet, Auth!StepDependenciesMet,
       Facts!TerminalRun, Auth!TerminalRun, Facts!authVars, Auth!authVars, authVars

\* So are their steps.
LEMMA SameSteps == Facts!AuthNext <=> Auth!AuthNext
BY DEF Facts!AuthNext, Auth!AuthNext, Facts!CreateWork, Auth!CreateWork,
       Facts!TransitionWork, Auth!TransitionWork,
       Facts!ChangeWorkDependency, Auth!ChangeWorkDependency,
       Facts!ActivateConfig, Auth!ActivateConfig, Facts!CreateRun, Auth!CreateRun,
       Facts!TransitionRun, Auth!TransitionRun, Facts!RecordCheckpoint, Auth!RecordCheckpoint,
       Facts!AddRunStep, Auth!AddRunStep, Facts!TransitionRunStep, Auth!TransitionRunStep,
       Facts!WorkStates, Auth!WorkStates, Facts!RunStatuses, Auth!RunStatuses,
       Facts!StepStatuses, Auth!StepStatuses, Facts!StepsOf, Auth!StepsOf,
       Facts!StepDependenciesMet, Auth!StepDependenciesMet,
       Facts!DependenciesComplete, Auth!DependenciesComplete, Facts!Complete, Auth!Complete,
       Facts!Dependencies, Auth!Dependencies, Facts!Reaches, Auth!Reaches,
       Facts!GatedStates, Auth!GatedStates, Facts!EditableStates, Auth!EditableStates,
       Facts!TerminalRun, Auth!TerminalRun, Facts!WorkTransitions, Auth!WorkTransitions,
       Facts!RunTransitions, Auth!RunTransitions, Facts!StepTransitions, Auth!StepTransitions

\* The assumptions of OperationalStore.
LEMMA AuthorityConstants ==
  /\ None \notin Facts!Work /\ None \notin Facts!Run /\ None \notin Facts!Step
  /\ MaxRevision \in Nat /\ MaxSequence \in Nat
BY AuthorityAssumption
   DEF Facts!Work, Auth!Work, Facts!Run, Auth!Run, Facts!Step, Auth!Step,
       Facts!WorkStates, Auth!WorkStates, Facts!RunStatuses, Auth!RunStatuses,
       Facts!StepStatuses, Auth!StepStatuses

\* What every call of the operational store keeps.
LEMMA AuthorityKept ==
  ASSUME Facts!AuthInv, [Auth!AuthNext]_authVars
  PROVE  /\ Facts!AuthInv' /\ Facts!PrerequisitesKept
         /\ Facts!RevisionsNamed /\ Facts!EndedKept
<1>1. [Facts!AuthNext]_(Facts!authVars)
  BY SameSteps DEF Facts!authVars, authVars
<1>2. Facts!AuthInv'
  BY <1>1, AuthorityConstants, Facts!NextKeepsAuth
<1> QED
  BY <1>1, <1>2, AuthorityConstants, Facts!NextKeepsPrerequisites, Facts!NextNamesRevisions, Facts!NextKeepsEnded

-----------------------------------------------------------------------------
(* Both stores in one file *)

\* No call of the runtime store writes the authority bit, and only a job whose
\* binding is current gets a new attempt or a new claim.
LEMMA QueueNeedsAuthority ==
  ASSUME TypeOK, JobStep
  PROVE  /\ current' = current
         /\ \A j \in Jobs : attempts'[j] = attempts[j] \/ BindingCurrent(j)
<1> DEFINE Goal == /\ current' = current
                   /\ \A j \in Jobs : attempts'[j] = attempts[j] \/ BindingCurrent(j)
<1> USE DEF jobVars, leaseVars, effectVars
<1>1. ASSUME current' = current, attempts' = attempts
      PROVE  Goal
  BY <1>1
<1>2. ASSUME NEW j \in Jobs, NEW q, InsertJob(j, q)
      PROVE  Goal
  BY <1>1, <1>2 DEF InsertJob
<1>3. ASSUME NEW m, NEW O, Sweep(m, O)
      PROVE  Goal
  BY <1>1, <1>3 DEF Sweep
<1>4. ASSUME NEW p, NEW j \in Jobs, NEW R, NEW m, ClaimNext(p, j, R, m)
      PROVE  Goal
  BY <1>4 DEF ClaimNext, Claimable, TypeOK
<1>5. ASSUME NEW p, NEW j \in Jobs, NEW m, NEW f,
             \/ Heartbeat(p, j, f, m)
             \/ \E k \in Effects : ClaimEffect(p, j, f, k, m)
             \/ \E to \in {"completed", "failed"} : FinishTerminal(p, j, f, to, m)
             \/ FinishRecovery(p, j, f, m)
             \/ Quarantine(p, j, f, m)
      PROVE  Goal
  BY <1>1, <1>5 DEF Heartbeat, ClaimEffect, FinishTerminal, FinishRecovery, Quarantine, EndLease
<1>6. ASSUME \/ ProbeOrphans \/ AbandonOrphans(now)
             \/ \E k \in Effects, s \in Statuses : RecordReceipt(k, s)
             \/ \E k \in Effects, o \in {"completed", "failed"} : ResolveEffect(k, o)
             \/ \E j \in Jobs : ReconcileRecovery(j)
      PROVE  Goal
  BY <1>1, <1>6 DEF ProbeOrphans, AbandonOrphans, RecordReceipt, ResolveEffect, ReconcileRecovery
<1> HIDE DEF Goal
<1> QED
  BY <1>2, <1>3, <1>4, <1>5, <1>6 DEF Goal, JobStep, Enqueue, ScheduleOnce, RecoverExpired, RecoverOrphans

\* The bit that the queue looks at is the query of the binding.
CurrentIsQuery == current = CurrentJobs

\* A step of the two stores is a step of each, or leaves it alone, and keeps the
\* bit up to date.
LEMMA BoundSteps ==
  ASSUME TypeOK, CurrentIsQuery, [BoundNext]_boundVars
  PROVE  [Next]_vars /\ [Auth!AuthNext]_authVars /\ CurrentIsQuery'
<1>1. CASE RuntimeStep
  <2>1. CASE JobStep
    <3>1. current' = current /\ [Next]_vars
      BY <2>1, QueueNeedsAuthority DEF Next, QueueStep
    <3>2. CurrentJobs' = CurrentJobs
      BY <1>1 DEF RuntimeStep, CurrentJobs, CurrentTuple, Admitted, authVars, Auth!StepDependenciesMet,
                  Auth!DependenciesComplete, Auth!Dependencies, Auth!Complete
    <3> QED
      BY <1>1, <3>1, <3>2 DEF RuntimeStep, CurrentIsQuery
  <2>2. CASE OutboxStep /\ UNCHANGED storeVars
    <3>1. current' = current /\ [Next]_vars
      BY <2>2 DEF Next, storeVars
    <3>2. CurrentJobs' = CurrentJobs
      BY <1>1 DEF RuntimeStep, CurrentJobs, CurrentTuple, Admitted, authVars, Auth!StepDependenciesMet,
                  Auth!DependenciesComplete, Auth!Dependencies, Auth!Complete
    <3> QED
      BY <1>1, <3>1, <3>2 DEF RuntimeStep, CurrentIsQuery
  <2> QED
    BY <1>1, <2>1, <2>2 DEF RuntimeStep
<1>2. CASE AuthorityStep
  <2>1. CurrentIsQuery' /\ [Auth!AuthNext]_authVars
    BY <1>2 DEF AuthorityStep, CurrentIsQuery
  <2>2. current' \in SUBSET Bound
    BY <1>2 DEF AuthorityStep, CurrentJobs
  <2>3. CASE current' # current
    BY <1>2, <2>1, <2>2, <2>3 DEF AuthorityStep, AuthorityChange, Next, QueueStep
  <2>4. CASE current' = current
    BY <1>2, <2>1, <2>4 DEF AuthorityStep, vars, storeVars, jobVars, leaseVars, effectVars
  <2> QED
    BY <2>1, <2>3, <2>4
<1>3. CASE UNCHANGED boundVars
  <2>1. UNCHANGED vars /\ UNCHANGED authVars /\ current' = current
    BY <1>3 DEF boundVars, vars, storeVars
  <2>2. CurrentJobs' = CurrentJobs
    BY <2>1 DEF CurrentJobs, CurrentTuple, Admitted, authVars, Auth!StepDependenciesMet,
                Auth!DependenciesComplete, Auth!Dependencies, Auth!Complete
  <2> QED
    BY <2>1, <2>2 DEF CurrentIsQuery
<1> QED
  BY <1>1, <1>2, <1>3 DEF BoundNext

\* The two stores in one file, seen through the rows of either, are that store:
\* what is proved of each alone holds of both together.
THEOREM BoundJobsUseTheStores == BoundSpec => Spec /\ Auth!AuthSpec
<1>1. BoundInit => Init /\ Auth!AuthInit /\ TypeOK /\ CurrentIsQuery
  BY InitType DEF BoundInit, CurrentIsQuery
<1>2. TypeOK /\ CurrentIsQuery /\ [BoundNext]_boundVars =>
        TypeOK' /\ CurrentIsQuery' /\ [Next]_vars /\ [Auth!AuthNext]_authVars
  BY BoundSteps, NextType
<1>3. [Auth!AuthNext]_authVars => [Auth!AuthNext]_(Auth!authVars)
  BY DEF Auth!authVars, authVars
<1> QED
  BY <1>1, <1>2, <1>3, PTL DEF BoundSpec, Spec, Auth!AuthSpec

-----------------------------------------------------------------------------
(* Effects behind their prerequisites *)

\* The prerequisites of a binding were met at its revision of the Work.
PrerequisitesMet(b) ==
  /\ work[b.work] # None /\ work[b.work].revision >= b.revision
  /\ \A d \in DependenciesAt(b.work, b.revision) : Auth!Complete(d)
  /\ b.step # None => step[b.step] # None /\ Auth!StepDependenciesMet(b.step)

ClaimsBehindPrerequisites ==
  \A k \in Effects, j \in Bound :
    claim[k] # None /\ claim[k].job = j => PrerequisitesMet(Binding[j])

BoundInv == StoreInv /\ Facts!AuthInv /\ CurrentIsQuery /\ ClaimsBehindPrerequisites

\* A binding that is current has its prerequisites: the history of the Work has
\* nothing newer than its revision.
LEMMA CurrentHasPrerequisites ==
  ASSUME Facts!AuthInv, NEW b \in Tuple, CurrentTuple(b)
  PROVE  PrerequisitesMet(b)
<1>1. /\ work[b.work] # None /\ work[b.work].revision = b.revision /\ b.work \in Works
      /\ b.revision \in Nat /\ Auth!DependenciesComplete(b.work)
      /\ b.step # None => step[b.step] # None /\ Auth!StepDependenciesMet(b.step)
  BY DEF CurrentTuple, Admitted, Tuple
<1>2. \A x \in depEvent : x.revision \in Nat /\ x.revision <= work[x.work].revision
  BY DEF Facts!AuthInv, Facts!HistoryIsOld, Facts!AuthTypeOK, Facts!DepEvent
<1>3. DependenciesAt(b.work, b.revision) \subseteq Auth!Dependencies(b.work)
  BY <1>1, <1>2 DEF DependenciesAt, Auth!Dependencies
<1> QED
  BY <1>1, <1>3 DEF PrerequisitesMet, Auth!DependenciesComplete

\* Prerequisites that were met stay met: what joins the history is newer than
\* the binding's revision.
LEMMA PrerequisitesStay ==
  ASSUME Facts!AuthInv, Facts!AuthInv', [Auth!AuthNext]_authVars, NEW b \in Tuple, PrerequisitesMet(b)
  PROVE  PrerequisitesMet(b)'
<1>1. b.work \in Works /\ b.revision \in Nat /\ b.step \in Steps \cup {None}
  BY DEF Tuple
<1>2. /\ work'[b.work] # None /\ work'[b.work].revision >= work[b.work].revision
      /\ work[b.work].revision \in Nat /\ work'[b.work].revision \in Nat
  <2>1. work'[b.work] # None /\ work'[b.work].revision >= work[b.work].revision
    BY <1>1, AuthorityKept DEF PrerequisitesMet, Facts!RevisionsNamed
  <2> QED
    BY <1>1, <2>1 DEF PrerequisitesMet, Facts!AuthInv, Facts!AuthTypeOK, Facts!Work
<1>3. /\ depEvent \subseteq depEvent'
      /\ \A x \in depEvent' \ depEvent : x.revision > work[x.work].revision
      /\ \A x \in depEvent' : x.revision \in Nat /\ x.on \in Works
  BY AuthorityKept DEF Facts!PrerequisitesKept, Facts!AuthInv, Facts!AuthTypeOK, Facts!DepEvent
<1>4. DependenciesAt(b.work, b.revision)' \subseteq DependenciesAt(b.work, b.revision) \cap Works
  <2>1. ASSUME NEW x \in depEvent', x.work = b.work, x.revision <= b.revision
        PROVE  x \in depEvent
    BY <1>1, <1>2, <1>3, <2>1 DEF PrerequisitesMet
  <2> QED
    BY <1>3, <2>1 DEF DependenciesAt
<1>5. \A d \in Works : Auth!Complete(d) => Auth!Complete(d)'
  BY AuthorityKept DEF Facts!PrerequisitesKept, Facts!Complete, Auth!Complete
<1>6. b.step # None => step'[b.step] # None /\ Auth!StepDependenciesMet(b.step)'
  BY <1>1, AuthorityKept DEF PrerequisitesMet, Facts!PrerequisitesKept, Facts!StepDependenciesMet,
                             Auth!StepDependenciesMet
<1> QED
  BY <1>1, <1>2, <1>4, <1>5, <1>6 DEF PrerequisitesMet

\* Every call of either store keeps the invariant.
LEMMA NextKeepsBound ==
  ASSUME BoundInv, [BoundNext]_boundVars
  PROVE  BoundInv'
<1>1. TypeOK /\ [Next]_vars /\ [Auth!AuthNext]_authVars /\ CurrentIsQuery'
  BY BoundSteps DEF BoundInv, StoreInv
<1>2. StoreInv' /\ Facts!AuthInv'
  BY <1>1, NextKeepsStore, AuthorityKept DEF BoundInv
<1>3. ASSUME NEW k \in Effects, NEW i \in Bound, claim[k] # None, claim[k].job = i
      PROVE  PrerequisitesMet(Binding[i])'
  <2>1. Binding[i] \in Tuple /\ PrerequisitesMet(Binding[i])
    BY <1>3, BindingAssumption DEF BoundInv, ClaimsBehindPrerequisites
  <2> QED
    BY <1>1, <1>2, <2>1, PrerequisitesStay DEF BoundInv
<1>4. CASE claim' = claim
  BY <1>1, <1>2, <1>3, <1>4 DEF BoundInv, ClaimsBehindPrerequisites
<1>5. ASSUME NEW p \in Workers, NEW j \in Jobs, NEW m \in Moments, NEW k \in Effects,
             NEW f \in 1..fence[j], ClaimEffect(p, j, f, k, m), UNCHANGED authVars
      PROVE  ClaimsBehindPrerequisites'
  <2>1. /\ claim' = [claim EXCEPT ![k] = [job |-> j, fence |-> f]]
        /\ \A i \in Effects \ {k} : claim'[i] = claim[i]
        /\ claim'[k] = [job |-> j, fence |-> f]
    BY <1>1, <1>5 DEF ClaimEffect, TypeOK
  <2>2. ASSUME j \in Bound
        PROVE  PrerequisitesMet(Binding[j])'
    <3>1. Binding[j] \in Tuple /\ CurrentTuple(Binding[j])
      BY <1>5, <2>2, BindingAssumption DEF ClaimEffect, BindingCurrent, BoundInv, CurrentIsQuery, CurrentJobs
    <3>2. PrerequisitesMet(Binding[j])
      BY <3>1, CurrentHasPrerequisites DEF BoundInv
    <3> QED
      BY <1>1, <1>2, <3>1, <3>2, PrerequisitesStay DEF BoundInv
  <2>3. ASSUME NEW x \in Effects, NEW i \in Bound, claim'[x] # None, claim'[x].job = i
        PROVE  PrerequisitesMet(Binding[i])'
    <3>1. CASE x = k
      BY <2>1, <2>2, <2>3, <3>1
    <3>2. CASE x # k
      BY <1>3, <2>1, <2>3, <3>2
    <3> QED
      BY <3>1, <3>2
  <2> QED
    BY <2>3 DEF ClaimsBehindPrerequisites
<1>6. CASE RuntimeStep
  <2>1. CASE JobStep
    <3>1. \/ claim' = claim
          \/ \E p \in Workers, j \in Jobs, m \in Moments, k \in Effects :
               \E f \in 1..fence[j] : ClaimEffect(p, j, f, k, m)
      BY <2>1, QueueStepMoves DEF BoundInv, QueueStep
    <3>2. UNCHANGED authVars
      BY <1>6 DEF RuntimeStep
    <3>3. claim' = claim \/ ClaimsBehindPrerequisites'
      BY <1>5, <3>1, <3>2
    <3> QED
      BY <1>1, <1>2, <1>4, <3>3 DEF BoundInv
  <2>2. CASE UNCHANGED storeVars
    BY <1>4, <2>2 DEF storeVars, effectVars
  <2> QED
    BY <1>6, <2>1, <2>2 DEF RuntimeStep
<1>7. CASE AuthorityStep
  BY <1>4, <1>7 DEF AuthorityStep, effectVars
<1>8. CASE UNCHANGED boundVars
  BY <1>4, <1>8 DEF boundVars, vars, storeVars, effectVars
<1> QED
  BY <1>6, <1>7, <1>8 DEF BoundNext

\* The inductive invariant of the two stores together.
LEMMA BoundConsistent == BoundSpec => []BoundInv
<1>1. BoundInit => BoundInv
  <2> SUFFICES ASSUME BoundInit PROVE BoundInv
    OBVIOUS
  <2>1. Facts!AuthInit
    BY DEF BoundInit, Auth!AuthInit, Facts!AuthInit
  <2>2. Facts!AuthInv
    BY <2>1, AuthorityConstants, Facts!InitAuth
  <2> QED
    BY <2>2, InitStore DEF BoundInit, BoundInv, CurrentIsQuery, ClaimsBehindPrerequisites, Init
<1> QED
  BY <1>1, NextKeepsBound, PTL DEF BoundSpec

\* No effect of a bound job ahead of its prerequisites: the claim asks the query
\* of the binding, and none of what it asks about is taken back later.
THEOREM EffectsFollowPrerequisites == BoundSpec => []EffectAfterPrerequisites
<1>1. BoundInv => EffectAfterPrerequisites
  BY DEF BoundInv, ClaimsBehindPrerequisites, PrerequisitesMet, EffectAfterPrerequisites
<1> QED
  BY <1>1, BoundConsistent, PTL

-----------------------------------------------------------------------------
(* Retired authority *)

\* A binding whose authority is retired is not current.
LEMMA RetiredIsNotCurrent ==
  ASSUME Facts!AuthInv, NEW b \in Tuple, Retired(b)
  PROVE  ~CurrentTuple(b)
<1>1. b.work \in Works /\ b.revision \in Nat
  BY DEF Tuple
<1> QED
  BY <1>1 DEF Retired, CurrentTuple, Admitted, Auth!TerminalRun

\* Authority does not come back: revisions only grow and ended Runs are kept.
LEMMA RetiredStays ==
  ASSUME Facts!AuthInv, Facts!AuthInv', [Auth!AuthNext]_authVars, NEW b \in Tuple, Retired(b)
  PROVE  Retired(b)'
<1>1. b.work \in Works /\ b.revision \in Nat /\ b.run \in Runs
  BY DEF Tuple
<1>2. CASE work[b.work] # None /\ work[b.work].revision > b.revision
  <2>1. work'[b.work] # None /\ work'[b.work].revision >= work[b.work].revision
    BY <1>1, <1>2, AuthorityKept DEF Facts!RevisionsNamed
  <2>2. work[b.work].revision \in Nat /\ work'[b.work].revision \in Nat
    BY <1>1, <1>2, <2>1 DEF Facts!AuthInv, Facts!AuthTypeOK, Facts!Work
  <2> QED
    BY <1>1, <1>2, <2>1, <2>2 DEF Retired
<1>3. CASE run[b.run] # None /\ run[b.run].status \in Auth!TerminalRun
  <2>1. run'[b.run] = run[b.run]
    BY <1>1, <1>3, AuthorityKept DEF Facts!EndedKept, Facts!TerminalRun, Auth!TerminalRun
  <2> QED
    BY <1>3, <2>1 DEF Retired
<1> QED
  BY <1>2, <1>3 DEF Retired

\* Retired authority starts nothing again, whatever leases, retries and
\* configurations come back.
THEOREM RetiredStaysStopped == BoundSpec => RetiredNeverStarts
<1>1. ASSUME BoundInv, [BoundNext]_boundVars, NEW j \in Bound, Retired(Binding[j])
      PROVE  /\ Retired(Binding[j])'
             /\ attempts'[j] = attempts[j]
             /\ ClaimsOf(j)' = ClaimsOf(j)
  <2>1. Binding[j] \in Tuple /\ j \in Jobs /\ TypeOK /\ StoreInv /\ Facts!AuthInv
    BY <1>1, BindingAssumption, StoreAssumption DEF BoundInv, StoreInv
  <2>2. Retired(Binding[j])'
    BY <1>1, <2>1, BoundSteps, AuthorityKept, RetiredStays DEF BoundInv
  <2>3. ~BindingCurrent(j)
    BY <1>1, <2>1, RetiredIsNotCurrent DEF BindingCurrent, BoundInv, CurrentIsQuery, CurrentJobs
  <2>4. CASE UNCHANGED <<attempts, claim>>
    BY <2>2, <2>4 DEF ClaimsOf
  <2>5. CASE JobStep
    <3>1. attempts'[j] = attempts[j]
      BY <2>1, <2>3, <2>5, QueueNeedsAuthority
    <3>2. CASE claim' = claim
      BY <2>2, <3>1, <3>2 DEF ClaimsOf
    <3>3. ASSUME NEW p \in Workers, NEW i \in Jobs, NEW m \in Moments, NEW k \in Effects,
                 NEW f \in 1..fence[i], ClaimEffect(p, i, f, k, m)
          PROVE  ClaimsOf(j)' = ClaimsOf(j)
      <4>1. i # j
        BY <2>3, <3>3 DEF ClaimEffect
      <4>2. /\ claim[k] = None /\ claim'[k] = [job |-> i, fence |-> f]
            /\ \A x \in Effects \ {k} : claim'[x] = claim[x]
        BY <2>1, <3>3 DEF ClaimEffect, TypeOK
      <4> QED
        BY <4>1, <4>2 DEF ClaimsOf
    <3> QED
      BY <2>1, <2>2, <2>5, <3>1, <3>2, <3>3, QueueStepMoves DEF QueueStep
  <2>6. CASE (OutboxStep /\ UNCHANGED storeVars) \/ AuthorityStep \/ UNCHANGED boundVars
    BY <2>4, <2>6 DEF storeVars, AuthorityStep, boundVars, vars, jobVars, effectVars
  <2> QED
    BY <1>1, <2>5, <2>6 DEF BoundNext, RuntimeStep
<1> DEFINE Stopped == \A j \in Bound :
             Retired(Binding[j]) =>
               /\ Retired(Binding[j])'
               /\ attempts'[j] = attempts[j]
               /\ ClaimsOf(j)' = ClaimsOf(j)
<1>2. BoundInv /\ [BoundNext]_boundVars => [Stopped]_boundVars
  BY <1>1
<1> QED
  BY <1>2, BoundConsistent, PTL DEF BoundSpec, RetiredNeverStarts

-----------------------------------------------------------------------------
(* publish_outbox_once over the store's outbox *)

USE DEF Procs

(***************************************************************************)
(* The inductive invariant.  claim_outbox makes a publisher the owner of   *)
(* an event for ever, so the event that a busy publisher holds is its own; *)
(* whether it was sent already is decided by the place of that one tick.   *)
(***************************************************************************)

\* What the place of a tick says about the event it holds.
PlaceIsTrue(p) ==
  LET e == held[p] IN
  /\ at[p] # "idle" =>
       e \in DOMAIN delivery /\ delivery[e].state # "pending" /\ delivery[e].owner = p
  /\ at[p] = "claimed" => e \notin DOMAIN sent
  /\ at[p] \in {"sending", "returned", "judged"} => e \in DOMAIN sent
  /\ at[p] \in {"returned", "judged"} =>
       verdict[p] \in Verdicts /\ (verdict[p] = "delivered" => e \in acked)

PlacesAreTrue == \A p \in Publishers : PlaceIsTrue(p)

\* An event that was sent was taken before, and sent once.
SentIsTaken ==
  \A e \in DOMAIN sent :
    e \in DOMAIN delivery /\ delivery[e].state # "pending" /\ sent[e] <= 1

PublisherInv ==
  /\ StoreInv /\ OutboxInv
  /\ PublisherTypeOK /\ PlacesAreTrue /\ SentIsTaken /\ NoInventedDelivery

-----------------------------------------------------------------------------
(* The publishers use the outbox *)

\* Every step of the publishers and their surroundings is a step of the store,
\* or leaves the store alone.
LEMMA PublisherStepIsNext ==
  ASSUME PublisherInv, [PublisherNext]_publisherVars
  PROVE  [Next]_vars
<1>1. ASSUME NEW p \in Publishers, NEW e \in DOMAIN delivery, NEW m \in Moments, Take(p, e, m)
      PROVE  [Next]_vars
  BY <1>1 DEF Take, Next, OutboxStep
<1>2. ASSUME NEW p \in Publishers, NEW m \in Moments, KeeperRenews(p, m) \/ Confirm(p, m)
      PROVE  [Next]_vars
  <2>1. HeartbeatOutbox(p, held[p], box[p], m) /\ UNCHANGED storeVars
    BY <1>2 DEF KeeperRenews, Confirm
  <2>2. held[p] \in DOMAIN delivery /\ box[p] = delivery[held[p]].expires
    BY <2>1 DEF HeartbeatOutbox, HoldsClaim
  <2> QED
    BY <2>1, <2>2 DEF Next, OutboxStep
<1>3. ASSUME NEW p \in Publishers, NEW m \in Moments, Receipt(p, m)
      PROVE  [Next]_vars
  <2>1. RecordOutboxReceipt(p, held[p], box[p], verdict[p], m) /\ UNCHANGED storeVars
    BY <1>3 DEF Receipt
  <2>2. held[p] \in DOMAIN delivery /\ box[p] = delivery[held[p]].expires
    BY <2>1 DEF RecordOutboxReceipt, HoldsClaim
  <2>3. verdict[p] \in {"delivered", "failed", "unknown"}
    BY <1>3 DEF Receipt, At, PublisherInv, PlacesAreTrue, PlaceIsTrue, Verdicts
  <2> QED
    BY <2>1, <2>2, <2>3 DEF Next, OutboxStep
<1>4. ASSUME NEW p \in Publishers,
             \/ \E s \in Verdicts : Return(p, s)
             \/ Send(p) \/ KeeperStores(p) \/ KeeperFails(p) \/ LoseClaim(p) \/ Raise(p)
      PROVE  UNCHANGED vars
  BY <1>4 DEF Return, Send, KeeperStores, KeeperFails, LoseClaim, Raise
<1>5. ASSUME StartupOutbox \/ Client \/ Human \/ Environment
      PROVE  [Next]_vars
  BY <1>5 DEF StartupOutbox, Client, Human, Environment, Next, OutboxStep, QueueStep, JobStep
<1>6. ASSUME NEW p \in Publishers, NEW m \in Moments, TakeNothing(p, m)
      PROVE  [Next]_vars
  BY <1>6 DEF TakeNothing, Next, OutboxStep
<1> QED
  BY <1>1, <1>2, <1>3, <1>4, <1>5, <1>6 DEF PublisherNext, PublisherStep, publisherVars

-----------------------------------------------------------------------------
(* The ticks *)

\* A publisher that does not move keeps its place true: what it holds stays its
\* own, and nobody else sends it.
LEMMA StillPlace ==
  ASSUME PublisherInv, [Next]_vars, NEW p \in Publishers, at'[p] = at[p], held'[p] = held[p],
         verdict'[p] = verdict[p], DOMAIN sent \subseteq DOMAIN sent', acked \subseteq acked',
         at[p] = "claimed" => held[p] \notin DOMAIN sent'
  PROVE  PlaceIsTrue(p)'
<1>1. PlaceIsTrue(p)
  BY DEF PublisherInv, PlacesAreTrue
<1>2. \A e \in DOMAIN delivery :
        /\ e \in DOMAIN delivery'
        /\ delivery[e].state # "pending" =>
             delivery'[e].state # "pending" /\ delivery'[e].owner = delivery[e].owner
  BY NextKeepsOwners DEF PublisherInv
<1> QED
  BY <1>1, <1>2 DEF PlaceIsTrue

\* What is sent stays taken as long as nothing new is sent.
LEMMA SentStaysTaken ==
  ASSUME PublisherInv, [Next]_vars, sent' = sent
  PROVE  SentIsTaken'
BY NextKeepsOwners DEF PublisherInv, SentIsTaken

\* Steps that touch no tick.
LEMMA TickFrame ==
  ASSUME PublisherInv, [Next]_vars, UNCHANGED tickVars
  PROVE  PublisherTypeOK' /\ PlacesAreTrue' /\ SentIsTaken'
<1> USE DEF tickVars
<1>1. PublisherTypeOK'
  BY DEF PublisherInv, PublisherTypeOK
<1>2. ASSUME NEW p \in Publishers
      PROVE  PlaceIsTrue(p)'
  BY StillPlace DEF PublisherInv, PlacesAreTrue, PlaceIsTrue
<1> QED
  BY <1>1, <1>2, SentStaysTaken DEF PlacesAreTrue

\* Every step of a publisher keeps the ticks.
LEMMA PublisherStepKeepsTicks ==
  ASSUME PublisherInv, [Next]_vars, NEW p \in Publishers, PublisherStep(p)
  PROVE  PublisherTypeOK' /\ PlacesAreTrue' /\ SentIsTaken'
<1> DEFINE Goal == PublisherTypeOK' /\ PlacesAreTrue' /\ SentIsTaken'
<1>0. /\ PublisherTypeOK /\ PlaceIsTrue(p) /\ SentIsTaken /\ TypeOK
      /\ \A q \in Publishers : PlaceIsTrue(q)
  BY DEF PublisherInv, PlacesAreTrue, StoreInv
<1>a. \A e \in DOMAIN delivery :
        /\ e \in DOMAIN delivery'
        /\ delivery[e].state # "pending" =>
             delivery'[e].state # "pending" /\ delivery'[e].owner = delivery[e].owner
  BY NextKeepsOwners DEF PublisherInv
\* A step that sends nothing: the other publishers stay where they are.
<1>1. ASSUME PublisherTypeOK', sent' = sent, acked \subseteq acked', PlaceIsTrue(p)',
             \A q \in Publishers \ {p} :
               at'[q] = at[q] /\ held'[q] = held[q] /\ verdict'[q] = verdict[q]
      PROVE  Goal
  <2>1. ASSUME NEW q \in Publishers \ {p}
        PROVE  PlaceIsTrue(q)'
    <3>1. at[q] = "claimed" => held[q] \notin DOMAIN sent'
      BY <1>0, <1>1 DEF PlaceIsTrue
    <3> QED
      BY <1>1, <3>1, StillPlace
  <2> QED
    BY <1>1, <2>1, SentStaysTaken DEF PlacesAreTrue
<1>2. ASSUME NEW e \in DOMAIN delivery, NEW m \in Moments, Take(p, e, m)
      PROVE  Goal
  <2>1. /\ at' = [at EXCEPT ![p] = "claimed"] /\ held' = [held EXCEPT ![p] = e]
        /\ box' = [box EXCEPT ![p] = m + LeaseSeconds]
        /\ renewed' = [renewed EXCEPT ![p] = None] /\ keeping' = [keeping EXCEPT ![p] = "off"]
        /\ UNCHANGED <<verdict, sent, acked>> /\ ClaimOutbox(p, e, m)
    BY <1>2 DEF Take, Goto
  <2>2. e \in Event /\ m + LeaseSeconds \in Nat /\ delivery[e] \in Delivery
    BY <1>0, MomentType, BoundsAssumption DEF TypeOK
  <2>3. PublisherTypeOK'
    BY <1>0, <2>1, <2>2 DEF PublisherTypeOK, Places
  <2>4. /\ delivery'[e] = ClaimedBy(delivery[e], p, m + LeaseSeconds)
        /\ DOMAIN delivery' = DOMAIN delivery /\ delivery[e].state = "pending"
    BY <2>1 DEF ClaimOutbox, RecoveredOutbox
  <2>5. delivery'[e].state = "claimed" /\ delivery'[e].owner = p
    BY <2>2, <2>4 DEF ClaimedBy, Delivery
  <2>6. e \notin DOMAIN sent
    BY <1>0, <2>4 DEF SentIsTaken
  <2>7. PlaceIsTrue(p)'
    BY <1>0, <2>1, <2>4, <2>5, <2>6 DEF PlaceIsTrue, PublisherTypeOK
  <2> QED
    BY <1>0, <1>1, <2>1, <2>3, <2>7 DEF PublisherTypeOK
<1>3. ASSUME Send(p)
      PROVE  Goal
  <2> DEFINE e == held[p]
  <2>1. /\ at[p] = "claimed" /\ at' = [at EXCEPT ![p] = "sending"]
        /\ keeping' = [keeping EXCEPT ![p] = "on"]
        /\ sent' = [d \in (DOMAIN sent) \cup {e} |->
                      (IF d \in DOMAIN sent THEN sent[d] ELSE 0) + (IF d = e THEN 1 ELSE 0)]
        /\ UNCHANGED <<delivery, held, box, renewed, verdict, acked>>
    BY <1>3 DEF Send, At, Goto, vars
  <2>2. e \in DOMAIN delivery /\ delivery[e].state # "pending" /\ delivery[e].owner = p
        /\ e \notin DOMAIN sent
    BY <1>0, <2>1 DEF PlaceIsTrue
  <2> HIDE DEF e
  <2>3. /\ DOMAIN sent' = (DOMAIN sent) \cup {e} /\ sent'[e] = 1
        /\ \A d \in DOMAIN sent : sent'[d] = sent[d]
    BY <1>0, <2>1, <2>2 DEF PublisherTypeOK
  <2>4. sent' \in [DOMAIN sent' -> Nat] /\ acked' \subseteq DOMAIN sent'
    <3>1. \A d \in DOMAIN sent' : sent'[d] \in Nat
      BY <1>0, <2>3 DEF PublisherTypeOK
    <3>2. sent' = [d \in DOMAIN sent' |-> sent'[d]]
      BY <2>1
    <3> QED
      BY <1>0, <2>1, <2>3, <3>1, <3>2 DEF PublisherTypeOK
  <2>5. PublisherTypeOK'
    BY <1>0, <2>1, <2>4 DEF PublisherTypeOK, Places
  <2>6. SentIsTaken'
    BY <1>0, <2>1, <2>2, <2>3 DEF SentIsTaken
  <2>7. PlaceIsTrue(p)'
    BY <1>0, <2>1, <2>2, <2>3 DEF PlaceIsTrue, PublisherTypeOK, e
  <2>8. ASSUME NEW q \in Publishers \ {p}
        PROVE  PlaceIsTrue(q)'
    <3>1. at'[q] = at[q] /\ held'[q] = held[q] /\ verdict'[q] = verdict[q]
      BY <1>0, <2>1 DEF PublisherTypeOK
    <3>2. at[q] = "claimed" => held[q] \notin DOMAIN sent /\ held[q] # e
      BY <1>0, <2>2 DEF PlaceIsTrue
    <3> QED
      BY <2>1, <2>3, <3>1, <3>2, StillPlace
  <2> QED
    BY <2>5, <2>6, <2>7, <2>8 DEF PlacesAreTrue
<1>4. ASSUME NEW s \in Verdicts, Return(p, s)
      PROVE  Goal
  <2>1. /\ at[p] = "sending" /\ at' = [at EXCEPT ![p] = "returned"]
        /\ verdict' = [verdict EXCEPT ![p] = s]
        /\ acked' = IF s = "delivered" THEN acked \cup {held[p]} ELSE acked
        /\ UNCHANGED <<delivery, held, box, renewed, keeping, sent>>
    BY <1>4 DEF Return, At, Goto, vars
  <2>2. held[p] \in DOMAIN sent
    BY <1>0, <2>1 DEF PlaceIsTrue
  <2>3. PublisherTypeOK'
    BY <1>0, <2>1, <2>2 DEF PublisherTypeOK, Places
  <2>4. PlaceIsTrue(p)'
    BY <1>0, <2>1, <2>2 DEF PlaceIsTrue, PublisherTypeOK
  <2> QED
    BY <1>0, <1>1, <2>1, <2>3, <2>4 DEF PublisherTypeOK
<1>5. ASSUME NEW m \in Moments, KeeperRenews(p, m)
      PROVE  Goal
  <2>1. /\ UNCHANGED <<at, held, box, keeping, verdict, sent, acked>>
        /\ renewed' = [renewed EXCEPT ![p] = m + LeaseSeconds]
    BY <1>5 DEF KeeperRenews
  <2>2. m + LeaseSeconds \in Nat
    BY <1>0, MomentType, BoundsAssumption DEF TypeOK
  <2>3. PublisherTypeOK'
    BY <1>0, <2>1, <2>2 DEF PublisherTypeOK
  <2>4. PlaceIsTrue(p)'
    BY <1>0, <1>a, <2>1 DEF PlaceIsTrue
  <2> QED
    BY <1>1, <2>1, <2>3, <2>4
<1>6. ASSUME KeeperStores(p)
      PROVE  Goal
  <2>1. /\ UNCHANGED <<at, held, verdict, sent, acked>> /\ renewed[p] # None
        /\ box' = [box EXCEPT ![p] = renewed[p]] /\ renewed' = [renewed EXCEPT ![p] = None]
        /\ keeping' = [keeping EXCEPT ![p] = IF at[p] = "sending" THEN keeping[p]
                                             ELSE "off"]
    BY <1>6 DEF KeeperStores
  <2>2. PublisherTypeOK'
    BY <1>0, <2>1 DEF PublisherTypeOK
  <2>3. PlaceIsTrue(p)'
    BY <1>0, <1>a, <2>1 DEF PlaceIsTrue
  <2> QED
    BY <1>1, <2>1, <2>2, <2>3
<1>7. ASSUME KeeperFails(p)
      PROVE  Goal
  <2>1. /\ UNCHANGED <<at, held, box, renewed, verdict, sent, acked>>
        /\ keeping' = [keeping EXCEPT ![p] = "lost"]
    BY <1>7 DEF KeeperFails
  <2>2. PublisherTypeOK'
    BY <1>0, <2>1 DEF PublisherTypeOK
  <2>3. PlaceIsTrue(p)'
    BY <1>0, <1>a, <2>1 DEF PlaceIsTrue
  <2> QED
    BY <1>1, <2>1, <2>2, <2>3
<1>8. ASSUME NEW m \in Moments, Confirm(p, m)
      PROVE  Goal
  <2>1. /\ at[p] = "returned" /\ at' = [at EXCEPT ![p] = "judged"]
        /\ box' = [box EXCEPT ![p] = m + LeaseSeconds] /\ keeping' = [keeping EXCEPT ![p] = "off"]
        /\ UNCHANGED <<held, renewed, verdict, sent, acked>>
    BY <1>8 DEF Confirm, At, Goto
  <2>2. m + LeaseSeconds \in Nat
    BY <1>0, MomentType, BoundsAssumption DEF TypeOK
  <2>3. PublisherTypeOK'
    BY <1>0, <2>1, <2>2 DEF PublisherTypeOK, Places
  <2>4. PlaceIsTrue(p)'
    BY <1>0, <1>a, <2>1 DEF PlaceIsTrue, PublisherTypeOK
  <2> QED
    BY <1>0, <1>1, <2>1, <2>3, <2>4 DEF PublisherTypeOK
<1>9. ASSUME LoseClaim(p)
      PROVE  Goal
  <2>1. /\ at[p] = "returned" /\ at' = [at EXCEPT ![p] = "judged"]
        /\ verdict' = [verdict EXCEPT ![p] = "unknown"]
        /\ UNCHANGED <<held, box, renewed, keeping, sent, acked>>
    BY <1>9 DEF LoseClaim, At, Goto
  <2>2. PublisherTypeOK'
    BY <1>0, <2>1 DEF PublisherTypeOK, Places, Verdicts
  <2>3. PlaceIsTrue(p)'
    BY <1>0, <1>a, <2>1 DEF PlaceIsTrue, PublisherTypeOK, Verdicts
  <2> QED
    BY <1>0, <1>1, <2>1, <2>2, <2>3 DEF PublisherTypeOK
<1>10. ASSUME (\E m \in Moments : Receipt(p, m)) \/ Raise(p)
       PROVE  Goal
  <2>1. /\ at' = [at EXCEPT ![p] = "idle"]
        /\ UNCHANGED <<held, box, renewed, keeping, verdict, sent, acked>>
    BY <1>10 DEF Receipt, Raise, Goto
  <2>2. PublisherTypeOK'
    BY <1>0, <2>1 DEF PublisherTypeOK, Places
  <2>3. PlaceIsTrue(p)'
    BY <1>0, <2>1 DEF PlaceIsTrue, PublisherTypeOK
  <2> QED
    BY <1>0, <1>1, <2>1, <2>2, <2>3 DEF PublisherTypeOK
<1>12. ASSUME NEW m \in Moments, TakeNothing(p, m)
       PROVE  Goal
  <2>1. UNCHANGED tickVars
    BY <1>12 DEF TakeNothing
  <2>2. PublisherTypeOK'
    BY <1>0, <2>1 DEF PublisherTypeOK, tickVars
  <2>3. PlaceIsTrue(p)'
    BY <1>0, <1>a, <2>1 DEF PlaceIsTrue, tickVars
  <2> QED
    BY <1>1, <2>1, <2>2, <2>3 DEF tickVars
<1> HIDE DEF Goal
<1>11. Goal
  BY <1>2, <1>3, <1>4, <1>5, <1>6, <1>7, <1>8, <1>9, <1>10, <1>12 DEF PublisherStep
<1> QED
  BY <1>11 DEF Goal

-----------------------------------------------------------------------------
(* What is delivered *)

\* Every step keeps "delivered" the publisher's word or a human's.
LEMMA PublisherNextKeepsDelivered ==
  ASSUME PublisherInv, [PublisherNext]_publisherVars
  PROVE  NoInventedDelivery'
<1>0. /\ TypeOK /\ NoInventedDelivery /\ PublisherTypeOK
      /\ \A e \in DOMAIN delivery : delivery[e] \in Delivery /\ Evidence(delivery[e])
  BY DEF PublisherInv, StoreInv, TypeOK, OutboxInv
\* No delivery becomes "delivered".
<1>1. ASSUME acked \subseteq acked',
             \A e \in DOMAIN delivery' :
               \/ delivery'[e].state # "delivered"
               \/ /\ e \in DOMAIN delivery /\ delivery'[e].state = delivery[e].state
                  /\ delivery'[e].outcome = delivery[e].outcome
      PROVE  NoInventedDelivery'
  BY <1>0, <1>1 DEF NoInventedDelivery
<1>2. ASSUME NEW m, NEW dead, NEW e \in DOMAIN delivery
      PROVE  RecoveredOutbox(m, dead)[e].state # "delivered" \/ RecoveredOutbox(m, dead)[e] = delivery[e]
  BY <1>0 DEF RecoveredOutbox, AsUnknown, Delivery
<1>3. ASSUME NEW p \in Publishers, NEW e \in DOMAIN delivery, NEW m \in Moments, Take(p, e, m)
      PROVE  NoInventedDelivery'
  <2> DEFINE R == RecoveredOutbox(m, {})
             b == ClaimedBy(delivery[e], p, m + LeaseSeconds)
  <2>1. delivery' = [R EXCEPT ![e] = b] /\ acked' = acked /\ DOMAIN R = DOMAIN delivery
    BY <1>3 DEF Take, ClaimOutbox, RecoveredOutbox
  <2>2. b.state = "claimed"
    BY <1>0 DEF ClaimedBy, Delivery
  <2>3. DOMAIN delivery' = DOMAIN delivery /\ delivery'[e] = b
        /\ \A d \in DOMAIN delivery : d # e => delivery'[d] = R[d]
    BY <2>1
  <2> HIDE DEF b, R
  <2> QED
    BY <1>1, <1>2, <2>1, <2>2, <2>3 DEF R
<1>4. ASSUME NEW p \in Publishers, NEW m \in Moments, KeeperRenews(p, m) \/ Confirm(p, m)
      PROVE  NoInventedDelivery'
  <2> DEFINE e == held[p]
             b == [delivery[e] EXCEPT !.expires = m + LeaseSeconds]
  <2>1. e \in DOMAIN delivery /\ acked' = acked /\ delivery' = [delivery EXCEPT ![e] = b]
    BY <1>4 DEF KeeperRenews, Confirm, HeartbeatOutbox, HoldsClaim
  <2>2. b.state = delivery[e].state /\ b.outcome = delivery[e].outcome
    BY <1>0, <2>1 DEF Delivery
  <2> HIDE DEF b, e
  <2> QED
    BY <1>1, <2>1, <2>2
<1>5. ASSUME NEW p \in Publishers, NEW m \in Moments, Receipt(p, m)
      PROVE  NoInventedDelivery'
  <2> DEFINE e == held[p]
             b == Receipted(delivery[e], verdict[p])
  <2>1. e \in DOMAIN delivery /\ acked' = acked /\ delivery' = [delivery EXCEPT ![e] = b]
    BY <1>5 DEF Receipt, RecordOutboxReceipt, HoldsClaim
  <2>2. verdict[p] = "delivered" => e \in acked
    BY <1>5 DEF Receipt, At, PublisherInv, PlacesAreTrue, PlaceIsTrue
  <2>3. b.state = "delivered" => e \in acked
    BY <1>0, <2>1, <2>2 DEF Receipted, AsUnknown, Delivery
  <2> HIDE DEF b, e
  <2> QED
    BY <1>0, <2>1, <2>3 DEF NoInventedDelivery
<1>6. ASSUME StartupOutbox
      PROVE  NoInventedDelivery'
  <2>1. /\ delivery' = RecoveredOutbox(now, Unrecognised) /\ acked' = acked
        /\ DOMAIN delivery' = DOMAIN delivery
    BY <1>6 DEF StartupOutbox, RecoverOutbox, tickVars, RecoveredOutbox
  <2> QED
    BY <1>1, <1>2, <2>1
<1>12. ASSUME NEW p \in Publishers, NEW m \in Moments, TakeNothing(p, m)
       PROVE  NoInventedDelivery'
  <2>1. /\ delivery' = RecoveredOutbox(m, {}) /\ acked' = acked
        /\ DOMAIN delivery' = DOMAIN delivery
    BY <1>12 DEF TakeNothing, RecoverOutbox, tickVars, RecoveredOutbox
  <2> QED
    BY <1>1, <1>2, <2>1
<1>7. ASSUME Client
      PROVE  NoInventedDelivery'
  <2>1. acked' = acked /\ \E E : delivery' = Emitted(E)
    BY <1>7 DEF Client, Enqueue, InsertJob, RecoverExpired, Sweep, tickVars
  <2>2. PICK E : delivery' = Emitted(E)
    BY <2>1
  <2>3. Pending.state = "pending"
    BY DEF Pending
  <2> QED
    BY <1>1, <2>1, <2>2, <2>3, EmittedMoves
<1>8. ASSUME Human
      PROVE  NoInventedDelivery'
  <2>1. PICK e \in DOMAIN delivery, o \in {"delivered", "failed"} : ResolveDelivery(e, o)
    BY <1>8 DEF Human
  <2> DEFINE b == Resolved(delivery[e], o)
  <2>2. /\ delivery[e].case = "open" /\ delivery' = [delivery EXCEPT ![e] = b] /\ acked' = acked
    BY <1>8, <2>1 DEF ResolveDelivery, Human, tickVars
  <2>3. b.state = o /\ b.outcome = o
    BY <1>0, <2>2 DEF Resolved, Delivery, Evidence
  <2> HIDE DEF b
  <2> QED
    BY <1>0, <2>2, <2>3 DEF NoInventedDelivery
<1>9. ASSUME delivery' = delivery, acked \subseteq acked'
      PROVE  NoInventedDelivery'
  BY <1>1, <1>9
<1>10. ASSUME NEW p \in Publishers,
              \/ \E s \in Verdicts : Return(p, s)
              \/ Send(p) \/ KeeperStores(p) \/ KeeperFails(p) \/ LoseClaim(p) \/ Raise(p)
       PROVE  NoInventedDelivery'
  BY <1>9, <1>10 DEF Return, Send, KeeperStores, KeeperFails, LoseClaim, Raise, vars
<1>11. ASSUME Environment \/ UNCHANGED publisherVars
       PROVE  NoInventedDelivery'
  BY <1>9, <1>11 DEF Environment, Tick, Die, publisherVars, vars, tickVars
<1> QED
  BY <1>3, <1>4, <1>5, <1>6, <1>7, <1>8, <1>10, <1>11, <1>12 DEF PublisherNext, PublisherStep

-----------------------------------------------------------------------------
(* The results *)

\* The invariant holds in every reachable state of the publishers.
LEMMA PublisherConsistent == PublisherSpec => []PublisherInv
<1>1. PublisherInit => PublisherInv
  <2> SUFFICES ASSUME PublisherInit
               PROVE  PublisherInv
    OBVIOUS
  <2>1. StoreInv /\ OutboxInv
    BY InitStore, InitOutbox DEF PublisherInit
  <2>2. DOMAIN delivery = {} /\ DOMAIN sent = {} /\ \A p \in Publishers : at[p] = "idle"
    BY DEF PublisherInit, Init, OutboxInit
  <2>3. PublisherTypeOK
    BY DEF PublisherInit, PublisherTypeOK, Places
  <2> QED
    BY <2>1, <2>2, <2>3 DEF PublisherInv, PlacesAreTrue, PlaceIsTrue, SentIsTaken, NoInventedDelivery
<1>2. ASSUME PublisherInv, [PublisherNext]_publisherVars
      PROVE  PublisherInv'
  <2>1. [Next]_vars
    BY <1>2, PublisherStepIsNext
  <2>2. StoreInv' /\ OutboxInv'
    BY <1>2, <2>1, NextKeepsStore, NextKeepsOutbox DEF PublisherInv
  <2>3. (StartupOutbox \/ Client \/ Human \/ Environment \/ UNCHANGED publisherVars) => UNCHANGED tickVars
    BY DEF StartupOutbox, Client, Human, Environment, publisherVars
  <2>4. PublisherTypeOK' /\ PlacesAreTrue' /\ SentIsTaken'
    BY <1>2, <2>1, <2>3, TickFrame, PublisherStepKeepsTicks DEF PublisherNext
  <2> QED
    BY <1>2, <2>2, <2>4, PublisherNextKeepsDelivered DEF PublisherInv
<1> QED
  BY <1>1, <1>2, PTL DEF PublisherSpec

\* The publishers, their keeper threads, the recovery and the human use the store
\* within its specification, so every theorem about the outbox holds of them.
THEOREM PublishersUseTheStore == PublisherSpec => Spec
<1>1. PublisherInit => Init
  BY DEF PublisherInit
<1> QED
  BY <1>1, PublisherStepIsNext, PublisherConsistent, PTL DEF PublisherSpec, Spec

\* The publisher is called at most once per event, for any number of publisher
\* processes, deaths, expired claims and human resolutions.
THEOREM EventsAreSentOnce == PublisherSpec => []SentAtMostOnce
<1>1. PublisherInv => SentAtMostOnce
  BY DEF PublisherInv, SentIsTaken, SentAtMostOnce
<1> QED
  BY <1>1, PublisherConsistent, PTL

\* "delivered" is the publisher's own word or a human's.
THEOREM DeliveriesAreAcknowledged == PublisherSpec => []NoInventedDelivery
BY PublisherConsistent, PTL DEF PublisherInv
=============================================================================
