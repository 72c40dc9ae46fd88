---------------------------- MODULE SessionProofs ----------------------------
(***************************************************************************)
(* Theorems about the life of a client session, for every value of the     *)
(* constants.                                                              *)
(*                                                                         *)
(* SessionClose: for every set of processes and projections, a frozen      *)
(* session is quiet, and a closed session is proven closed and stays so.   *)
(*                                                                         *)
(* ClientSpool: for any number of hooks, drainers, deliveries and deaths,  *)
(* the spool's files stay consistent, an acknowledgement is proof, and the *)
(* drain cursor stands behind resolved entries.                            *)
(***************************************************************************)
EXTENDS SessionClose, ClientSpool, FiniteSetTheorems, SequenceTheorems, WellFoundedInduction, TLAPS

-----------------------------------------------------------------------------
(* Closing a session *)

\* The places of a process that has a job in hand.
RunPlaces == {"claimed", "bind", "beat", "write", "verified", "finish", "unknown", "giveUp"}
Runs(p) == proc[p].at \in RunPlaces

\* The rows of one job agree: it has a lease exactly while it runs, a verdict
\* closes its case, and nothing was claimed before it first ran.
RowsAgree ==
  \A j \in Jobs :
    /\ job[j].lease = "none" <=> job[j].state # "running"
    /\ job[j].outcome # "none" => job[j].case = "resolved"
    /\ job[j].state \in {"absent", "ready"} =>
         ~job[j].claim /\ job[j].receipt = "none" /\ job[j].case = "none"

\* A process that has a job in hand is the only one that ever had it; until it
\* writes the receipt there is none.
RunsAgree ==
  \A p \in Procs : Runs(p) =>
    /\ proc[p].job \in Jobs
    /\ job[proc[p].job].state \notin {"absent", "ready"}
    /\ proc[p].at \notin {"finish", "giveUp"} => job[proc[p].job].receipt = "none"
    /\ proc[p].at # "claimed" => job[proc[p].job].claim
    /\ \A q \in Procs : Runs(q) /\ proc[q].job = proc[p].job => q = p

\* The process that delivers the close event is the one that claimed it.
DeliveryAgrees ==
  \A p \in Procs : At(p, "deliver") =>
    /\ event[Compile] = "claimed"
    /\ \A q \in Procs : At(q, "deliver") => q = p

\* An open session has no close.
OpenHasNoClose == status = "open" => closeReq = None /\ job["close"].state = "absent"

CloseInv ==
  /\ CloseTypeOK /\ RowsAgree /\ RunsAgree /\ DeliveryAgrees /\ OpenHasNoClose
  /\ FrozenIsQuiet /\ ClosedIsProven

-----------------------------------------------------------------------------
(* Types *)

LEMMA CloseConstants ==
  /\ NewJob \in Job /\ Compile \in Events
  /\ \A j \in Jobs, t \in Tags : <<j, t>> \in Events /\ <<j, t>> # Compile
  /\ {"work", "close", "repair"} = Jobs
BY DEF NewJob, Job, Compile, Events, Jobs, Tags

\* A transaction on one row, and the columns of it that it keeps.
OnlyRow(j) == job' \in [Jobs -> Job] /\ \A i \in Jobs \ {j} : job'[i] = job[i]
Keeps(j, changed) ==
  /\ "state" \notin changed => job'[j].state = job[j].state
  /\ "lease" \notin changed => job'[j].lease = job[j].lease
  /\ "claim" \notin changed => job'[j].claim = job[j].claim
  /\ "bound" \notin changed => job'[j].bound = job[j].bound
  /\ "receipt" \notin changed => job'[j].receipt = job[j].receipt
  /\ "case" \notin changed => job'[j].case = job[j].case
  /\ "outcome" \notin changed => job'[j].outcome = job[j].outcome

\* claim_next, finish: state and lease.
LEMMA RowEnds ==
  ASSUME job \in [Jobs -> Job], NEW j \in Jobs,
         NEW s \in {"running", "recovery-required", "completed", "failed"}, NEW l \in {"none", "held"},
         job' = [job EXCEPT ![j].state = s, ![j].lease = l]
  PROVE  /\ OnlyRow(j) /\ Keeps(j, {"state", "lease"})
         /\ job'[j].state = s /\ job'[j].lease = l
<1> DEFINE r == [job[j] EXCEPT !.state = s, !.lease = l]
<1>1. job[j] \in Job
  OBVIOUS
<1>2. r \in Job
  BY <1>1 DEF Job
<1>3. job' = [job EXCEPT ![j] = r]
  BY <1>1 DEF Job
<1>4. OnlyRow(j) /\ job'[j] = r
  BY <1>2, <1>3 DEF OnlyRow
<1>5. Keeps(j, {"state", "lease"}) /\ job'[j].state = s /\ job'[j].lease = l
  BY <1>1, <1>4 DEF Job, Keeps
<1> QED
  BY <1>4, <1>5

\* claim_effect.
LEMMA RowClaims ==
  ASSUME job \in [Jobs -> Job], NEW j \in Jobs,
         job' = [job EXCEPT ![j].claim = TRUE]
  PROVE  /\ OnlyRow(j) /\ Keeps(j, {"claim"})
         /\ job'[j].claim = TRUE
<1> DEFINE r == [job[j] EXCEPT !.claim = TRUE]
<1>1. job[j] \in Job
  OBVIOUS
<1>2. r \in Job
  BY <1>1 DEF Job
<1>3. job' = [job EXCEPT ![j] = r]
  BY <1>1 DEF Job
<1>4. OnlyRow(j) /\ job'[j] = r
  BY <1>2, <1>3 DEF OnlyRow
<1>5. Keeps(j, {"claim"}) /\ job'[j].claim = TRUE
  BY <1>1, <1>4 DEF Job, Keeps
<1> QED
  BY <1>4, <1>5

\* bind_effect.
LEMMA RowBinds ==
  ASSUME job \in [Jobs -> Job], NEW j \in Jobs,
         job' = [job EXCEPT ![j].bound = TRUE]
  PROVE  /\ OnlyRow(j) /\ Keeps(j, {"bound"})
         /\ job'[j].bound = TRUE
<1> DEFINE r == [job[j] EXCEPT !.bound = TRUE]
<1>1. job[j] \in Job
  OBVIOUS
<1>2. r \in Job
  BY <1>1 DEF Job
<1>3. job' = [job EXCEPT ![j] = r]
  BY <1>1 DEF Job
<1>4. OnlyRow(j) /\ job'[j] = r
  BY <1>2, <1>3 DEF OnlyRow
<1>5. Keeps(j, {"bound"}) /\ job'[j].bound = TRUE
  BY <1>1, <1>4 DEF Job, Keeps
<1> QED
  BY <1>4, <1>5

\* record_receipt of a completed effect.
LEMMA RowCompletes ==
  ASSUME job \in [Jobs -> Job], NEW j \in Jobs,
         job' = [job EXCEPT ![j].receipt = "completed"]
  PROVE  /\ OnlyRow(j) /\ Keeps(j, {"receipt"})
         /\ job'[j].receipt = "completed"
<1> DEFINE r == [job[j] EXCEPT !.receipt = "completed"]
<1>1. job[j] \in Job
  OBVIOUS
<1>2. r \in Job
  BY <1>1 DEF Job
<1>3. job' = [job EXCEPT ![j] = r]
  BY <1>1 DEF Job
<1>4. OnlyRow(j) /\ job'[j] = r
  BY <1>2, <1>3 DEF OnlyRow
<1>5. Keeps(j, {"receipt"}) /\ job'[j].receipt = "completed"
  BY <1>1, <1>4 DEF Job, Keeps
<1> QED
  BY <1>4, <1>5

\* record_receipt of an unknown effect, with its case.
LEMMA RowUnknown ==
  ASSUME job \in [Jobs -> Job], NEW j \in Jobs,
         job' = [job EXCEPT ![j].receipt = "unknown", ![j].case = "open"]
  PROVE  /\ OnlyRow(j) /\ Keeps(j, {"receipt", "case"})
         /\ job'[j].receipt = "unknown" /\ job'[j].case = "open"
<1> DEFINE r == [job[j] EXCEPT !.receipt = "unknown", !.case = "open"]
<1>1. job[j] \in Job
  OBVIOUS
<1>2. r \in Job
  BY <1>1 DEF Job
<1>3. job' = [job EXCEPT ![j] = r]
  BY <1>1 DEF Job
<1>4. OnlyRow(j) /\ job'[j] = r
  BY <1>2, <1>3 DEF OnlyRow
<1>5. Keeps(j, {"receipt", "case"}) /\ job'[j].receipt = "unknown" /\ job'[j].case = "open"
  BY <1>1, <1>4 DEF Job, Keeps
<1> QED
  BY <1>4, <1>5

\* The sweep of one lease.
LEMMA RowSwept ==
  ASSUME job \in [Jobs -> Job], NEW j \in Jobs,
         NEW s \in {"running", "recovery-required", "completed", "failed"}, NEW c \in {"none", "open", "resolved"},
         job' = [job EXCEPT ![j].state = s, ![j].lease = "none", ![j].case = c]
  PROVE  /\ OnlyRow(j) /\ Keeps(j, {"state", "lease", "case"})
         /\ job'[j].state = s /\ job'[j].lease = "none" /\ job'[j].case = c
<1> DEFINE r == [job[j] EXCEPT !.state = s, !.lease = "none", !.case = c]
<1>1. job[j] \in Job
  OBVIOUS
<1>2. r \in Job
  BY <1>1 DEF Job
<1>3. job' = [job EXCEPT ![j] = r]
  BY <1>1 DEF Job
<1>4. OnlyRow(j) /\ job'[j] = r
  BY <1>2, <1>3 DEF OnlyRow
<1>5. Keeps(j, {"state", "lease", "case"}) /\ job'[j].state = s /\ job'[j].lease = "none" /\ job'[j].case = c
  BY <1>1, <1>4 DEF Job, Keeps
<1> QED
  BY <1>4, <1>5

\* The owner of the lease died.
LEMMA RowOrphaned ==
  ASSUME job \in [Jobs -> Job], NEW j \in Jobs,
         job' = [job EXCEPT ![j].lease = "orphan"]
  PROVE  /\ OnlyRow(j) /\ Keeps(j, {"lease"})
         /\ job'[j].lease = "orphan"
<1> DEFINE r == [job[j] EXCEPT !.lease = "orphan"]
<1>1. job[j] \in Job
  OBVIOUS
<1>2. r \in Job
  BY <1>1 DEF Job
<1>3. job' = [job EXCEPT ![j] = r]
  BY <1>1 DEF Job
<1>4. OnlyRow(j) /\ job'[j] = r
  BY <1>2, <1>3 DEF OnlyRow
<1>5. Keeps(j, {"lease"}) /\ job'[j].lease = "orphan"
  BY <1>1, <1>4 DEF Job, Keeps
<1> QED
  BY <1>4, <1>5

\* resolve_recovery.
LEMMA RowResolved ==
  ASSUME job \in [Jobs -> Job], NEW j \in Jobs,
         NEW o \in {"exact", "other", "failed"},
         job' = [job EXCEPT ![j].case = "resolved", ![j].outcome = o]
  PROVE  /\ OnlyRow(j) /\ Keeps(j, {"case", "outcome"})
         /\ job'[j].case = "resolved" /\ job'[j].outcome = o
<1> DEFINE r == [job[j] EXCEPT !.case = "resolved", !.outcome = o]
<1>1. job[j] \in Job
  OBVIOUS
<1>2. r \in Job
  BY <1>1 DEF Job
<1>3. job' = [job EXCEPT ![j] = r]
  BY <1>1 DEF Job
<1>4. OnlyRow(j) /\ job'[j] = r
  BY <1>2, <1>3 DEF OnlyRow
<1>5. Keeps(j, {"case", "outcome"}) /\ job'[j].case = "resolved" /\ job'[j].outcome = o
  BY <1>1, <1>4 DEF Job, Keeps
<1> QED
  BY <1>4, <1>5

\* reconcile_recovery.
LEMMA RowReconciled ==
  ASSUME job \in [Jobs -> Job], NEW j \in Jobs,
         NEW s \in {"running", "recovery-required", "completed", "failed"}, NEW z \in {"no receipt", "completed", "unknown"},
         job' = [job EXCEPT ![j].state = s, ![j].sealed = z]
  PROVE  /\ OnlyRow(j) /\ Keeps(j, {"state", "sealed"})
         /\ job'[j].state = s /\ job'[j].sealed = z
<1> DEFINE r == [job[j] EXCEPT !.state = s, !.sealed = z]
<1>1. job[j] \in Job
  OBVIOUS
<1>2. r \in Job
  BY <1>1 DEF Job
<1>3. job' = [job EXCEPT ![j] = r]
  BY <1>1 DEF Job
<1>4. OnlyRow(j) /\ job'[j] = r
  BY <1>2, <1>3 DEF OnlyRow
<1>5. Keeps(j, {"state", "sealed"}) /\ job'[j].state = s /\ job'[j].sealed = z
  BY <1>1, <1>4 DEF Job, Keeps
<1> QED
  BY <1>4, <1>5

\* A new job.
LEMMA RowNew ==
  ASSUME job \in [Jobs -> Job], NEW j \in Jobs, job' = [job EXCEPT ![j] = NewJob]
  PROVE  /\ OnlyRow(j)
         /\ job'[j].state = "ready" /\ job'[j].lease = "none" /\ job'[j].claim = FALSE
         /\ job'[j].receipt = "none" /\ job'[j].case = "none" /\ job'[j].outcome = "none"
BY CloseConstants DEF OnlyRow, NewJob

\* The sweep of one lease: the case is opened if the effect is unresolved.
LEMMA SweptRow ==
  ASSUME job \in [Jobs -> Job], NEW j \in Jobs, Swept(j)
  PROVE  /\ OnlyRow(j) /\ Keeps(j, {"state", "lease", "case"})
         /\ job'[j].state = SweepState(j) /\ job'[j].lease = "none"
         /\ job'[j].case = IF SweepState(j) = "recovery-required" THEN "open" ELSE job[j].case
<1> DEFINE s == SweepState(j)
           c == IF s = "recovery-required" THEN "open" ELSE job[j].case
<1>1. s \in {"running", "recovery-required", "completed", "failed"}
  BY DEF SweepState
<1>2. c \in {"none", "open", "resolved"}
  BY DEF Job
<1>3. job' = [job EXCEPT ![j].state = s, ![j].lease = "none", ![j].case = c]
  BY DEF Swept
<1> HIDE DEF s, c
<1>4. OnlyRow(j) /\ Keeps(j, {"state", "lease", "case"})
        /\ job'[j].state = s /\ job'[j].lease = "none" /\ job'[j].case = c
  BY <1>1, <1>2, <1>3, RowSwept
<1> QED
  BY <1>4 DEF s, c

\* The reconciliation of one job by the verdict on its case.
LEMMA ReconciledRow ==
  ASSUME job \in [Jobs -> Job], NEW j \in Jobs, Reconciled(j)
  PROVE  /\ OnlyRow(j) /\ Keeps(j, {"state", "sealed"})
         /\ job'[j].state = IF job[j].outcome = "failed" THEN "failed" ELSE "completed"
<1> DEFINE s == IF job[j].outcome = "failed" THEN "failed" ELSE "completed"
           z == IF job[j].receipt = "none" THEN "no receipt" ELSE job[j].receipt
<1>1. s \in {"running", "recovery-required", "completed", "failed"}
  OBVIOUS
<1>2. z \in {"no receipt", "completed", "unknown"}
  BY DEF Job
<1>3. job' = [job EXCEPT ![j].state = s, ![j].sealed = z]
  BY DEF Reconciled
<1> HIDE DEF s, z
<1>4. OnlyRow(j) /\ Keeps(j, {"state", "sealed"}) /\ job'[j].state = s
  BY <1>1, <1>2, <1>3, RowReconciled
<1> QED
  BY <1>4 DEF s

\* The columns of one process.
Place == [at : Points, job : Jobs \cup {None}, left : SUBSET Notes]

\* Steps of one process leave the places of all well-formed.
LEMMA PlaceType ==
  ASSUME proc \in [Procs -> Place], NEW p \in Procs
  PROVE  /\ \A r \in Place : [proc EXCEPT ![p] = r] \in [Procs -> Place]
         /\ \A a \in Points : GoTo(p, a) => proc' \in [Procs -> Place]
         /\ Raises(p) => proc' \in [Procs -> Place]
         /\ proc[p] \in Place
<1>1. Idle \in Place
  BY DEF Idle, Place, Points
<1>2. \A a \in Points : GoTo(p, a) => proc' \in [Procs -> Place]
  BY DEF GoTo, Place
<1> QED
  BY <1>1, <1>2 DEF Raises

\* The type invariant is inductive: every action writes values of the declared
\* domains.
LEMMA InitCloseType == Init => CloseTypeOK
<1> SUFFICES ASSUME Init PROVE CloseTypeOK
  OBVIOUS
<1>1. [NewJob EXCEPT !.state = "absent"] \in Job
  BY DEF NewJob, Job
<1>2. Idle \in [at : Points, job : Jobs \cup {None}, left : SUBSET Notes]
  BY DEF Idle, Points
<1> QED
  BY <1>1, <1>2, CloseBounds DEF Init, CloseTypeOK, DeliveryStates

\* The part of the type invariant about the session, the notes and the faults.
SessionType ==
  /\ status \in {"open", "closing", "closed"}
  /\ tail \in 0..MaxEvents /\ manifest \in 0..MaxManifests
  /\ checkpoint \subseteq Covered
  /\ closeReq \in Covered \cup {None}
  /\ faults \in 0..MaxFaults

LEMMA NextCloseType ==
  ASSUME CloseTypeOK, RunsAgree, Next
  PROVE  CloseTypeOK'
<1> DEFINE Goal == CloseTypeOK'
<1> USE CloseBounds, CloseConstants DEF Fault, sessionVars, At
<1>a. /\ SessionType /\ job \in [Jobs -> Job] /\ event \in [Events -> DeliveryStates]
      /\ note \in [Notes -> {"none", "ready", "foreign"}] /\ proc \in [Procs -> Place]
  BY DEF CloseTypeOK, SessionType, Place
<1>b. \A p \in Procs : Runs(p) => proc[p].job \in Jobs
  BY DEF RunsAgree
<1>z. ASSUME SessionType', job' \in [Jobs -> Job], event' \in [Events -> DeliveryStates],
             note' \in [Notes -> {"none", "ready", "foreign"}], proc' \in [Procs -> Place]
      PROVE  Goal
  BY <1>z DEF CloseTypeOK, SessionType, Place
<1>1. ASSUME AppendEvent \/ Hydrate \/ Finalize \/ \E m \in 1..manifest : Checkpoint(m)
      PROVE  Goal
  BY <1>1 DEF AppendEvent, Hydrate, Finalize, Checkpoint, CloseTypeOK, Covered
<1>2. ASSUME Enqueue
      PROVE  Goal
  BY <1>2 DEF Enqueue, CloseTypeOK, DeliveryStates, Tags
<1>3. ASSUME NEW c \in checkpoint, Freeze(c)
      PROVE  Goal
  BY <1>3 DEF Freeze, Frozen, CloseTypeOK, DeliveryStates, Tags
<1>4. ASSUME NEW p \in Procs, NEW j \in Jobs, Claim(p, j)
      PROVE  Goal
  <2>1. job' \in [Jobs -> Job]
    BY <1>a, <1>4, RowEnds DEF Claim, OnlyRow
  <2>2. [at |-> "claimed", job |-> j, left |-> Notes] \in Place
    BY DEF Place, Points
  <2>3. proc' \in [Procs -> Place]
    BY <1>a, <1>4, <2>2, PlaceType DEF Claim
  <2> QED
    BY <1>a, <1>4, <1>z, <2>1, <2>3 DEF Claim, SessionType
<1>5. ASSUME NEW p \in Procs, CompleteRepair(p) \/ ClaimDelivery(p)
      PROVE  Goal
  <2>1. [Idle EXCEPT !.at = "resolve", !.job = "repair"] \in Place
    BY DEF Idle, Place, Points
  <2>2. [Idle EXCEPT !.at = "deliver", !.job = "close"] \in Place
    BY DEF Idle, Place, Points
  <2>3. proc' \in [Procs -> Place]
    BY <1>a, <1>5, <2>1, <2>2, PlaceType DEF CompleteRepair, ClaimDelivery
  <2> QED
    BY <1>a, <1>5, <1>z, <2>3 DEF CompleteRepair, ClaimDelivery, SessionType, DeliveryStates
<1>6. ASSUME NEW p \in Procs, ClaimEffect(p) \/ BindEffect(p) \/ Receipt(p)
      PROVE  Goal
  <2>1. proc[p].job \in Jobs
    BY <1>b, <1>6 DEF ClaimEffect, BindEffect, Receipt, Runs, RunPlaces
  <2>2. job' \in [Jobs -> Job]
    BY <1>a, <1>6, <2>1, RowClaims, RowBinds, RowCompletes, RowUnknown
    DEF ClaimEffect, BindEffect, Receipt, OnlyRow
  <2>3. proc' \in [Procs -> Place]
    BY <1>a, <1>6, PlaceType DEF ClaimEffect, BindEffect, Receipt, Points
  <2> QED
    BY <1>a, <1>6, <1>z, <2>2, <2>3 DEF ClaimEffect, BindEffect, Receipt, SessionType
<1>7. ASSUME NEW p \in Procs, Beat(p) \/ WriteFails(p)
      PROVE  Goal
  <2>1. proc' \in [Procs -> Place]
    BY <1>a, <1>7, PlaceType DEF Beat, WriteFails, Points
  <2> QED
    BY <1>a, <1>7, <1>z, <2>1 DEF Beat, WriteFails, SessionType
<1>8. ASSUME NEW p \in Procs, NEW n \in Notes, Materialize(p, n)
      PROVE  Goal
  <2>1. proc' \in [Procs -> Place]
    <3>1. CASE note[n] = "foreign"
      BY <1>a, <1>8, <3>1, PlaceType DEF Materialize, Points
    <3>2. CASE note[n] # "foreign"
      <4>1. proc' = [proc EXCEPT ![p].at = "beat", ![p].left = @ \ {n}]
        BY <1>8, <3>2 DEF Materialize
      <4>2. proc' \in [Procs -> Place]
        <5>1. proc[p] \in Place
          BY <1>a
        <5>2. [proc[p] EXCEPT !.at = "beat", !.left = proc[p].left \ {n}] \in Place
          BY <5>1 DEF Place, Points
        <5>3. proc' = [proc EXCEPT ![p] = [proc[p] EXCEPT !.at = "beat", !.left = proc[p].left \ {n}]]
          BY <4>1, <5>1 DEF Place
        <5> QED
          BY <1>a, <5>2, <5>3, PlaceType
      <4> QED
        BY <4>2
    <3> QED
      BY <3>1, <3>2
  <2> QED
    BY <1>a, <1>8, <1>z, <2>1 DEF Materialize, SessionType
<1>9. ASSUME NEW p \in Procs, Finish(p)
      PROVE  Goal
  <2>1. proc[p].job \in Jobs
    BY <1>b, <1>9 DEF Finish, Runs, RunPlaces
  <2>2. job' \in [Jobs -> Job]
    BY <1>a, <1>9, <2>1, RowEnds, RowOrphaned DEF Finish, Ends, OnlyRow
  <2>4. event' \in [Events -> DeliveryStates]
    BY <1>a, <1>9 DEF Finish, Ends, DeliveryStates
  <2>3. proc' \in [Procs -> Place]
    BY <1>a, <1>9, PlaceType DEF Finish, Points
  <2> QED
    BY <1>a, <1>9, <1>z, <2>2, <2>3, <2>4 DEF Finish, SessionType
<1>10. ASSUME NEW p \in Procs, ResolveByRepair(p) \/ ReconcileByRepair(p) \/ Deliver(p)
       PROVE  Goal
  <2>1. job' \in [Jobs -> Job]
    BY <1>a, <1>10, RowResolved, ReconciledRow
    DEF ResolveByRepair, ReconcileByRepair, Deliver, Resolve, OnlyRow
  <2>3. event' \in [Events -> DeliveryStates]
    BY <1>a, <1>10 DEF ResolveByRepair, ReconcileByRepair, Deliver, Reconciled, DeliveryStates
  <2>2. proc' \in [Procs -> Place]
    BY <1>a, <1>10, PlaceType DEF ResolveByRepair, ReconcileByRepair, Deliver, Points
  <2> QED
    BY <1>a, <1>10, <1>z, <2>1, <2>2, <2>3 DEF ResolveByRepair, ReconcileByRepair, Deliver, SessionType
<1>11. ASSUME NEW p \in Procs, Die(p)
       PROVE  Goal
  <2>1. proc[p].at \notin {"resolve", "reconcile", "deliver"} => proc[p].job \in Jobs
    BY <1>a, <1>b, <1>11 DEF Die, Place, Points, Runs, RunPlaces
  <2>3. job' \in [Jobs -> Job]
    BY <1>a, <1>11, <2>1, RowOrphaned DEF Die, OnlyRow
  <2>4. event' \in [Events -> DeliveryStates]
    BY <1>a, <1>11 DEF Die, DeliveryStates
  <2>2. proc' \in [Procs -> Place]
    BY <1>a, <1>11, PlaceType DEF Die
  <2> QED
    BY <1>a, <1>11, <1>z, <2>2, <2>3, <2>4 DEF Die, SessionType
<1>12. ASSUME NEW j \in Jobs, RecoverOrphan(j) \/ RecoverExpired(j)
       PROVE  Goal
  <2>1. job' \in [Jobs -> Job]
    BY <1>a, <1>12, SweptRow DEF RecoverOrphan, RecoverExpired, OnlyRow
  <2>2. event' \in [Events -> DeliveryStates]
    BY <1>a, <1>12 DEF RecoverOrphan, RecoverExpired, Swept, DeliveryStates
  <2> QED
    BY <1>a, <1>12, <1>z, <2>1, <2>2 DEF RecoverOrphan, RecoverExpired, Swept, SessionType
<1>13. ASSUME NEW j \in Jobs, NEW o \in {"exact", "other", "failed"}, ResolveByHand(j, o)
       PROVE  Goal
  <2>1. job' \in [Jobs -> Job]
    BY <1>a, <1>13, RowResolved DEF ResolveByHand, Resolve, OnlyRow
  <2> QED
    BY <1>a, <1>13, <1>z, <2>1 DEF ResolveByHand, SessionType
<1>14. ASSUME NEW j \in Jobs, Reconcile(j)
       PROVE  Goal
  <2>1. job' \in [Jobs -> Job]
    BY <1>a, <1>14, ReconciledRow DEF Reconcile, OnlyRow
  <2>2. event' \in [Events -> DeliveryStates]
    BY <1>a, <1>14 DEF Reconcile, Reconciled, DeliveryStates
  <2> QED
    BY <1>a, <1>14, <1>z, <2>1, <2>2 DEF Reconcile, SessionType
<1>15. ASSUME PrepareRepair
       PROVE  Goal
  <2>1. job' \in [Jobs -> Job] /\ event' \in [Events -> DeliveryStates]
    BY <1>a, <1>15 DEF PrepareRepair, Tags, DeliveryStates
  <2> QED
    BY <1>a, <1>15, <1>z, <2>1 DEF PrepareRepair, SessionType
<1>16. ASSUME NEW e \in Events,
              ReconcileDelivery \/ Publish(e)
                \/ \E s \in {"delivered", "other", "failed"} : ResolveDelivery(e, s)
       PROVE  Goal
  <2>1. event' \in [Events -> DeliveryStates]
    BY <1>a, <1>16 DEF ReconcileDelivery, Publish, ResolveDelivery, DeliveryStates
  <2> QED
    BY <1>a, <1>16, <1>z, <2>1 DEF ReconcileDelivery, Publish, ResolveDelivery, SessionType
<1>17. ASSUME NEW n \in Notes, ForeignFile(n)
       PROVE  Goal
  BY <1>a, <1>17, <1>z DEF ForeignFile, SessionType
<1> HIDE DEF Goal
<1>18. Goal
  BY <1>1, <1>2, <1>3, <1>4, <1>5, <1>6, <1>7, <1>8, <1>9, <1>10, <1>11, <1>12, <1>13, <1>14,
     <1>15, <1>16, <1>17 DEF Next, Enter, Continue, Operator
<1> QED
  BY <1>18 DEF Goal

-----------------------------------------------------------------------------
(* What the conjuncts need of a step *)

\* A process goes on, or its call ends.
LEMMA GoesOn ==
  ASSUME proc \in [Procs -> Place], NEW p \in Procs
  PROVE  /\ \A a : GoTo(p, a) => /\ proc'[p].at = a /\ proc'[p].job = proc[p].job
                                 /\ \A q \in Procs \ {p} : proc'[q] = proc[q]
         /\ Raises(p) => /\ proc'[p].at = "idle"
                         /\ \A q \in Procs \ {p} : proc'[q] = proc[q]
BY DEF GoTo, Raises, Idle, Place

\* A transaction on row j keeps the other rows; its own row is to be looked at.
LEMMA RowsKept ==
  ASSUME RowsAgree, NEW j \in Jobs, OnlyRow(j),
         job'[j].lease = "none" <=> job'[j].state # "running",
         job'[j].outcome # "none" => job'[j].case = "resolved",
         job'[j].state \in {"absent", "ready"} =>
           ~job'[j].claim /\ job'[j].receipt = "none" /\ job'[j].case = "none"
  PROVE  RowsAgree'
BY DEF RowsAgree, OnlyRow

\* Whoever has a job in hand keeps it through a step that neither revives a job
\* nor touches a receipt, and by which a process at most goes on with its own.
LEMMA RunsKept ==
  ASSUME RunsAgree,
         \A i \in Jobs : /\ job[i].state \notin {"absent", "ready"} =>
                              job'[i].state \notin {"absent", "ready"}
                         /\ job'[i].receipt = job[i].receipt
                         /\ job[i].claim => job'[i].claim,
         \A q \in Procs :
           \/ proc'[q] = proc[q]
           \/ proc'[q].at \notin RunPlaces
           \/ /\ proc'[q].job = proc[q].job
              /\ proc[q].at \in {"bind", "beat", "write", "verified", "unknown"}
  PROVE  RunsAgree'
<1>1. ASSUME NEW q \in Procs, proc'[q].at \in RunPlaces
      PROVE  /\ proc[q].at \in RunPlaces /\ proc'[q].job = proc[q].job
             /\ \/ proc'[q].at = proc[q].at
                \/ proc[q].at \in {"bind", "beat", "write", "verified", "unknown"}
  BY <1>1 DEF RunPlaces
<1> QED
  BY <1>1 DEF RunsAgree, Runs

\* A process takes its own job one step further.
LEMMA RunnerKept ==
  ASSUME RunsAgree, NEW p \in Procs, Runs(p), OnlyRow(proc[p].job),
         \A q \in Procs \ {p} : proc'[q] = proc[q],
         proc'[p].job = proc[p].job \/ proc'[p].at \notin RunPlaces,
         job'[proc[p].job].state \notin {"absent", "ready"},
         proc'[p].at \in RunPlaces \ {"finish", "giveUp"} => job'[proc[p].job].receipt = "none",
         proc'[p].at \in RunPlaces \ {"claimed"} => job'[proc[p].job].claim
  PROVE  RunsAgree'
<1>1. ASSUME NEW q \in Procs, proc'[q].at \in RunPlaces
      PROVE  proc[q].at \in RunPlaces /\ proc'[q].job = proc[q].job
  BY <1>1 DEF Runs
<1>2. \A q \in Procs \ {p} : Runs(q) => job'[proc[q].job] = job[proc[q].job]
  BY DEF RunsAgree, OnlyRow
<1> QED
  BY <1>1, <1>2 DEF RunsAgree, Runs

\* The delivery stays with its process while nobody else starts one.
LEMMA DeliveryKept ==
  ASSUME DeliveryAgrees,
         \A q \in Procs : proc'[q].at = "deliver" => proc[q].at = "deliver",
         (\E q \in Procs : proc'[q].at = "deliver") => event'[Compile] = event[Compile]
  PROVE  DeliveryAgrees'
BY DEF DeliveryAgrees, At

\* A closing session stays quiet if its "work" row does.
LEMMA QuietKept ==
  ASSUME OpenHasNoClose, FrozenIsQuiet, UNCHANGED sessionVars,
         status = "open" => job'["close"].state = "absent",
         status # "open" =>
           /\ job'["work"].state \notin {"ready", "running", "recovery-required"}
           /\ job'["work"].claim => job'["work"].receipt = "completed" \/ job'["work"].outcome # "none"
           /\ job'["work"].lease = "none"
  PROVE  OpenHasNoClose' /\ FrozenIsQuiet'
BY DEF OpenHasNoClose, FrozenIsQuiet, RequestStaysCurrent, OnlyTheCloseRuns, PendingEffect, Current,
       sessionVars

-----------------------------------------------------------------------------
(* The steps *)

\* Steps of the session itself.
LEMMA SessionSteps ==
  ASSUME CloseInv, CloseTypeOK',
         AppendEvent \/ Hydrate \/ Finalize \/ Enqueue \/ PrepareRepair
           \/ (\E m \in 1..manifest : Checkpoint(m)) \/ (\E c \in checkpoint : Freeze(c))
  PROVE  CloseInv'
<1> DEFINE Goal == CloseInv'
<1> USE CloseConstants DEF At
<1>a. job \in [Jobs -> Job] /\ event \in [Events -> DeliveryStates]
  BY DEF CloseInv, CloseTypeOK
<1>1. ASSUME AppendEvent \/ Hydrate \/ \E m \in 1..manifest : Checkpoint(m)
      PROVE  Goal
  <2>1. UNCHANGED <<status, closeReq, job, event, note, proc>> /\ status = "open"
    BY <1>1 DEF AppendEvent, Hydrate, Checkpoint
  <2> QED
    BY <2>1 DEF CloseInv, RowsAgree, RunsAgree, Runs, DeliveryAgrees, OpenHasNoClose, FrozenIsQuiet,
                RequestStaysCurrent, OnlyTheCloseRuns, ClosedIsProven
<1>2. ASSUME Finalize
      PROVE  Goal
  <2>1. UNCHANGED <<tail, manifest, closeReq, job, event, note, proc>> /\ status = "closing"
          /\ status' = "closed" /\ Compiled /\ NoPending /\ event[Compile] = "delivered"
    BY <1>2 DEF Finalize
  <2>2. ClosedIsProven'
    BY <2>1 DEF ClosedIsProven, Compiled, Loads, TerminalEffect, NotesMaterialized, NoPending, PendingEffect,
                Settled
  <2> QED
    BY <2>1, <2>2 DEF CloseInv, RowsAgree, RunsAgree, Runs, DeliveryAgrees, OpenHasNoClose, FrozenIsQuiet,
                RequestStaysCurrent, Current, OnlyTheCloseRuns, PendingEffect
<1>3. ASSUME NEW j \in Jobs, job[j].state = "absent", job' = [job EXCEPT ![j] = NewJob],
             UNCHANGED proc, event'[Compile] = event[Compile] \/ j = "close"
      PROVE  /\ RowsAgree' /\ RunsAgree' /\ (j # "close" => DeliveryAgrees')
             /\ OnlyRow(j) /\ job'[j].state = "ready"
  <2>1. /\ OnlyRow(j) /\ job'[j].state = "ready" /\ job'[j].lease = "none" /\ job'[j].claim = FALSE
        /\ job'[j].receipt = "none" /\ job'[j].case = "none" /\ job'[j].outcome = "none"
    BY <1>a, <1>3, RowNew
  <2>2. RowsAgree'
    BY <2>1, RowsKept DEF CloseInv
  <2>3. job[j].receipt = "none" /\ ~job[j].claim
    BY <1>3 DEF CloseInv, RowsAgree
  <2>4. RunsAgree'
    <3>1. ASSUME NEW p \in Procs, Runs(p)'
          PROVE  Runs(p) /\ proc'[p] = proc[p] /\ proc[p].job # j /\ proc[p].job \in Jobs
      BY <1>3, <3>1 DEF CloseInv, RunsAgree, Runs
    <3>2. ASSUME NEW p \in Procs, Runs(p)'
          PROVE  job'[proc[p].job] = job[proc[p].job]
      BY <2>1, <3>1, <3>2 DEF OnlyRow
    <3> QED
      BY <3>1, <3>2 DEF CloseInv, RunsAgree
  <2>5. j # "close" => DeliveryAgrees'
    BY <1>3 DEF CloseInv, DeliveryAgrees
  <2> QED
    BY <2>1, <2>2, <2>4, <2>5
<1>4. ASSUME Enqueue \/ PrepareRepair
      PROVE  Goal
  <2>1. PICK j \in {"work", "repair"} :
          /\ job[j].state = "absent" /\ job' = [job EXCEPT ![j] = NewJob] /\ UNCHANGED <<sessionVars, proc>>
          /\ event'[Compile] = event[Compile] /\ (j = "work" => status = "open")
          /\ (j = "repair" => job["close"].state = "recovery-required")
    BY <1>a, <1>4 DEF Enqueue, PrepareRepair, Repairable, Tags
  <2>2. /\ RowsAgree' /\ RunsAgree' /\ DeliveryAgrees' /\ OnlyRow(j) /\ job'[j].state = "ready"
    BY <1>3, <2>1
  <2>3. status # "closed"
    BY <2>1 DEF CloseInv, ClosedIsProven
  <2>4. OpenHasNoClose' /\ FrozenIsQuiet'
    BY <2>1, <2>2, QuietKept
    DEF CloseInv, OnlyRow, OpenHasNoClose, FrozenIsQuiet, OnlyTheCloseRuns, PendingEffect
  <2>5. ClosedIsProven'
    BY <2>1, <2>3 DEF ClosedIsProven, sessionVars
  <2> QED
    BY <2>2, <2>4, <2>5 DEF CloseInv
<1>5. ASSUME NEW c \in checkpoint, Freeze(c)
      PROVE  Goal
  <2>1. /\ status = "open" /\ status' = "closing" /\ NoPending /\ closeReq' = c /\ Current(c)
        /\ job' = [job EXCEPT !["close"] = NewJob] /\ UNCHANGED <<tail, manifest, proc>>
    BY <1>5 DEF Freeze, Frozen
  <2>2. job["close"].state = "absent"
    BY <2>1 DEF CloseInv, OpenHasNoClose
  <2>3. RowsAgree' /\ RunsAgree' /\ OnlyRow("close")
    BY <1>3, <2>1, <2>2
  <2>4. \A p \in Procs : ~At(p, "deliver")
    BY <2>1 DEF CloseInv, DeliveryAgrees, NoPending, Settled
  <2>5. DeliveryAgrees'
    BY <2>1, <2>4 DEF DeliveryAgrees
  <2>6. FrozenIsQuiet'
    <3>1. job'["work"] = job["work"]
      BY <2>3 DEF OnlyRow
    <3> QED
      BY <2>1, <3>1 DEF CloseInv, RowsAgree, NoPending, FrozenIsQuiet, RequestStaysCurrent, OnlyTheCloseRuns,
                PendingEffect, Current
  <2>7. OpenHasNoClose' /\ ClosedIsProven'
    BY <2>1 DEF OpenHasNoClose, ClosedIsProven
  <2> QED
    BY <2>3, <2>5, <2>6, <2>7 DEF CloseInv
<1> HIDE DEF Goal
<1>6. Goal
  BY <1>1, <1>2, <1>4, <1>5
<1> QED
  BY <1>6 DEF Goal

\* Steps that write neither a row nor a delivery: a process enters or leaves a
\* call, or the file of a projection is written.
LEMMA QuietSteps ==
  ASSUME CloseInv, CloseTypeOK', UNCHANGED <<sessionVars, job, event>>,
         \A n \in Notes : note'[n] = note[n] \/ note'[n] # "none",
         \A q \in Procs :
           \/ proc'[q] = proc[q]
           \/ proc'[q].at \notin RunPlaces \cup {"deliver"}
           \/ /\ proc'[q].job = proc[q].job /\ proc'[q].at # "deliver"
              /\ proc[q].at \in {"bind", "beat", "write", "verified", "unknown"}
  PROVE  CloseInv'
<1>1. RowsAgree'
  BY DEF CloseInv, RowsAgree
<1>2. RunsAgree'
  BY RunsKept DEF CloseInv
<1>3. DeliveryAgrees'
  BY DeliveryKept DEF CloseInv
<1>4. OpenHasNoClose' /\ FrozenIsQuiet'
  BY QuietKept DEF CloseInv, OpenHasNoClose, FrozenIsQuiet, OnlyTheCloseRuns, PendingEffect
<1>5. ClosedIsProven'
  BY DEF CloseInv, ClosedIsProven, NoPending, PendingEffect, Settled, sessionVars
<1> QED
  BY <1>1, <1>2, <1>3, <1>4, <1>5 DEF CloseInv

\* A step on the row of one job that already ran, by the process that has it in
\* hand or by nobody: what is left to look at is the row itself.
LEMMA RowSteps ==
  ASSUME CloseInv, CloseTypeOK', NEW j \in Jobs, OnlyRow(j), RunsAgree',
         UNCHANGED <<sessionVars, note>>,
         job[j].state \notin {"absent", "ready"},
         job'[j].state \notin {"absent", "ready"},
         job'[j].lease = "none" <=> job'[j].state # "running",
         job'[j].outcome # "none" => job'[j].case = "resolved",
         \A q \in Procs : proc'[q].at = "deliver" => proc[q].at = "deliver",
         event'[Compile] = event[Compile],
         status = "open" \/ j # "work" \/
           /\ job'[j].state = job[j].state /\ job'[j].lease = job[j].lease
           /\ job'[j].claim => job'[j].receipt = "completed" \/ job'[j].outcome # "none",
         status # "closed" \/
           /\ job'[j].state = job[j].state /\ (job[j].claim => job'[j].claim)
           /\ (job[j].bound => job'[j].bound) /\ job'[j].case # "open"
           /\ job'[j].claim => job'[j].receipt = "completed" \/ job'[j].outcome # "none"
           /\ event' = event
  PROVE  CloseInv'
<1>1. RowsAgree'
  BY RowsKept DEF CloseInv
<1>2. DeliveryAgrees'
  BY DeliveryKept DEF CloseInv
<1>3. OpenHasNoClose' /\ FrozenIsQuiet'
  <2>1. status = "open" => job'["close"].state = "absent"
    BY CloseConstants DEF CloseInv, OpenHasNoClose, OnlyRow
  <2>2. status # "open" =>
           /\ job'["work"].state \notin {"ready", "running", "recovery-required"}
           /\ job'["work"].claim => job'["work"].receipt = "completed" \/ job'["work"].outcome # "none"
           /\ job'["work"].lease = "none"
    BY CloseConstants DEF CloseInv, FrozenIsQuiet, OnlyTheCloseRuns, PendingEffect, OnlyRow
  <2> QED
    BY <2>1, <2>2, QuietKept DEF CloseInv
<1>4. ClosedIsProven'
  <2> SUFFICES ASSUME status = "closed" PROVE ClosedIsProven'
    BY DEF ClosedIsProven, sessionVars
  <2>1. \A i \in Jobs : /\ job'[i].state = job[i].state /\ job'[i].case # "open"
                        /\ (job[i].claim => job'[i].claim) /\ (job[i].bound => job'[i].bound)
                        /\ job'[i].claim => job'[i].receipt = "completed" \/ job'[i].outcome # "none"
    BY DEF OnlyRow, CloseInv, ClosedIsProven, NoPending, PendingEffect
  <2> QED
    BY <2>1, CloseConstants DEF CloseInv, ClosedIsProven, NoPending, PendingEffect, Settled, sessionVars
<1> QED
  BY <1>1, <1>2, <1>3, <1>4 DEF CloseInv

\* A job is claimed: it was ready, so nobody has it, and the session is not
\* closed.
LEMMA ClaimStep ==
  ASSUME CloseInv, CloseTypeOK', NEW p \in Procs, NEW j \in Jobs, Claim(p, j)
  PROVE  CloseInv'
<1>a. job \in [Jobs -> Job] /\ proc \in [Procs -> Place]
  BY DEF CloseInv, CloseTypeOK, Place
<1>1. /\ OnlyRow(j) /\ Keeps(j, {"state", "lease"}) /\ job'[j].state = "running" /\ job'[j].lease = "held"
  BY <1>a, RowEnds DEF Claim
<1>2. /\ proc'[p].at = "claimed" /\ proc'[p].job = j /\ \A q \in Procs \ {p} : proc'[q] = proc[q]
  BY <1>a DEF Claim
<1>3. /\ job[j].state = "ready" /\ Admitted(j) /\ UNCHANGED <<sessionVars, event, note>>
  BY DEF Claim
<1>4. job[j].receipt = "none" /\ job[j].outcome = "none" /\ ~job[j].claim
  BY <1>3 DEF CloseInv, RowsAgree
<1>5. RowsAgree'
  BY <1>1, <1>4, RowsKept DEF CloseInv, Keeps
<1>6. RunsAgree'
  <2>1. \A q \in Procs \ {p} : Runs(q) => proc[q].job \in Jobs \ {j}
    BY <1>3 DEF CloseInv, RunsAgree
  <2>2. \A q \in Procs \ {p} : Runs(q) => job'[proc[q].job] = job[proc[q].job]
    BY <1>1, <2>1 DEF OnlyRow
  <2> QED
    BY <1>1, <1>2, <1>4, <2>1, <2>2 DEF CloseInv, RunsAgree, Runs, Keeps, RunPlaces
<1>7. DeliveryAgrees'
  BY <1>2, <1>3, DeliveryKept DEF CloseInv
<1>8. status # "closed" /\ (status # "open" => j # "work")
  BY <1>3 DEF Admitted
<1>9. OpenHasNoClose' /\ FrozenIsQuiet'
  BY <1>1, <1>3, <1>8, CloseConstants, QuietKept
  DEF CloseInv, OpenHasNoClose, FrozenIsQuiet, OnlyTheCloseRuns, PendingEffect, OnlyRow
<1>10. ClosedIsProven'
  BY <1>3, <1>8 DEF ClosedIsProven, sessionVars
<1> QED
  BY <1>5, <1>6, <1>7, <1>9, <1>10 DEF CloseInv

\* A process goes on with the job it has in hand.
LEMMA RunnerSteps ==
  ASSUME CloseInv, CloseTypeOK', NEW p \in Procs,
         ClaimEffect(p) \/ BindEffect(p) \/ Receipt(p) \/ Finish(p)
  PROVE  CloseInv'
<1> DEFINE Goal == CloseInv'
           j == proc[p].job
<1> USE DEF At
<1>a. job \in [Jobs -> Job] /\ proc \in [Procs -> Place] /\ event \in [Events -> DeliveryStates]
  BY DEF CloseInv, CloseTypeOK, Place
<1>b. /\ Runs(p) /\ j \in Jobs /\ job[j].state \notin {"absent", "ready"}
      /\ proc[p].at \notin {"finish", "giveUp"} => job[j].receipt = "none"
      /\ proc[p].at # "claimed" => job[j].claim
  BY DEF CloseInv, RunsAgree, Runs, RunPlaces, ClaimEffect, BindEffect, Receipt, Finish
<1>c. /\ job[j].lease = "none" <=> job[j].state # "running"
      /\ job[j].outcome # "none" => job[j].case = "resolved"
  BY <1>b DEF CloseInv, RowsAgree
<1>d. job[j].state = "running" => status # "closed" /\ (j = "work" => status = "open")
  BY <1>b DEF CloseInv, ClosedIsProven, NoPending, FrozenIsQuiet, OnlyTheCloseRuns
<1>e. /\ status # "open" /\ j = "work" => ~job[j].claim \/ job[j].receipt = "completed" \/ job[j].outcome # "none"
      /\ status = "closed" => /\ ~job[j].claim \/ job[j].receipt = "completed" \/ job[j].outcome # "none"
                              /\ job[j].case # "open"
  BY <1>b DEF CloseInv, ClosedIsProven, NoPending, FrozenIsQuiet, OnlyTheCloseRuns, PendingEffect
<1>f. \A a \in RunPlaces \cup {"idle", "resolve"} : a # "deliver"
  BY DEF RunPlaces
<1> HIDE DEF j
<1>1. ASSUME Raises(p), UNCHANGED <<sessionVars, job, event, note>>
      PROVE  Goal
  BY <1>a, <1>1, GoesOn, QuietSteps DEF RunPlaces
<1>2. ASSUME ClaimEffect(p)
      PROVE  Goal
  <2>1. CASE job[j].lease = "held" /\ Admitted(j)
    <3>1. /\ job' = [job EXCEPT ![j].claim = TRUE]
          /\ GoTo(p, IF j = "work" THEN "verified" ELSE "bind") /\ proc[p].at = "claimed"
          /\ UNCHANGED <<sessionVars, event, note>>
      BY <1>2, <2>1 DEF ClaimEffect, j
    <3>2. OnlyRow(j) /\ Keeps(j, {"claim"}) /\ job'[j].claim = TRUE
      BY <1>a, <1>b, <3>1, RowClaims
    <3>3. /\ proc'[p].at \in {"verified", "bind"} /\ proc'[p].job = j /\ \A q \in Procs \ {p} : proc'[q] = proc[q]
      BY <1>a, <3>1, GoesOn DEF j
    <3>4. RunsAgree'
      BY <1>b, <3>1, <3>2, <3>3, RunnerKept DEF CloseInv, Keeps, j
    <3> QED
      BY <1>b, <1>c, <1>d, <2>1, <3>1, <3>2, <3>3, <3>4, RowSteps DEF Keeps
  <2>2. CASE ~(job[j].lease = "held" /\ Admitted(j))
    BY <1>1, <1>2, <2>2 DEF ClaimEffect, j
  <2> QED
    BY <2>1, <2>2
<1>3. ASSUME BindEffect(p)
      PROVE  Goal
  <2>1. CASE job[j].lease = "held"
    <3>1. /\ job' = [job EXCEPT ![j].bound = TRUE] /\ GoTo(p, "beat") /\ proc[p].at = "bind"
          /\ UNCHANGED <<sessionVars, event, note>>
      BY <1>3, <2>1 DEF BindEffect, j
    <3>2. OnlyRow(j) /\ Keeps(j, {"bound"}) /\ job'[j].bound = TRUE
      BY <1>a, <1>b, <3>1, RowBinds
    <3>3. /\ proc'[p].at = "beat" /\ proc'[p].job = j /\ \A q \in Procs \ {p} : proc'[q] = proc[q]
      BY <1>a, <3>1, GoesOn DEF j
    <3>4. RunsAgree'
      BY <1>b, <3>1, <3>2, <3>3, RunnerKept DEF CloseInv, Keeps, j
    <3> QED
      BY <1>b, <1>c, <1>d, <2>1, <3>1, <3>2, <3>3, <3>4, RowSteps DEF Keeps
  <2>2. CASE job[j].lease # "held"
    <3>1. /\ GoTo(p, "unknown") /\ proc[p].at = "bind" /\ UNCHANGED <<sessionVars, job, event, note>>
      BY <1>3, <2>2 DEF BindEffect, j
    <3> QED
      BY <1>a, <3>1, GoesOn, QuietSteps
  <2> QED
    BY <2>1, <2>2
<1>4. ASSUME Receipt(p)
      PROVE  Goal
  <2>1. CASE proc[p].at = "verified"
    <3>1. /\ job' = [job EXCEPT ![j].receipt = "completed"] /\ GoTo(p, "finish")
          /\ UNCHANGED <<sessionVars, event, note>>
      BY <1>4, <2>1 DEF Receipt, j
    <3>2. OnlyRow(j) /\ Keeps(j, {"receipt"}) /\ job'[j].receipt = "completed"
      BY <1>a, <1>b, <3>1, RowCompletes
    <3>3. /\ proc'[p].at = "finish" /\ proc'[p].job = j /\ \A q \in Procs \ {p} : proc'[q] = proc[q]
      BY <1>a, <3>1, GoesOn DEF j
    <3>4. RunsAgree'
      BY <1>b, <2>1, <3>2, <3>3, RunnerKept DEF CloseInv, Keeps, j
    <3> QED
      BY <1>b, <1>c, <1>e, <3>1, <3>2, <3>3, <3>4, RowSteps DEF Keeps
  <2>2. CASE proc[p].at = "unknown" /\ job[j].case = "none"
    <3>1. /\ job' = [job EXCEPT ![j].receipt = "unknown", ![j].case = "open"] /\ GoTo(p, "giveUp")
          /\ UNCHANGED <<sessionVars, event, note>>
      BY <1>4, <2>2 DEF Receipt, j
    <3>2. OnlyRow(j) /\ Keeps(j, {"receipt", "case"}) /\ job'[j].receipt = "unknown" /\ job'[j].case = "open"
      BY <1>a, <1>b, <3>1, RowUnknown
    <3>3. /\ proc'[p].at = "giveUp" /\ proc'[p].job = j /\ \A q \in Procs \ {p} : proc'[q] = proc[q]
      BY <1>a, <3>1, GoesOn DEF j
    <3>4. RunsAgree'
      BY <1>b, <2>2, <3>2, <3>3, RunnerKept DEF CloseInv, Keeps, j
    <3>5. status # "closed" /\ (j = "work" => status = "open")
      BY <1>a, <1>b, <1>c, <1>e, <2>2 DEF CloseInv, CloseTypeOK
    <3>6. /\ job'[j].state \notin {"absent", "ready"} /\ job'[j].outcome = "none"
          /\ job'[j].lease = "none" <=> job'[j].state # "running"
      BY <1>a, <1>b, <1>c, <2>2, <3>2 DEF Keeps, Job
    <3> QED
      BY <1>b, <3>1, <3>2, <3>3, <3>4, <3>5, <3>6, RowSteps
  <2>3. CASE proc[p].at = "unknown" /\ job[j].case # "none"
    BY <1>1, <1>4, <2>3 DEF Receipt, j
  <2> QED
    BY <1>4, <2>1, <2>2, <2>3 DEF Receipt
<1>5. ASSUME Finish(p)
      PROVE  Goal
  <2>0. proc[p].at \in {"finish", "giveUp"} /\ UNCHANGED <<sessionVars, note>>
    BY <1>5 DEF Finish
  <2>1. CASE job[j].lease = "held" /\ (At(p, "finish") \/ GiveUpAdmissible(j))
    <3> DEFINE s == IF At(p, "finish") THEN "completed" ELSE "recovery-required"
    <3>1. Ends(j, s) /\ UNCHANGED <<sessionVars, note>>
      BY <1>5, <2>1 DEF Finish, j
    <3>6. s \in {"completed", "recovery-required"}
      OBVIOUS
    <3> HIDE DEF s
    <3>2. OnlyRow(j) /\ Keeps(j, {"state", "lease"}) /\ job'[j].state = s /\ job'[j].lease = "none"
      BY <1>a, <1>b, <3>1, <3>6, RowEnds DEF Ends
    <3>3. event'[Compile] = event[Compile]
      BY <1>a, <1>b, <3>1, CloseConstants DEF Ends, Tags
    <3>4. /\ proc'[p].at \in {"resolve", "idle"} /\ \A q \in Procs \ {p} : proc'[q] = proc[q]
      BY <1>a, <1>5, GoesOn DEF Finish
    <3>5. RunsAgree'
      BY <1>b, <3>2, <3>4, <3>6, RunnerKept DEF CloseInv, RunPlaces, j
    <3> QED
      BY <1>b, <1>c, <1>d, <2>1, <3>1, <3>2, <3>3, <3>4, <3>5, <3>6, RowSteps DEF Keeps
  <2>3. CASE job[j].lease = "held" /\ ~(At(p, "finish") \/ GiveUpAdmissible(j))
    <3>1. job' = [job EXCEPT ![j].lease = "orphan"] /\ UNCHANGED <<sessionVars, event, note>> /\ Raises(p)
      BY <1>5, <2>3 DEF Finish, j
    <3>2. OnlyRow(j) /\ Keeps(j, {"lease"}) /\ job'[j].lease = "orphan"
      BY <1>a, <1>b, <3>1, RowOrphaned
    <3>3. proc'[p].at = "idle" /\ \A q \in Procs \ {p} : proc'[q] = proc[q]
      BY <1>a, <3>1, GoesOn
    <3>4. RunsAgree'
      BY <1>b, <3>2, <3>3, RunnerKept DEF CloseInv, RunPlaces, Keeps, j
    <3> QED
      BY <1>b, <1>c, <1>d, <2>3, <3>1, <3>2, <3>3, <3>4, RowSteps DEF Keeps
  <2>2. CASE job[j].lease # "held"
    <3>1. UNCHANGED <<sessionVars, job, event, note>> /\ (GoTo(p, "resolve") \/ Raises(p))
      BY <1>5, <2>2 DEF Finish, j
    <3> QED
      BY <1>a, <3>1, GoesOn, QuietSteps DEF RunPlaces
  <2> QED
    BY <2>1, <2>2, <2>3
<1> HIDE DEF Goal
<1>6. Goal
  BY <1>2, <1>3, <1>4, <1>5
<1> QED
  BY <1>6 DEF Goal

\* Steps on the deliveries alone.
LEMMA DeliverySteps ==
  ASSUME CloseInv, CloseTypeOK', UNCHANGED <<sessionVars, job, note>>,
         DeliveryAgrees', status # "closed",
         \A q \in Procs : proc'[q] = proc[q] \/ proc'[q].at \notin RunPlaces
  PROVE  CloseInv'
<1>1. RowsAgree'
  BY DEF CloseInv, RowsAgree
<1>2. RunsAgree'
  BY RunsKept DEF CloseInv
<1>3. OpenHasNoClose' /\ FrozenIsQuiet'
  BY QuietKept DEF CloseInv, OpenHasNoClose, FrozenIsQuiet, OnlyTheCloseRuns, PendingEffect
<1>4. ClosedIsProven'
  BY DEF ClosedIsProven, sessionVars
<1> QED
  BY <1>1, <1>2, <1>3, <1>4 DEF CloseInv

\* The close event is claimed, delivered or settled, and the publisher's and the
\* operator's work on the other events.
LEMMA EventSteps ==
  ASSUME CloseInv, CloseTypeOK',
         \/ \E p \in Procs : ClaimDelivery(p) \/ Deliver(p)
         \/ ReconcileDelivery
         \/ \E e \in Events : Publish(e) \/ \E s \in {"delivered", "other", "failed"} : ResolveDelivery(e, s)
  PROVE  CloseInv'
<1> DEFINE Goal == CloseInv'
<1> USE CloseConstants DEF At
<1>a. proc \in [Procs -> Place] /\ event \in [Events -> DeliveryStates]
  BY DEF CloseInv, CloseTypeOK, Place
<1>b. status = "closed" => \A e \in Events : event[e] \in {"none", "delivered", "other"}
  BY DEF CloseInv, ClosedIsProven, NoPending, Settled
<1>c. status = "closed" => event[Compile] = "delivered"
  BY DEF CloseInv, ClosedIsProven
<1>1. ASSUME NEW p \in Procs, ClaimDelivery(p)
      PROVE  Goal
  <2>1. /\ event[Compile] = "pending" /\ event'[Compile] = "claimed" /\ UNCHANGED <<sessionVars, job, note>>
        /\ proc'[p].at = "deliver" /\ \A q \in Procs \ {p} : proc'[q] = proc[q]
    BY <1>a, <1>1 DEF ClaimDelivery, Idle
  <2>2. DeliveryAgrees'
    BY <2>1 DEF CloseInv, DeliveryAgrees
  <2> QED
    BY <1>c, <2>1, <2>2, DeliverySteps DEF RunPlaces
<1>2. ASSUME NEW p \in Procs, Deliver(p)
      PROVE  Goal
  <2>1. /\ proc[p].at = "deliver" /\ proc'[p].at = "idle" /\ \A q \in Procs \ {p} : proc'[q] = proc[q]
        /\ UNCHANGED <<sessionVars, job, note>>
    BY <1>a, <1>2, GoesOn DEF Deliver
  <2>2. event[Compile] = "claimed" /\ DeliveryAgrees'
    BY <2>1 DEF CloseInv, DeliveryAgrees
  <2> QED
    BY <1>c, <2>1, <2>2, DeliverySteps DEF RunPlaces
<1>3. ASSUME ReconcileDelivery
      PROVE  Goal
  <2>1. event[Compile] = "unknown" /\ UNCHANGED <<sessionVars, job, note, proc>>
    BY <1>3 DEF ReconcileDelivery
  <2>2. DeliveryAgrees'
    BY <2>1 DEF CloseInv, DeliveryAgrees
  <2> QED
    BY <1>c, <2>1, <2>2, DeliverySteps
<1>4. ASSUME NEW e \in Events,
             Publish(e) \/ \E s \in {"delivered", "other", "failed"} : ResolveDelivery(e, s)
      PROVE  Goal
  <2>1. /\ event[e] \in {"pending", "unknown"} /\ UNCHANGED <<sessionVars, job, note, proc>>
        /\ event[Compile] = "claimed" => event'[Compile] = "claimed"
    BY <1>a, <1>4 DEF Publish, ResolveDelivery
  <2>2. DeliveryAgrees'
    BY <2>1 DEF CloseInv, DeliveryAgrees
  <2> QED
    BY <1>b, <2>1, <2>2, DeliverySteps
<1> HIDE DEF Goal
<1>5. Goal
  BY <1>1, <1>2, <1>3, <1>4
<1> QED
  BY <1>5 DEF Goal

\* Recovery: a row that nobody has to have in hand.  The sweep needs a lease, the
\* verdict an open case, the reconciliation a job in recovery: none of them is
\* left in a closed session, and none of the "work" row in a frozen one.
LEMMA RecoverySteps ==
  ASSUME CloseInv, CloseTypeOK',
         \/ \E j \in Jobs : RecoverOrphan(j) \/ RecoverExpired(j) \/ Reconcile(j)
                              \/ \E o \in {"exact", "other", "failed"} : ResolveByHand(j, o)
         \/ \E p \in Procs : ResolveByRepair(p) \/ ReconcileByRepair(p)
  PROVE  CloseInv'
<1> DEFINE Goal == CloseInv'
<1> USE CloseConstants DEF At
<1>a. job \in [Jobs -> Job] /\ proc \in [Procs -> Place] /\ event \in [Events -> DeliveryStates]
  BY DEF CloseInv, CloseTypeOK, Place
<1>b. \A j \in Jobs : /\ job[j].lease = "none" <=> job[j].state # "running"
                      /\ job[j].outcome # "none" => job[j].case = "resolved"
                      /\ job[j].state \in {"absent", "ready"} => job[j].case = "none"
  BY DEF CloseInv, RowsAgree
<1>c. status = "closed" => \A j \in Jobs : /\ job[j].state \notin {"running", "recovery-required"}
                                           /\ job[j].case # "open"
  BY DEF CloseInv, ClosedIsProven, NoPending
<1>d. status # "open" => /\ job["work"].state \notin {"running", "recovery-required"}
                         /\ ~job["work"].claim \/ job["work"].receipt = "completed" \/ job["work"].outcome # "none"
  BY DEF CloseInv, FrozenIsQuiet, OnlyTheCloseRuns, PendingEffect
<1>e. ASSUME NEW j \in Jobs, OnlyRow(j), job[j].state \notin {"absent", "ready"},
             job'[j].state \notin {"absent", "ready"},
             job'[j].receipt = job[j].receipt, job'[j].claim = job[j].claim,
             \A q \in Procs : proc'[q] = proc[q] \/ proc'[q].at \notin RunPlaces
      PROVE  RunsAgree'
  BY <1>e, RunsKept DEF CloseInv, OnlyRow
<1>1. ASSUME NEW j \in Jobs, RecoverOrphan(j) \/ RecoverExpired(j)
      PROVE  Goal
  <2>1. /\ job[j].lease # "none" /\ Swept(j) /\ UNCHANGED <<sessionVars, note, proc>>
    BY <1>1 DEF RecoverOrphan, RecoverExpired, Swept
  <2>2. job[j].state = "running"
    BY <1>b, <2>1
  <2>3. /\ OnlyRow(j) /\ Keeps(j, {"state", "lease", "case"})
        /\ job'[j].state = SweepState(j) /\ job'[j].lease = "none"
        /\ job'[j].case = IF SweepState(j) = "recovery-required" THEN "open" ELSE job[j].case
    BY <1>a, <2>1, SweptRow
  <2>4. SweepState(j) \in {"failed", "completed", "recovery-required"}
    BY DEF SweepState
  <2>5. event'[Compile] = event[Compile]
    BY <1>a, <2>1 DEF Swept, Tags
  <2>6. RunsAgree'
    BY <1>e, <2>1, <2>2, <2>3, <2>4 DEF Keeps
  <2>7. SweepState(j) = "recovery-required" => job[j].case # "resolved"
    BY <2>1 DEF Swept, CaseAdmissible
  <2>8. job'[j].outcome # "none" => job'[j].case = "resolved"
    BY <1>b, <2>3, <2>7 DEF Keeps
  <2>9. status # "closed" /\ (status = "open" \/ j # "work")
    BY <1>c, <1>d, <2>2
  <2> QED
    BY <2>1, <2>2, <2>3, <2>4, <2>5, <2>6, <2>8, <2>9, RowSteps
<1>2. ASSUME NEW j \in Jobs, NEW o \in {"exact", "other", "failed"}, Resolve(j, o),
             UNCHANGED <<sessionVars, event, note>>,
             \A q \in Procs : proc'[q] = proc[q] \/ proc'[q].at \notin RunPlaces \cup {"deliver"}
      PROVE  Goal
  <2>1. job[j].case = "open" /\ job' = [job EXCEPT ![j].case = "resolved", ![j].outcome = o]
    BY <1>2 DEF Resolve
  <2>2. /\ OnlyRow(j) /\ Keeps(j, {"case", "outcome"}) /\ job'[j].case = "resolved" /\ job'[j].outcome = o
    BY <1>a, <2>1, RowResolved
  <2>3. job[j].state \notin {"absent", "ready"} /\ status # "closed"
    BY <1>b, <1>c, <2>1
  <2>4. RunsAgree'
    BY <1>e, <1>2, <2>2, <2>3 DEF Keeps
  <2>5. /\ job'[j].state = job[j].state /\ job'[j].lease = job[j].lease /\ job'[j].outcome # "none"
    BY <2>2 DEF Keeps
  <2>6. job'[j].lease = "none" <=> job'[j].state # "running"
    BY <1>b, <2>5
  <2>7. \A q \in Procs : proc'[q].at = "deliver" => proc[q].at = "deliver"
    BY <1>2
  <2> QED
    BY <1>2, <2>2, <2>3, <2>4, <2>5, <2>6, <2>7, RowSteps
<1>3. ASSUME NEW j \in Jobs, job[j].state = "recovery-required", Reconciled(j),
             UNCHANGED <<sessionVars, note>>,
             \A q \in Procs : proc'[q] = proc[q] \/ proc'[q].at \notin RunPlaces \cup {"deliver"}
      PROVE  Goal
  <2>1. /\ OnlyRow(j) /\ Keeps(j, {"state", "sealed"}) /\ job'[j].state \in {"failed", "completed"}
    BY <1>a, <1>3, ReconciledRow
  <2>2. status # "closed" /\ (status = "open" \/ j # "work")
    BY <1>c, <1>d, <1>3
  <2>3. RunsAgree'
    BY <1>e, <1>3, <2>1 DEF Keeps
  <2>4. event'[Compile] = event[Compile]
    BY <1>a, <1>3 DEF Reconciled, Tags
  <2>5. /\ job'[j].lease = "none" /\ job'[j].outcome # "none" => job'[j].case = "resolved"
    BY <1>b, <1>3, <2>1 DEF Keeps
  <2>6. job'[j].lease = "none"
    BY <1>b, <1>3, <2>1 DEF Keeps
  <2>7. \A q \in Procs : proc'[q].at = "deliver" => proc[q].at = "deliver"
    BY <1>3
  <2> QED
    BY <1>3, <2>1, <2>2, <2>3, <2>4, <2>5, <2>6, <2>7, RowSteps
<1>4. ASSUME NEW j \in Jobs, NEW o \in {"exact", "other", "failed"}, ResolveByHand(j, o)
      PROVE  Goal
  BY <1>2, <1>4 DEF ResolveByHand
<1>5. ASSUME NEW j \in Jobs, Reconcile(j)
      PROVE  Goal
  BY <1>3, <1>5 DEF Reconcile
<1>6. ASSUME NEW p \in Procs, ResolveByRepair(p)
      PROVE  Goal
  <2>1. /\ UNCHANGED <<sessionVars, event, note>> /\ (GoTo(p, "reconcile") \/ Raises(p))
        /\ Resolve("close", "exact") \/ UNCHANGED job
    BY <1>6 DEF ResolveByRepair
  <2>2. \A q \in Procs : proc'[q] = proc[q] \/ proc'[q].at \notin RunPlaces \cup {"deliver"}
    BY <1>a, <2>1, GoesOn DEF RunPlaces
  <2> QED
    BY <1>2, <2>1, <2>2, QuietSteps
<1>7. ASSUME NEW p \in Procs, ReconcileByRepair(p)
      PROVE  Goal
  <2>1. /\ UNCHANGED <<sessionVars, note>> /\ Raises(p)
        /\ \/ job["close"].state = "recovery-required" /\ Reconciled("close")
           \/ UNCHANGED <<job, event>>
    BY <1>7 DEF ReconcileByRepair
  <2>2. \A q \in Procs : proc'[q] = proc[q] \/ proc'[q].at \notin RunPlaces \cup {"deliver"}
    BY <1>a, <2>1, GoesOn DEF RunPlaces
  <2> QED
    BY <1>3, <2>1, <2>2, QuietSteps
<1> HIDE DEF Goal
<1>8. Goal
  BY <1>1, <1>4, <1>5, <1>6, <1>7
<1> QED
  BY <1>8 DEF Goal

\* A process dies: a job it has in hand keeps its lease as an orphan, a delivery
\* it claimed is unknown.
LEMMA DieStep ==
  ASSUME CloseInv, CloseTypeOK', NEW p \in Procs, Die(p)
  PROVE  CloseInv'
<1> USE CloseConstants DEF At
<1>a. job \in [Jobs -> Job] /\ proc \in [Procs -> Place] /\ event \in [Events -> DeliveryStates]
  BY DEF CloseInv, CloseTypeOK, Place
<1>1. /\ proc[p].at # "idle" /\ UNCHANGED <<sessionVars, note>> /\ proc'[p].at = "idle"
      /\ \A q \in Procs \ {p} : proc'[q] = proc[q]
  BY <1>a, GoesOn DEF Die
<1>2. CASE proc[p].at = "deliver"
  <2>1. UNCHANGED job
    BY <1>2 DEF Die
  <2>2. DeliveryAgrees' /\ status # "closed"
    BY <1>1, <1>2 DEF CloseInv, DeliveryAgrees, ClosedIsProven
  <2> QED
    BY <1>1, <2>1, <2>2, DeliverySteps DEF RunPlaces
<1>3. CASE proc[p].at # "deliver" /\ UNCHANGED job
  <2>1. UNCHANGED event
    BY <1>3 DEF Die
  <2> QED
    BY <1>1, <1>3, <2>1, QuietSteps DEF RunPlaces
<1>4. CASE proc[p].at # "deliver" /\ ~UNCHANGED job
  <2> DEFINE j == proc[p].job
  <2>1. /\ proc[p].at \notin {"resolve", "reconcile", "deliver"} /\ job[j].lease = "held"
        /\ job' = [job EXCEPT ![j].lease = "orphan"] /\ UNCHANGED event
    BY <1>4 DEF Die
  <2>2. Runs(p) /\ j \in Jobs /\ job[j].state \notin {"absent", "ready"}
    BY <1>a, <1>1, <2>1 DEF CloseInv, RunsAgree, Runs, RunPlaces, Place, Points
  <2>3. job[j].state = "running" /\ (job[j].outcome # "none" => job[j].case = "resolved")
    BY <2>1, <2>2 DEF CloseInv, RowsAgree
  <2>4. OnlyRow(j) /\ Keeps(j, {"lease"}) /\ job'[j].lease = "orphan"
    BY <1>a, <2>1, <2>2, RowOrphaned
  <2>5. status # "closed" /\ (status = "open" \/ j # "work")
    BY <2>2, <2>3 DEF CloseInv, ClosedIsProven, NoPending, FrozenIsQuiet, OnlyTheCloseRuns
  <2>6. RunsAgree'
    BY <1>1, <2>2, <2>4, RunnerKept DEF CloseInv, RunPlaces, Keeps
  <2> HIDE DEF j
  <2> QED
    BY <1>1, <2>1, <2>2, <2>3, <2>4, <2>5, <2>6, RowSteps DEF Keeps
<1> QED
  BY <1>2, <1>3, <1>4

\* Steps inside a call that only move the process, and files.
LEMMA CallSteps ==
  ASSUME CloseInv, CloseTypeOK',
         \/ \E p \in Procs : CompleteRepair(p) \/ Beat(p) \/ WriteFails(p) \/ \E n \in Notes : Materialize(p, n)
         \/ \E n \in Notes : ForeignFile(n)
  PROVE  CloseInv'
<1> DEFINE Goal == CloseInv'
<1> USE DEF At
<1>a. proc \in [Procs -> Place] /\ note \in [Notes -> {"none", "ready", "foreign"}]
  BY DEF CloseInv, CloseTypeOK, Place
<1>1. ASSUME NEW p \in Procs, CompleteRepair(p)
      PROVE  Goal
  <2>1. /\ UNCHANGED <<sessionVars, job, event, note>> /\ proc'[p].at = "resolve"
        /\ \A q \in Procs \ {p} : proc'[q] = proc[q]
    BY <1>a, <1>1 DEF CompleteRepair, Idle
  <2> QED
    BY <2>1, QuietSteps DEF RunPlaces
<1>2. ASSUME NEW p \in Procs, Beat(p) \/ WriteFails(p)
      PROVE  Goal
  <2>1. /\ UNCHANGED <<sessionVars, job, event, note>> /\ proc[p].at \in {"beat", "write", "verified"}
        /\ GoTo(p, "verified") \/ GoTo(p, "write") \/ GoTo(p, "unknown")
    BY <1>2 DEF Beat, WriteFails
  <2>2. /\ proc'[p].job = proc[p].job /\ proc'[p].at # "deliver"
        /\ \A q \in Procs \ {p} : proc'[q] = proc[q]
    BY <1>a, <2>1, GoesOn
  <2> QED
    BY <2>1, <2>2, QuietSteps
<1>3. ASSUME NEW p \in Procs, NEW n \in Notes, Materialize(p, n)
      PROVE  Goal
  <2>1. /\ UNCHANGED <<sessionVars, job, event>> /\ proc[p].at = "write"
        /\ \A m \in Notes : note'[m] = note[m] \/ note'[m] # "none"
    BY <1>a, <1>3 DEF Materialize
  <2>2. /\ proc'[p].job = proc[p].job /\ proc'[p].at # "deliver"
        /\ \A q \in Procs \ {p} : proc'[q] = proc[q]
    BY <1>a, <1>3, GoesOn DEF Materialize, Place
  <2> QED
    BY <2>1, <2>2, QuietSteps
<1>4. ASSUME NEW n \in Notes, ForeignFile(n)
      PROVE  Goal
  BY <1>a, <1>4, QuietSteps DEF ForeignFile
<1> HIDE DEF Goal
<1>5. Goal
  BY <1>1, <1>2, <1>3, <1>4
<1> QED
  BY <1>5 DEF Goal

-----------------------------------------------------------------------------
(* Theorems *)

LEMMA InitClose == Init => CloseInv
<1> SUFFICES ASSUME Init PROVE CloseInv
  OBVIOUS
<1>1. CloseTypeOK
  BY InitCloseType
<1>2. \A j \in Jobs : /\ job[j].state = "absent" /\ job[j].lease = "none" /\ ~job[j].claim
                      /\ job[j].receipt = "none" /\ job[j].case = "none" /\ job[j].outcome = "none"
  BY DEF Init, NewJob
<1>3. \A p \in Procs : proc[p].at = "idle"
  BY DEF Init, Idle
<1> QED
  BY <1>1, <1>2, <1>3, CloseConstants
  DEF CloseInv, RowsAgree, RunsAgree, Runs, RunPlaces, DeliveryAgrees, At, OpenHasNoClose, FrozenIsQuiet,
      RequestStaysCurrent, OnlyTheCloseRuns, ClosedIsProven, Init

LEMMA NextKeepsClose ==
  ASSUME CloseInv, [Next]_vars
  PROVE  CloseInv'
<1>1. CASE UNCHANGED vars
  <2>1. CloseTypeOK'
    BY <1>1 DEF CloseInv, CloseTypeOK, vars, sessionVars
  <2> QED
    BY <1>1, <2>1, QuietSteps DEF vars
<1>2. CASE Next
  <2>1. CloseTypeOK'
    BY <1>2, NextCloseType DEF CloseInv
  <2> QED
    BY <1>2, <2>1, SessionSteps, ClaimStep, RunnerSteps, EventSteps, RecoverySteps, DieStep, CallSteps
    DEF Next, Enter, Continue, Operator
<1> QED
  BY <1>1, <1>2

\* The inductive invariant of the close: types, agreement of the rows of a job
\* and of the places of the processes with them, and the two properties.
THEOREM CloseStaysSound == Spec => []CloseInv
BY InitClose, NextKeepsClose, PTL DEF Spec

\* A frozen session is quiet: freeze admits it only without pending work, and
\* the guards of the session tables, the lease admission and the receipt that
\* collides with an open case keep it so for ever.
THEOREM FrozenStaysQuiet == Spec => []FrozenIsQuiet
BY CloseStaysSound, PTL DEF CloseInv

\* A closed session is proven closed, and no paused process, late receipt, sweep
\* or operator takes the proof away again.
THEOREM ClosedStaysProven == Spec => []ClosedIsProven
BY CloseStaysSound, PTL DEF CloseInv

-----------------------------------------------------------------------------
(* The spool: what its files mean at any moment *)

\* Positions of the queue whose stage() got to its last write.
Committed ==
  IF disk[QueueState] = Nil THEN 0
  ELSE IF QueuePending THEN TailSequence - 1 ELSE TailSequence

EntryAt(n) == disk[QueueRef(n)].entry

InQueue(d) == disk[Delivery(d)] \in 1..Committed

SessionQueue(s) == {d \in Deliveries : InQueue(d) /\ SessionOf[d] = s}

\* The committed positions name one another and their entries.
RowsLinked ==
  \A n \in 1..Committed :
    /\ disk[QueueRef(n)] # Nil
    /\ disk[QueueRef(n)].previous = IF n = 1 THEN Nil ELSE EntryAt(n - 1)
    /\ disk[Delivery(EntryAt(n))] = n

\* An entry is committed with all its files, or is the pending one with some of
\* them, or has none.
EntriesNamed ==
  \A d \in Deliveries :
    IF InQueue(d) THEN disk[Event(d)] # Nil /\ EntryAt(disk[Delivery(d)]) = d
    ELSE IF QueuePending /\ disk[QueueState].entry = d
      THEN /\ disk[Event(d)] \in {Nil, disk[QueueState].body}
           /\ disk[Delivery(d)] \in {Nil, disk[QueueState].tail}
      ELSE disk[Event(d)] = Nil /\ disk[Delivery(d)] = Nil

\* Behind the committed positions there is at most the pending one.
RowsBounded ==
  \A n \in Positions : n > Committed =>
    IF QueuePending /\ n = disk[QueueState].tail
      THEN disk[QueueRef(n)] \in {Nil, [entry |-> disk[QueueState].entry, previous |-> disk[QueueState].before]}
      ELSE disk[QueueRef(n)] = Nil

\* The queue state names the entry behind the committed ones, or the last of them.
StateAgrees ==
  disk[QueueState] # Nil =>
    LET q == disk[QueueState] IN
    IF QueuePending
      THEN ~InQueue(q.entry) /\ q.before = IF q.tail = 1 THEN Nil ELSE EntryAt(q.tail - 1)
      ELSE EntryAt(q.tail) = q.entry

\* The committed entries of a session are numbered through, each behind the one
\* before it.
ChainsWhole ==
  \A s \in Sessions :
    /\ {disk[Event(d)].sequence : d \in SessionQueue(s)} = 1..Cardinality(SessionQueue(s))
    /\ \A d \in SessionQueue(s) : disk[Event(d)].sequence > 1 =>
         /\ Predecessor(d) \in SessionQueue(s)
         /\ disk[Event(Predecessor(d))].sequence + 1 = disk[Event(d)].sequence

\* x is the last committed entry of session s, Nil before the first.
EndsAt(s, x) ==
  IF SessionQueue(s) = {} THEN x = Nil
  ELSE x \in SessionQueue(s) /\ disk[Event(x)].sequence = Cardinality(SessionQueue(s))

\* A session's checkpoint names its last entry, unless the pending entry is of
\* this session: then its body does.
ChainsEnd ==
  \A s \in Sessions :
    IF QueuePending /\ SessionOf[disk[QueueState].entry] = s
      THEN /\ EndsAt(s, disk[QueueState].body.previous)
           /\ disk[QueueState].body.sequence = Cardinality(SessionQueue(s)) + 1
      ELSE IF disk[SessionCheckpoint(s)] = Nil THEN EndsAt(s, Nil)
           ELSE disk[SessionCheckpoint(s)].state = "committed" /\ EndsAt(s, disk[SessionCheckpoint(s)].entry)

QueueInv == RowsLinked /\ EntriesNamed /\ RowsBounded /\ StateAgrees /\ ChainsWhole /\ ChainsEnd

\* Attempts are of committed entries, and a completed one of an event the ledger
\* has; an attempt state restates an attempt on file.
AttemptsTrue ==
  \A d \in Deliveries :
    /\ \A k \in Keys : disk[Attempt(d, k)] # Nil =>
         /\ InQueue(d)
         /\ disk[Attempt(d, k)].disposition = "completed" <=> k = "completed"
         /\ k = "completed" => d \in canonical
    /\ disk[AttemptState(d)] # Nil =>
         LET s == disk[AttemptState(d)] IN
         disk[Attempt(d, s.latest)] # Nil /\ s = StateOf(s.latest, disk[Attempt(d, s.latest)])

AcksTrue ==
  \A d \in Deliveries : Acked(d) =>
    /\ InQueue(d) /\ Disposition(d) = "completed"
    /\ Predecessor(d) # Nil => Acked(Predecessor(d))

\* A cursor record, also one behind the cursor, tells how its position was
\* resolved.
CursorTrue ==
  /\ \A n \in Positions : disk[CursorRecord(n)] # Nil =>
       n <= Committed /\ Resolved(EntryAt(n)) /\ disk[CursorRecord(n)] = RecordOf({}, n)
  /\ \A n \in 1..CursorAt : disk[CursorRecord(n)] # Nil

DrainInv == AttemptsTrue /\ AcksTrue /\ CursorTrue

-----------------------------------------------------------------------------
(* What the owner of the lock still has to write *)

\* The writes of s from the j-th on.
From(s, j) == [i \in 1..(Len(s) - j + 1) |-> s[i + j - 1]]

\* What the first j - 1 writes of a commit have left on disk.
WrittenTo(j) ==
  LET q == disk[QueueState] IN
  /\ j > 2 => disk[Event(q.entry)] = q.body
  /\ j > 3 => disk[Delivery(q.entry)] = q.tail
  /\ j > 4 => disk[QueueRef(q.tail)] = [entry |-> q.entry, previous |-> q.before]
  /\ j > 5 => disk[SessionCheckpoint(SessionOf[q.entry])] = [entry |-> q.entry, state |-> "committed"]

\* A hook has decided on its writes as it would now, and is at the j-th of them.
StageTodo(d, ws) ==
  \/ QueuePending /\ \E j \in 1..6 : ws = From(StageWrites(d), j) /\ WrittenTo(j)
  \/ ~QueuePending /\ ~Known(d) /\ ws = StageWrites(d)

\* The positions up to m are resolved, once those in A are acknowledged.
ResolvedTo(A, m) ==
  \A n \in (CursorAt + 1)..m : EntryAt(n) \in A \/ Resolved(EntryAt(n))

\* The cursor moves to m; with half, the record of the next position is written.
AdvanceTodo(ws) ==
  \E m \in CursorAt..Committed, half \in {0, 1} :
    /\ ResolvedTo({}, m) /\ m > CursorAt
    /\ ws = [i \in 1..(2 * (m - CursorAt) - half) |-> AdvanceWrite({}, i + half)]
    /\ half = 1 => disk[CursorRecord(CursorAt + 1)] = RecordOf({}, CursorAt + 1)

AckTodo(ws) ==
  \E d \in Deliveries, m \in CursorAt..Committed :
    /\ InQueue(d) /\ ~Acked(d) /\ AckAdmissible(d)
    /\ ResolvedTo({d}, m)
    /\ ws = [i \in 1..(1 + 2 * (m - CursorAt)) |->
                 IF i = 1 THEN <<AckFile(d), "completed">> ELSE AdvanceWrite({d}, i - 1)]

AttemptTodo(ws) ==
  \E d \in Deliveries, k \in Keys :
    /\ InQueue(d) /\ ~Terminal(d)
    /\ k = "completed" => d \in canonical
    /\ \/ /\ disk[Attempt(d, k)] = Nil
          /\ ws = << <<Attempt(d, k), NewAttempt(d, k)>>, <<AttemptState(d), StateOf(k, NewAttempt(d, k))>> >>
       \/ /\ disk[Attempt(d, k)] # Nil /\ disk[Attempt(d, k)].number = Count(d) + 1
          /\ ws = << <<AttemptState(d), StateOf(k, disk[Attempt(d, k)])>> >>

TodoInv ==
  /\ holder \in Deliveries => StageTodo(holder, todo)
  /\ holder \in Drainers => AdvanceTodo(todo) \/ AckTodo(todo) \/ AttemptTodo(todo)

-----------------------------------------------------------------------------
(* What a drainer relies on *)

\* The entries of a batch are committed, and what was recorded as delivered was.
BatchInv ==
  \A p \in Drainers :
    /\ batch[p] \subseteq 1..Committed
    /\ at[p] \in {"entry", "record", "ack"} => batch[p] # {}
    /\ at[p] = "record" /\ outcome[p] = "completed" => CurrentEntry(p) \in canonical

StagedInv == \A d \in staged : InQueue(d)

SpoolInv == SpoolTypeOK /\ QueueInv /\ DrainInv /\ TodoInv /\ BatchInv /\ StagedInv

-----------------------------------------------------------------------------
(* Files and lists of writes *)

\* A file's name says its kind and what it is about.
LEMMA FileNames ==
  /\ QueueState[1] = "queue-state" /\ Cursor[1] = "cursor"
  /\ \A s : SessionCheckpoint(s)[1] = "session" /\ SessionCheckpoint(s)[2] = s
  /\ \A d : /\ Event(d)[1] = "event" /\ Event(d)[2] = d
            /\ Delivery(d)[1] = "delivery" /\ Delivery(d)[2] = d
            /\ AttemptState(d)[1] = "attempt-state" /\ AttemptState(d)[2] = d
            /\ AckFile(d)[1] = "ack" /\ AckFile(d)[2] = d
  /\ \A n : /\ QueueRef(n)[1] = "queue" /\ QueueRef(n)[2] = n
            /\ CursorRecord(n)[1] = "cursor-record" /\ CursorRecord(n)[2] = n
  /\ \A d, k : Attempt(d, k)[1] = "attempt" /\ Attempt(d, k)[2] = d /\ Attempt(d, k)[3] = k
BY DEF QueueState, Cursor, SessionCheckpoint, Event, Delivery, AttemptState, AckFile, QueueRef, CursorRecord, Attempt

LEMMA FilesOfSpool ==
  /\ QueueState \in Immutable \cup Derived /\ Cursor \in Immutable \cup Derived
  /\ \A s \in Sessions : SessionCheckpoint(s) \in Immutable \cup Derived
  /\ \A d \in Deliveries : /\ Event(d) \in Immutable \cup Derived /\ Delivery(d) \in Immutable \cup Derived
                           /\ AttemptState(d) \in Immutable \cup Derived /\ AckFile(d) \in Immutable \cup Derived
  /\ \A n \in Positions : QueueRef(n) \in Immutable \cup Derived /\ CursorRecord(n) \in Immutable \cup Derived
  /\ \A d \in Deliveries, k \in Keys : Attempt(d, k) \in Immutable \cup Derived
BY DEF Immutable, Derived

\* The files that stage() writes, and those that a drain writes, are as before.
QueueFilesSame ==
  /\ disk'[QueueState] = disk[QueueState]
  /\ \A s \in Sessions : disk'[SessionCheckpoint(s)] = disk[SessionCheckpoint(s)]
  /\ \A d \in Deliveries : disk'[Event(d)] = disk[Event(d)] /\ disk'[Delivery(d)] = disk[Delivery(d)]
  /\ \A n \in Positions : disk'[QueueRef(n)] = disk[QueueRef(n)]

AttemptsSame ==
  \A d \in Deliveries : /\ disk'[AttemptState(d)] = disk[AttemptState(d)]
                        /\ \A k \in Keys : disk'[Attempt(d, k)] = disk[Attempt(d, k)]
AcksSame == \A d \in Deliveries : disk'[AckFile(d)] = disk[AckFile(d)]
RecordsSame == \A n \in Positions : disk'[CursorRecord(n)] = disk[CursorRecord(n)]
DrainFilesSame == AttemptsSame /\ AcksSame /\ RecordsSame /\ disk'[Cursor] = disk[Cursor]

\* A write changes one file.
LEMMA OneFileWritten ==
  ASSUME DOMAIN disk = Immutable \cup Derived, NEW f \in Immutable \cup Derived, NEW v,
         disk' = [disk EXCEPT ![f] = v]
  PROVE  /\ DOMAIN disk' = Immutable \cup Derived /\ disk'[f] = v
         /\ \A g \in Immutable \cup Derived : g # f => disk'[g] = disk[g]
OBVIOUS

\* A write to a file of a drain leaves the queue alone, and the other way round.
LEMMA DrainFileWritten ==
  ASSUME DOMAIN disk = Immutable \cup Derived, NEW f \in Immutable \cup Derived, NEW v,
         disk' = [disk EXCEPT ![f] = v],
         f[1] \in {"attempt", "attempt-state", "ack", "cursor-record", "cursor"}
  PROVE  /\ QueueFilesSame /\ DOMAIN disk' = Immutable \cup Derived
         /\ f[1] \notin {"attempt", "attempt-state"} => AttemptsSame
         /\ f[1] # "ack" => AcksSame
         /\ f[1] # "cursor-record" => RecordsSame
         /\ f[1] # "cursor" => disk'[Cursor] = disk[Cursor]
<1>1. /\ DOMAIN disk' = Immutable \cup Derived
      /\ \A g \in Immutable \cup Derived : g # f => disk'[g] = disk[g]
  BY OneFileWritten
<1>2. QueueFilesSame
  BY <1>1, FileNames, FilesOfSpool DEF QueueFilesSame
<1>3. f[1] \notin {"attempt", "attempt-state"} => AttemptsSame
  BY <1>1, FileNames, FilesOfSpool DEF AttemptsSame
<1>4. f[1] # "ack" => AcksSame
  BY <1>1, FileNames, FilesOfSpool DEF AcksSame
<1>5. f[1] # "cursor-record" => RecordsSame
  BY <1>1, FileNames, FilesOfSpool DEF RecordsSame
<1>6. f[1] # "cursor" => disk'[Cursor] = disk[Cursor]
  BY <1>1, FileNames, FilesOfSpool
<1> QED
  BY <1>1, <1>2, <1>3, <1>4, <1>5, <1>6

LEMMA QueueFileWritten ==
  ASSUME DOMAIN disk = Immutable \cup Derived, NEW f \in Immutable \cup Derived, NEW v,
         disk' = [disk EXCEPT ![f] = v],
         f[1] \in {"queue-state", "session", "event", "delivery", "queue"}
  PROVE  DrainFilesSame /\ DOMAIN disk' = Immutable \cup Derived
BY OneFileWritten, FileNames, FilesOfSpool DEF DrainFilesSame, AttemptsSame, AcksSame, RecordsSame

\* A list of n writes.
IsList(s, n) == n \in Nat /\ s = [i \in 1..n |-> s[i]]

LEMMA ListFacts ==
  ASSUME NEW s, NEW n \in Nat, IsList(s, n)
  PROVE  /\ Len(s) = n /\ s \in Seq({s[i] : i \in 1..n})
         /\ n = 0 <=> s = <<>>
         /\ n > 0 => /\ Head(s) = s[1]
                     /\ IsList(Tail(s), n - 1)
                     /\ \A i \in 1..(n - 1) : Tail(s)[i] = s[i + 1]
<1> DEFINE S == {s[i] : i \in 1..n}
<1>1. s \in [1..n -> S]
  BY DEF IsList
<1>2. s \in Seq(S)
  BY <1>1, SeqDef, Zenon
<1>3. Len(s) = n
  <2>1. DOMAIN s = 1..n /\ DOMAIN s = 1..Len(s) /\ Len(s) \in Nat
    BY <1>1, <1>2, LenProperties
  <2> QED
    BY <2>1
<1>4. n = 0 <=> s = <<>>
  BY <1>2, <1>3, EmptySeq
<1>5. ASSUME n > 0
      PROVE  Head(s) = s[1] /\ IsList(Tail(s), n - 1) /\ \A i \in 1..(n - 1) : Tail(s)[i] = s[i + 1]
  <2> HIDE DEF S
  <2>1. /\ Tail(s) \in Seq(S) /\ Len(Tail(s)) = n - 1
        /\ \A i \in 1..(n - 1) : Tail(s)[i] = s[i + 1]
    BY <1>2, <1>3, <1>4, <1>5, HeadTailProperties
  <2>2. Head(s) = s[1]
    BY <1>2, <1>3, <1>5
  <2>3. Tail(s) = [i \in 1..(n - 1) |-> Tail(s)[i]]
    BY <2>1, LenProperties
  <2> QED
    BY <1>5, <2>1, <2>2, <2>3 DEF IsList
<1> QED
  BY <1>2, <1>3, <1>4, <1>5

LEMMA ListsEqual ==
  ASSUME NEW s, NEW t, NEW n \in Nat, IsList(s, n), IsList(t, n), \A i \in 1..n : s[i] = t[i]
  PROVE  s = t
BY DEF IsList

Join(s, t) == s \o t

LEMMA ListsJoin ==
  ASSUME NEW s, NEW t, NEW m \in Nat, NEW n \in Nat, IsList(s, m), IsList(t, n)
  PROVE  /\ IsList(Join(s, t), m + n)
         /\ \A i \in 1..m : Join(s, t)[i] = s[i]
         /\ \A i \in 1..n : Join(s, t)[m + i] = t[i]
<1> DEFINE S == {s[i] : i \in 1..m}
           T == {t[i] : i \in 1..n}
           U == S \cup T
<1>1. Len(s) = m /\ s \in Seq(S) /\ Len(t) = n /\ t \in Seq(T)
  BY ListFacts
<1> HIDE DEF S, T
<1>2. s \in Seq(U) /\ t \in Seq(U)
  BY <1>1, SeqMonotonic
<1> HIDE DEF U
<1>3. /\ s \o t \in Seq(U) /\ Len(s \o t) = m + n
      /\ \A i \in 1..(m + n) : (s \o t)[i] = IF i <= m THEN s[i] ELSE t[i - m]
  BY <1>1, <1>2, ConcatProperties
<1>4. DOMAIN (s \o t) = 1..(m + n) /\ s \o t \in [1..(m + n) -> U]
  BY <1>3, LenProperties
<1>5. s \o t = [i \in 1..(m + n) |-> (s \o t)[i]]
  BY <1>4
<1>6. \A i \in 1..m : (s \o t)[i] = s[i]
  BY <1>3
<1>7. \A i \in 1..n : (s \o t)[m + i] = t[i]
  BY <1>3
<1> QED
  BY <1>5, <1>6, <1>7 DEF IsList, Join

\* A nonempty set of numbers has a least one.
LEMMA LeastNumber ==
  ASSUME NEW T, T \subseteq Nat, T # {}
  PROVE  Min(T) \in T /\ \A y \in T : Min(T) <= y
<1>1. \E x \in T : \A y \in T : ~(<<y, x>> \in OpToRel(<, Nat))
  BY NatLessThanWellFounded, WFMin
<1>2. PICK x \in T : \A y \in T : ~(<<y, x>> \in OpToRel(<, Nat))
  BY <1>1
<1>3. \A y \in T : x <= y
  <2>1. SUFFICES ASSUME NEW y \in T, ~(x <= y) PROVE FALSE
    OBVIOUS
  <2>2. y < x /\ y \in Nat /\ x \in Nat
    BY <2>1
  <2>3. <<y, x>> \in OpToRel(<, Nat)
    BY <2>2 DEF OpToRel
  <2> QED
    BY <1>2, <2>3
<1> QED
  BY <1>3 DEF Min

-----------------------------------------------------------------------------
(* What keeps the meaning of the files *)

\* A committed position, its entry and the entry's event stay for ever.
QueueGrows ==
  /\ Committed <= Committed'
  /\ \A n \in 1..Committed : EntryAt(n)' = EntryAt(n)
  /\ \A d \in Deliveries : InQueue(d) => InQueue(d)' /\ disk'[Event(d)] = disk[Event(d)]

LEMMA PositionsAreNumbers == Cardinality(Deliveries) \in Nat /\ Positions \subseteq Nat \ {0}
BY SpoolAssumption, FS_CardinalityType DEF Positions

LEMMA CommittedType ==
  ASSUME FilesTyped
  PROVE  /\ Committed \in Nat /\ Committed <= Cardinality(Deliveries) /\ 1..Committed \subseteq Positions
         /\ TailSequence \in Nat /\ TailSequence <= Cardinality(Deliveries)
         /\ CursorAt \in Nat /\ CursorAt <= Cardinality(Deliveries)
         /\ QueuePending => TailSequence = Committed + 1
         /\ ~QueuePending => TailSequence = Committed
         /\ disk[QueueState] # Nil => TailSequence = disk[QueueState].tail
<1> USE PositionsAreNumbers
<1>1. /\ TailSequence \in Nat /\ TailSequence <= Cardinality(Deliveries)
      /\ QueuePending => TailSequence >= 1 /\ disk[QueueState] # Nil
      /\ disk[QueueState] # Nil => TailSequence = disk[QueueState].tail
  BY DEF FilesTyped, QueueStates, TailSequence, Positions, QueuePending
<1>2. CursorAt \in Nat /\ CursorAt <= Cardinality(Deliveries)
  BY DEF FilesTyped, CursorAt, Positions
<1>3. /\ Committed \in Nat /\ Committed <= Cardinality(Deliveries)
      /\ QueuePending => TailSequence = Committed + 1
      /\ ~QueuePending => TailSequence = Committed
  BY <1>1 DEF Committed, TailSequence
<1> QED
  BY <1>1, <1>2, <1>3 DEF Positions

\* Entries of committed positions are deliveries, and so are predecessors.
LEMMA EntryType ==
  ASSUME FilesTyped, QueueInv
  PROVE  /\ \A n \in 1..Committed : n \in Positions /\ EntryAt(n) \in Deliveries /\ InQueue(EntryAt(n))
         /\ \A d \in Deliveries : InQueue(d) => /\ disk[Event(d)] \in Bodies
                                                /\ Predecessor(d) \in Deliveries \cup {Nil}
                                                /\ disk[Delivery(d)] \in 1..Committed
                                                /\ EntryAt(disk[Delivery(d)]) = d
<1>1. ASSUME NEW n \in 1..Committed
      PROVE  n \in Positions /\ EntryAt(n) \in Deliveries /\ InQueue(EntryAt(n))
  <2>1. n \in Positions
    BY CommittedType
  <2>2. disk[QueueRef(n)] \in QueueRefs
    BY <2>1 DEF FilesTyped, QueueInv, RowsLinked
  <2> QED
    BY <2>1, <2>2 DEF EntryAt, QueueRefs, InQueue, QueueInv, RowsLinked
<1>2. ASSUME NEW d \in Deliveries, InQueue(d)
      PROVE  /\ disk[Event(d)] \in Bodies /\ Predecessor(d) \in Deliveries \cup {Nil}
             /\ disk[Delivery(d)] \in 1..Committed /\ EntryAt(disk[Delivery(d)]) = d
  <2>1. disk[Event(d)] \in Bodies
    BY <1>2 DEF FilesTyped, QueueInv, EntriesNamed
  <2> QED
    BY <1>2, <2>1 DEF Bodies, Predecessor, InQueue, QueueInv, EntriesNamed
<1> QED
  BY <1>1, <1>2

LEMMA SameQueue ==
  ASSUME FilesTyped, QueueInv, QueueFilesSame
  PROVE  /\ Committed' = Committed /\ (QueuePending' <=> QueuePending) /\ TailSequence' = TailSequence
         /\ \A n \in 1..Committed : EntryAt(n)' = EntryAt(n)
         /\ \A d \in Deliveries : /\ InQueue(d)' <=> InQueue(d)
                                  /\ Predecessor(d)' = Predecessor(d)
         /\ \A s \in Sessions : SessionQueue(s)' = SessionQueue(s)
         /\ QueueGrows
<1>1. Committed' = Committed /\ (QueuePending' <=> QueuePending) /\ TailSequence' = TailSequence
  BY DEF Committed, QueuePending, TailSequence, QueueFilesSame
<1>2. \A n \in 1..Committed : EntryAt(n)' = EntryAt(n)
  BY CommittedType DEF EntryAt, QueueFilesSame
<1>3. \A d \in Deliveries : (InQueue(d)' <=> InQueue(d)) /\ Predecessor(d)' = Predecessor(d)
  BY <1>1 DEF InQueue, Predecessor, QueueFilesSame
<1>4. \A s \in Sessions : SessionQueue(s)' = SessionQueue(s)
  BY <1>3 DEF SessionQueue
<1>5. QueueGrows
  BY <1>1, <1>2, <1>3, CommittedType DEF QueueGrows, QueueFilesSame
<1> QED
  BY <1>1, <1>2, <1>3, <1>4, <1>5

LEMMA QueueKept ==
  ASSUME FilesTyped, QueueInv, QueueFilesSame
  PROVE  QueueInv' /\ QueueGrows
<1>1. /\ Committed' = Committed /\ (QueuePending' <=> QueuePending) /\ TailSequence' = TailSequence
      /\ \A n \in 1..Committed : EntryAt(n)' = EntryAt(n) /\ n \in Positions
      /\ \A d \in Deliveries : (InQueue(d)' <=> InQueue(d)) /\ Predecessor(d)' = Predecessor(d)
      /\ \A s \in Sessions : SessionQueue(s)' = SessionQueue(s)
      /\ Committed \in Nat
  BY SameQueue, CommittedType
<1> USE DEF QueueFilesSame
<1>2. RowsLinked'
  <2>1. ASSUME NEW n \in 1..Committed
        PROVE  /\ disk'[QueueRef(n)] = disk[QueueRef(n)] /\ EntryAt(n)' = EntryAt(n)
               /\ disk'[Delivery(EntryAt(n))] = disk[Delivery(EntryAt(n))]
               /\ n # 1 => EntryAt(n - 1)' = EntryAt(n - 1)
    BY <1>1, EntryType
  <2> QED
    BY <1>1, <2>1 DEF RowsLinked, QueueInv
<1>3. EntriesNamed'
  <2>1. ASSUME NEW d \in Deliveries, InQueue(d)
        PROVE  EntryAt(disk[Delivery(d)])' = EntryAt(disk[Delivery(d)]) /\ disk'[Delivery(d)] = disk[Delivery(d)]
    BY <1>1, <2>1 DEF InQueue, EntryAt
  <2>2. \A d \in Deliveries : InQueue(d)' => disk'[Event(d)] # Nil /\ EntryAt(disk[Delivery(d)])' = d
    BY <1>1, <2>1 DEF QueueInv, EntriesNamed, EntryAt
  <2> QED
    BY <1>1, <2>2 DEF QueueInv, EntriesNamed
<1>4. RowsBounded'
  BY <1>1 DEF QueueInv, RowsBounded
<1>5. StateAgrees'
  <2>1. CASE disk[QueueState] = Nil
    BY <2>1 DEF StateAgrees
  <2>2. CASE disk[QueueState] # Nil /\ QueuePending
    <3>1. /\ disk[QueueState].entry \in Deliveries /\ disk[QueueState].tail \in Positions
          /\ disk[QueueState].tail = Committed + 1
      BY <2>2, CommittedType DEF FilesTyped, QueueStates
    <3>2. disk[QueueState].tail # 1 => disk[QueueState].tail - 1 \in 1..Committed
      BY <1>1, <3>1
    <3> QED
      BY <1>1, <2>2, <3>1, <3>2 DEF QueueInv, StateAgrees, EntryAt
  <2>3. CASE disk[QueueState] # Nil /\ ~QueuePending
    <3>1. disk[QueueState].tail \in Positions
      BY <2>3 DEF FilesTyped, QueueStates
    <3> QED
      BY <1>1, <2>3, <3>1 DEF QueueInv, StateAgrees, EntryAt
  <2> QED
    BY <2>1, <2>2, <2>3
<1>6. ChainsWhole'
  <2>1. ASSUME NEW s \in Sessions, NEW d \in SessionQueue(s)
        PROVE  d \in Deliveries
    BY DEF SessionQueue
  <2>2. ASSUME NEW s \in Sessions
        PROVE  {disk'[Event(d)].sequence : d \in SessionQueue(s)'} = {disk[Event(d)].sequence : d \in SessionQueue(s)}
    BY <1>1, <2>1
  <2> QED
    BY <1>1, <2>1, <2>2 DEF QueueInv, ChainsWhole
<1>7. ChainsEnd'
  <2>1. ASSUME NEW s \in Sessions, NEW x
        PROVE  EndsAt(s, x)' <=> EndsAt(s, x)
    BY <1>1 DEF EndsAt, SessionQueue
  <2> QED
    BY <1>1, <2>1 DEF QueueInv, ChainsEnd
<1> QED
  BY <1>2, <1>3, <1>4, <1>5, <1>6, <1>7, SameQueue DEF QueueInv

CommittedSized == Committed \in Nat /\ Committed <= Cardinality(Deliveries)

LEMMA CommittedTypeNext == FilesTyped' => Committed' \in Nat /\ Committed' <= Cardinality(Deliveries)
<1>1. FilesTyped => CommittedSized
  BY CommittedType DEF CommittedSized
<1>2. FilesTyped' => CommittedSized'
  BY <1>1, PTL
<1> QED
  BY <1>2 DEF CommittedSized

LEMMA AttemptsKept ==
  ASSUME QueueGrows, AttemptsTrue, AttemptsSame, canonical \subseteq canonical', FilesTyped
  PROVE  AttemptsTrue'
<1>1. ASSUME NEW d \in Deliveries, disk[AttemptState(d)] # Nil
      PROVE  disk[AttemptState(d)].latest \in Keys
  BY <1>1 DEF FilesTyped, AttemptStates
<1>2. ASSUME NEW d \in Deliveries, NEW k \in Keys, disk'[Attempt(d, k)] # Nil
      PROVE  /\ InQueue(d)'
             /\ disk'[Attempt(d, k)].disposition = "completed" <=> k = "completed"
             /\ k = "completed" => d \in canonical'
  <2>1. disk'[Attempt(d, k)] = disk[Attempt(d, k)]
    BY DEF AttemptsSame
  <2>2. InQueue(d) /\ (disk[Attempt(d, k)].disposition = "completed" <=> k = "completed") /\ (k = "completed" => d \in canonical)
    BY <1>2, <2>1 DEF AttemptsTrue
  <2> QED
    BY <2>1, <2>2 DEF QueueGrows
<1>3. ASSUME NEW d \in Deliveries, disk'[AttemptState(d)] # Nil
      PROVE  LET s == disk'[AttemptState(d)] IN
             disk'[Attempt(d, s.latest)] # Nil /\ s = StateOf(s.latest, disk'[Attempt(d, s.latest)])
  <2>1. disk'[AttemptState(d)] = disk[AttemptState(d)]
    BY DEF AttemptsSame
  <2> DEFINE k == disk[AttemptState(d)].latest
  <2>2. k \in Keys /\ disk[Attempt(d, k)] # Nil /\ disk[AttemptState(d)] = StateOf(k, disk[Attempt(d, k)])
    BY <1>1, <1>3, <2>1 DEF AttemptsTrue
  <2>3. disk'[Attempt(d, k)] = disk[Attempt(d, k)]
    BY <2>2 DEF AttemptsSame
  <2> QED
    BY <2>1, <2>2, <2>3
<1> QED
  BY <1>2, <1>3 DEF AttemptsTrue, StateOf

LEMMA AcksKept ==
  ASSUME FilesTyped, QueueInv, QueueGrows, AcksTrue, AcksSame,
         \A d \in Deliveries : Acked(d) => Disposition(d)' = Disposition(d)
  PROVE  AcksTrue'
<1>1. ASSUME NEW d \in Deliveries PROVE Acked(d)' <=> Acked(d)
  BY DEF Acked, AcksSame
<1>2. ASSUME NEW d \in Deliveries, Acked(d)
      PROVE  InQueue(d)' /\ Predecessor(d)' = Predecessor(d) /\ Predecessor(d) \in Deliveries \cup {Nil}
  BY <1>2, EntryType DEF AcksTrue, QueueGrows, Predecessor
<1>3. ASSUME NEW d \in Deliveries, Acked(d), Predecessor(d) # Nil
      PROVE  Acked(Predecessor(d))'
  <2>1. Predecessor(d) \in Deliveries /\ Acked(Predecessor(d)) /\ Predecessor(d)' = Predecessor(d)
    BY <1>2, <1>3 DEF AcksTrue
  <2> QED
    BY <2>1 DEF Acked, AcksSame
<1> QED
  BY <1>1, <1>2, <1>3 DEF AcksTrue

\* The record of a position changes only with the verdict on its entry.
LEMMA RecordsKept ==
  ASSUME FilesTyped, QueueInv, QueueGrows, NEW n \in 1..Committed,
         Acked(EntryAt(n))' <=> Acked(EntryAt(n))
  PROVE  RecordOf({}, n)' = RecordOf({}, n)
BY DEF QueueGrows, RecordOf, EntryAt, Acked

LEMMA CursorKept ==
  ASSUME FilesTyped, FilesTyped', QueueInv, QueueGrows, CursorTrue, RecordsSame, disk'[Cursor] = disk[Cursor],
         \A d \in Deliveries : Resolved(d) => Resolved(d)' /\ (Acked(d)' <=> Acked(d))
  PROVE  CursorTrue'
<1>1. CursorAt' = CursorAt
  BY DEF CursorAt
<1>a. Committed \in Nat /\ Committed' \in Nat /\ CursorAt \in Nat /\ 1..CursorAt \subseteq Positions
  BY CommittedType, CommittedTypeNext, PositionsAreNumbers DEF Positions
<1>2. ASSUME NEW n \in Positions, disk[CursorRecord(n)] # Nil
      PROVE  n <= Committed' /\ Resolved(EntryAt(n))' /\ disk'[CursorRecord(n)] = RecordOf({}, n)'
  <2>1. n \in 1..Committed /\ Resolved(EntryAt(n)) /\ disk[CursorRecord(n)] = RecordOf({}, n)
    BY <1>2, <1>a, PositionsAreNumbers DEF CursorTrue
  <2>2. EntryAt(n) \in Deliveries /\ EntryAt(n)' = EntryAt(n) /\ n <= Committed'
    BY <1>a, <2>1, EntryType DEF QueueGrows
  <2>3. Resolved(EntryAt(n))' /\ (Acked(EntryAt(n))' <=> Acked(EntryAt(n)))
    BY <2>1, <2>2 DEF Resolved, Acked, Disposition
  <2> QED
    BY <1>2, <2>1, <2>2, <2>3, RecordsKept DEF RecordsSame
<1> QED
  BY <1>1, <1>a, <1>2 DEF CursorTrue, RecordsSame

LEMMA DrainKept ==
  ASSUME FilesTyped, FilesTyped', QueueInv, DrainInv, QueueGrows, DrainFilesSame, canonical \subseteq canonical'
  PROVE  DrainInv'
<1>1. \A d \in Deliveries : /\ Acked(d)' <=> Acked(d)
                            /\ Disposition(d)' = Disposition(d)
                            /\ Resolved(d)' <=> Resolved(d)
  BY DEF DrainFilesSame, AcksSame, AttemptsSame, Acked, Disposition, Resolved
<1>2. AttemptsTrue'
  BY AttemptsKept DEF DrainInv, DrainFilesSame
<1>3. AcksTrue'
  BY <1>1, AcksKept DEF DrainInv, DrainFilesSame
<1>4. CursorTrue'
  BY <1>1, CursorKept DEF DrainInv, DrainFilesSame
<1> QED
  BY <1>2, <1>3, <1>4 DEF DrainInv

\* The entry a drainer is at is committed.
LEMMA CurrentType ==
  ASSUME FilesTyped, QueueInv, BatchInv, NEW p \in Drainers, batch[p] # {}
  PROVE  /\ Min(batch[p]) \in batch[p] /\ Min(batch[p]) \in 1..Committed
         /\ CurrentEntry(p) = EntryAt(Min(batch[p]))
         /\ CurrentEntry(p) \in Deliveries /\ InQueue(CurrentEntry(p))
<1>1. batch[p] \subseteq 1..Committed /\ batch[p] \subseteq Nat
  BY CommittedType DEF BatchInv
<1>2. Min(batch[p]) \in batch[p]
  BY <1>1, LeastNumber
<1> QED
  BY <1>1, <1>2, EntryType DEF CurrentEntry, EntryAt

LEMMA BatchKept ==
  ASSUME FilesTyped, FilesTyped', QueueInv, BatchInv, QueueGrows, canonical \subseteq canonical',
         NEW p \in Drainers, batch'[p] = batch[p], at'[p] = at[p], outcome'[p] = outcome[p]
  PROVE  /\ batch'[p] \subseteq 1..Committed'
         /\ at'[p] \in {"entry", "record", "ack"} => batch'[p] # {}
         /\ at'[p] = "record" /\ outcome'[p] = "completed" => CurrentEntry(p)' \in canonical'
<1>1. Committed \in Nat /\ Committed' \in Nat
  BY CommittedType, CommittedTypeNext
<1>2. batch'[p] \subseteq 1..Committed'
  BY <1>1 DEF BatchInv, QueueGrows
<1>3. ASSUME at[p] = "record", outcome[p] = "completed"
      PROVE  CurrentEntry(p)' \in canonical'
  <2>1. batch[p] # {} /\ CurrentEntry(p) \in canonical
    BY <1>3 DEF BatchInv
  <2>2. CurrentEntry(p)' = CurrentEntry(p)
    BY <2>1, CurrentType DEF QueueGrows, CurrentEntry, EntryAt
  <2> QED
    BY <2>1, <2>2
<1> QED
  BY <1>2, <1>3 DEF BatchInv

LEMMA StagedKept ==
  ASSUME StagedInv, QueueGrows, staged \subseteq Deliveries, NEW S, staged' = staged \cup S, \A d \in S : InQueue(d)'
  PROVE  StagedInv'
BY DEF StagedInv, QueueGrows

-----------------------------------------------------------------------------
(* Steps that write no file *)

LEMMA DiskSame ==
  ASSUME FilesTyped, QueueInv, DrainInv, disk' = disk, canonical \subseteq canonical'
  PROVE  /\ FilesTyped' /\ QueueFilesSame /\ QueueGrows /\ QueueInv' /\ DrainInv'
         /\ Committed' = Committed
<1>1. FilesTyped'
  BY DEF FilesTyped
<1>2. QueueFilesSame /\ DrainFilesSame
  BY DEF QueueFilesSame, DrainFilesSame, AttemptsSame, AcksSame, RecordsSame
<1>3. QueueInv' /\ QueueGrows
  BY <1>2, QueueKept
<1>4. DrainInv'
  BY <1>1, <1>2, <1>3, DrainKept
<1> QED
  BY <1>1, <1>2, <1>3, <1>4, SameQueue

\* What the owner has to write depends on the files and on the ledger.
LEMMA TodoSame ==
  ASSUME disk' = disk, canonical \subseteq canonical'
  PROVE  /\ StageTodo(holder', todo') => StageTodo(holder, todo)'
         /\ AdvanceTodo(todo') => AdvanceTodo(todo)'
         /\ AckTodo(todo') => AckTodo(todo)'
         /\ AttemptTodo(todo') => AttemptTodo(todo)'
<1>a. (QueuePending' <=> QueuePending) /\ TailSequence' = TailSequence /\ Committed' = Committed /\ CursorAt' = CursorAt
  BY DEF QueuePending, TailSequence, Committed, CursorAt
<1>1. StageTodo(holder', todo') => StageTodo(holder, todo)'
  <2>1. RecoveryWrites' = RecoveryWrites /\ LastQueued' = LastQueued
    BY <1>a DEF RecoveryWrites, LastQueued
  <2>2. ASSUME NEW s PROVE SessionTail(s)' = SessionTail(s)
    BY <1>a DEF SessionTail
  <2>3. ASSUME NEW d PROVE NextBody(d)' = NextBody(d) /\ (Known(d)' <=> Known(d))
    BY <1>a, <2>2 DEF NextBody, Known
  <2>4. StageWrites(holder)' = StageWrites(holder')
    BY <1>a, <2>1, <2>3 DEF StageWrites, Known, NextBody, SessionTail, QueuePending
  <2>5. (Known(holder)' <=> Known(holder')) /\ \A j \in 1..6 : WrittenTo(j)' <=> WrittenTo(j)
    BY <1>a DEF Known, WrittenTo, QueuePending
  <2> QED
    BY <1>a, <2>4, <2>5 DEF StageTodo
<1>2. AdvanceTodo(todo') => AdvanceTodo(todo)'
  <2>1. ASSUME NEW A, NEW i PROVE AdvanceWrite(A, i)' = AdvanceWrite(A, i) /\ RecordOf(A, i)' = RecordOf(A, i)
    BY <1>a DEF AdvanceWrite, RecordOf, Acked
  <2>2. ASSUME NEW A, NEW m PROVE ResolvedTo(A, m)' <=> ResolvedTo(A, m)
    BY <1>a DEF ResolvedTo, EntryAt, Resolved, Acked, Disposition
  <2> QED
    BY <1>a, <2>1, <2>2 DEF AdvanceTodo
<1> USE DEF QueuePending, TailSequence, Committed, CursorAt, EntryAt, InQueue, Acked, Disposition
<1>3. AckTodo(todo') => AckTodo(todo)'
  <2>1. ASSUME NEW A, NEW i PROVE AdvanceWrite(A, i)' = AdvanceWrite(A, i)
    BY <1>a DEF AdvanceWrite, RecordOf
  <2>2. ASSUME NEW A, NEW m PROVE ResolvedTo(A, m)' <=> ResolvedTo(A, m)
    BY <1>a DEF ResolvedTo, Resolved
  <2>3. ASSUME NEW d PROVE (AckAdmissible(d)' <=> AckAdmissible(d)) /\ (InQueue(d)' <=> InQueue(d)) /\ (Acked(d)' <=> Acked(d))
    BY <1>a DEF AckAdmissible, Waiting, Predecessor
  <2> HIDE DEF QueuePending, TailSequence, Committed, CursorAt, EntryAt, InQueue, Acked, Disposition
  <2> QED
    BY <1>a, <2>1, <2>2, <2>3 DEF AckTodo
<1>4. AttemptTodo(todo') => AttemptTodo(todo)'
  BY DEF AttemptTodo, NewAttempt, StateOf, Terminal, Count, FailureCount
<1> QED
  BY <1>1, <1>2, <1>3, <1>4

\* A step of drainer p that writes nothing keeps the invariant, if what it
\* decides on and where it goes next are as they have to be.
LEMMA QuietStep ==
  ASSUME SpoolInv, disk' = disk, staged' = staged, canonical \subseteq canonical', canonical' \subseteq Deliveries,
         NEW p \in Drainers, NEW a \in {"idle", "selecting", "entry", "record", "ack"}, NEW b, NEW k \in Keys,
         at' = [at EXCEPT ![p] = a], batch' = [batch EXCEPT ![p] = b], outcome' = [outcome EXCEPT ![p] = k],
         b \subseteq 1..Committed, a \in {"entry", "record", "ack"} => b # {},
         a = "record" /\ k = "completed" => disk[QueueRef(Min(b))].entry \in canonical',
         \/ holder' = holder /\ todo' = todo
         \/ holder' = Nil /\ todo' = <<>>
         \/ holder' = p /\ todo' # <<>> /\ (AdvanceTodo(todo') \/ AckTodo(todo') \/ AttemptTodo(todo'))
  PROVE  SpoolInv'
<1> USE DEF SpoolInv
<1>1. FilesTyped' /\ QueueGrows /\ QueueInv' /\ DrainInv' /\ Committed' = Committed
  BY DiskSame DEF SpoolTypeOK
<1>2. 1..Committed \subseteq Positions
  BY CommittedType DEF SpoolTypeOK
<1>3. holder' \in Drainers \cup Deliveries \cup {Nil} /\ (holder' = Nil <=> todo' = <<>>)
  BY SpoolProcesses DEF SpoolTypeOK
<1>4. SpoolTypeOK'
  BY <1>1, <1>2, <1>3 DEF SpoolTypeOK
<1>5. TodoInv'
  <2>1. holder' \in Deliveries => StageTodo(holder', todo')
    BY SpoolProcesses DEF TodoInv
  <2>2. holder' \in Drainers => AdvanceTodo(todo') \/ AckTodo(todo') \/ AttemptTodo(todo')
    BY SpoolProcesses DEF TodoInv
  <2> QED
    BY <2>1, <2>2, TodoSame DEF TodoInv
<1>6. BatchInv'
  <2>1. ASSUME NEW r \in Drainers
        PROVE  /\ batch'[r] \subseteq 1..Committed'
               /\ at'[r] \in {"entry", "record", "ack"} => batch'[r] # {}
               /\ at'[r] = "record" /\ outcome'[r] = "completed" => CurrentEntry(r)' \in canonical'
    <3>1. CASE r = p
      BY <1>1, <3>1 DEF SpoolTypeOK, CurrentEntry
    <3>2. CASE r # p
      <4>1. batch'[r] = batch[r] /\ at'[r] = at[r] /\ outcome'[r] = outcome[r]
        BY <3>2 DEF SpoolTypeOK
      <4> QED
        BY <1>1, <4>1, BatchKept DEF SpoolTypeOK
    <3> QED
      BY <3>1, <3>2
  <2> QED
    BY <2>1 DEF BatchInv
<1>7. StagedInv'
  BY <1>1 DEF SpoolTypeOK, StagedInv, QueueGrows
<1> QED
  BY <1>1, <1>4, <1>5, <1>6, <1>7

\* A step of a hook that writes nothing.
LEMMA HookStep ==
  ASSUME SpoolInv, disk' = disk, at' = at, batch' = batch, outcome' = outcome, canonical' = canonical,
         NEW S \in SUBSET Deliveries, staged' = staged \cup S, \A d \in S : InQueue(d),
         \/ holder' = Nil /\ todo' = <<>>
         \/ holder' \in Deliveries /\ todo' # <<>> /\ StageTodo(holder', todo')
  PROVE  SpoolInv'
<1> USE DEF SpoolInv
<1>1. FilesTyped' /\ QueueGrows /\ QueueInv' /\ DrainInv' /\ Committed' = Committed
  BY DiskSame DEF SpoolTypeOK
<1>2. SpoolTypeOK'
  BY <1>1, SpoolProcesses DEF SpoolTypeOK
<1>3. TodoInv'
  BY TodoSame, SpoolProcesses DEF TodoInv
<1>4. BatchInv'
  <2>1. ASSUME NEW r \in Drainers
        PROVE  /\ batch'[r] \subseteq 1..Committed'
               /\ at'[r] \in {"entry", "record", "ack"} => batch'[r] # {}
               /\ at'[r] = "record" /\ outcome'[r] = "completed" => CurrentEntry(r)' \in canonical'
    BY <1>1, BatchKept DEF SpoolTypeOK
  <2> QED
    BY <2>1 DEF BatchInv
<1>5. StagedInv'
  BY <1>1 DEF SpoolTypeOK, StagedInv, QueueGrows
<1> QED
  BY <1>1, <1>2, <1>3, <1>4, <1>5

LEMMA ReturnStep ==
  ASSUME SpoolInv, NEW p \in Drainers, Return(p), disk' = disk, canonical' = canonical, staged' = staged,
         \/ holder' = holder /\ todo' = todo
         \/ holder' = Nil /\ todo' = <<>>
         \/ holder' = p /\ todo' # <<>> /\ (AdvanceTodo(todo') \/ AckTodo(todo') \/ AttemptTodo(todo'))
  PROVE  SpoolInv'
<1>1. "idle" \in {"idle", "selecting", "entry", "record", "ack"} /\ "completed" \in Keys
  BY DEF Keys
<1>2. canonical \subseteq canonical' /\ canonical' \subseteq Deliveries
  BY DEF SpoolInv, SpoolTypeOK
<1>3. {} \subseteq 1..Committed
  OBVIOUS
<1> QED
  BY <1>1, <1>2, <1>3, QuietStep DEF Return

LEMMA CrashKeeps == ASSUME SpoolInv, Crash PROVE SpoolInv'
<1>1. CASE holder \in Drainers
  BY <1>1, ReturnStep DEF Crash
<1>2. CASE holder \notin Drainers
  <2>1. staged' = staged \cup {} /\ {} \in SUBSET Deliveries
    BY DEF Crash
  <2> QED
    BY <1>2, <2>1, HookStep DEF Crash
<1> QED
  BY <1>1, <1>2

LEMMA CommitList ==
  ASSUME NEW d, NEW n, NEW before, NEW body
  PROVE  IsList(CommitWrites(d, n, before, body), 6) /\ IsList(AppendWrites(d, n, before, body), 7)
<1>1. IsList(CommitWrites(d, n, before, body), 6)
  BY DEF IsList, CommitWrites
<1>2. \A x : IsList(<<x>>, 1)
  BY DEF IsList
<1> QED
  BY <1>1, <1>2, ListsJoin DEF Join, AppendWrites

\* The writes of stage() are those of the recovery, if one is due, and its own.
LEMMA StageList ==
  ASSUME NEW d
  PROVE  /\ QueuePending /\ Known(d) => IsList(StageWrites(d), 6)
         /\ QueuePending /\ ~Known(d) => IsList(StageWrites(d), 13)
         /\ ~QueuePending /\ ~Known(d) => IsList(StageWrites(d), 7)
         /\ ~QueuePending /\ Known(d) => StageWrites(d) = <<>>
<1>1. \A n, before, body : IsList(CommitWrites(d, n, before, body), 6) /\ IsList(AppendWrites(d, n, before, body), 7)
  BY CommitList
<1>2. IsList(<<>>, 0)
  BY DEF IsList
<1>3. QueuePending => IsList(RecoveryWrites, 6)
  BY CommitList DEF RecoveryWrites
<1>4. ~QueuePending => RecoveryWrites = <<>>
  BY DEF RecoveryWrites
<1>5. \A n : IsList(<<>> \o <<>>, 0) /\ <<>> \o <<>> = <<>>
  BY <1>2, ListsJoin, ListFacts DEF Join
<1>6. QueuePending /\ Known(d) => IsList(StageWrites(d), 6)
  BY <1>2, <1>3, ListsJoin DEF Join, StageWrites
<1>7. QueuePending /\ ~Known(d) => IsList(StageWrites(d), 13)
  BY <1>1, <1>3, ListsJoin DEF Join, StageWrites
<1>8. ~QueuePending /\ ~Known(d) => IsList(StageWrites(d), 7)
  BY <1>1, <1>2, <1>4, ListsJoin DEF Join, StageWrites
<1> QED
  BY <1>4, <1>5, <1>6, <1>7, <1>8 DEF StageWrites

\* Dropping the writes before the j-th.
LEMMA FromList ==
  ASSUME NEW s, NEW n \in Nat, IsList(s, n), NEW j \in 1..(n + 1)
  PROVE  /\ IsList(From(s, j), n - j + 1)
         /\ \A i \in 1..(n - j + 1) : From(s, j)[i] = s[i + j - 1]
         /\ j = 1 => From(s, j) = s
<1>1. Len(s) = n
  BY ListFacts
<1>2. IsList(From(s, j), n - j + 1) /\ \A i \in 1..(n - j + 1) : From(s, j)[i] = s[i + j - 1]
  BY <1>1 DEF From, IsList
<1>3. ASSUME j = 1 PROVE From(s, j) = s
  <2>1. IsList(From(s, j), n) /\ \A i \in 1..n : From(s, j)[i] = s[i]
    BY <1>2, <1>3
  <2> QED
    BY <2>1, ListsEqual
<1> QED
  BY <1>2, <1>3

LEMMA StageKeeps ==
  ASSUME SpoolInv, NEW d \in Deliveries, Stage(d)
  PROVE  SpoolInv'
<1>1. /\ disk' = disk /\ at' = at /\ batch' = batch /\ outcome' = outcome /\ canonical' = canonical
      /\ todo' = StageWrites(d)
  BY DEF Stage, Hold
<1>2. CASE ~QueuePending /\ Known(d)
  <2>1. holder' = Nil /\ todo' = <<>> /\ staged' = staged \cup {d}
    BY <1>2, StageList DEF Stage, Hold
  <2>2. disk[Delivery(d)] # Nil
    BY <1>2 DEF Known
  <2>3. InQueue(d)
    BY <1>2, <2>2 DEF SpoolInv, QueueInv, EntriesNamed
  <2>4. {d} \in SUBSET Deliveries /\ \A x \in {d} : InQueue(x)
    BY <2>3
  <2> QED
    BY <1>1, <2>1, <2>4, HookStep
<1>3. CASE QueuePending \/ ~Known(d)
  <2>1. StageWrites(d) # <<>> /\ (QueuePending => From(StageWrites(d), 1) = StageWrites(d))
    <3>1. PICK n \in {6, 7, 13} : IsList(StageWrites(d), n)
      BY <1>3, StageList
    <3>2. n \in Nat /\ 1 \in 1..(n + 1) /\ n # 0
      BY <3>1
    <3> QED
      BY <3>1, <3>2, ListFacts, FromList
  <2>2. holder' = d /\ todo' # <<>> /\ staged' = staged \cup {}
    BY <1>1, <2>1 DEF Stage, Hold
  <2>3. WrittenTo(1)
    BY DEF WrittenTo
  <2>4. StageTodo(holder', todo')
    BY <1>1, <1>3, <2>1, <2>2, <2>3 DEF StageTodo
  <2>5. {} \in SUBSET Deliveries
    OBVIOUS
  <2> QED
    BY <1>1, <2>2, <2>4, <2>5, HookStep
<1> QED
  BY <1>2, <1>3

-----------------------------------------------------------------------------
(* The steps of a drain *)

Places == {"idle", "selecting", "entry", "record", "ack"}

\* The cursor stands on committed positions.
LEMMA CursorOnQueue ==
  ASSUME FilesTyped, DrainInv
  PROVE  CursorAt <= Committed
<1>1. CursorAt \in Nat /\ Committed \in Nat /\ CursorAt <= Cardinality(Deliveries)
  BY CommittedType
<1>2. CASE CursorAt = 0
  BY <1>1, <1>2
<1>3. CASE CursorAt # 0
  <2>1. CursorAt \in Positions /\ CursorAt \in 1..CursorAt
    BY <1>1, <1>3, PositionsAreNumbers DEF Positions
  <2> QED
    BY <2>1 DEF DrainInv, CursorTrue
<1> QED
  BY <1>2, <1>3

\* The loop of _advance_drain_cursor ends at a position of the queue.
LEMMA PrefixExists ==
  ASSUME FilesTyped, DrainInv, ~QueuePending, NEW A
  PROVE  ResolvedPrefix(A) \in CursorAt..Committed /\ ResolvedTo(A, ResolvedPrefix(A))
<1> DEFINE Done(i) == disk[QueueRef(i)].entry \in A \/ Resolved(disk[QueueRef(i)].entry)
           Stops == {n \in CursorAt..PageEnd : n = PageEnd \/ ~Done(n + 1)}
           Good(n) == /\ \A i \in (CursorAt + 1)..n : Done(i)
                      /\ n = PageEnd \/ ~Done(n + 1)
<1>0. TailSequence = Committed /\ CursorAt \in Nat /\ TailSequence \in Nat /\ CursorAt <= TailSequence
  BY CommittedType, CursorOnQueue
<1>1. CursorAt \in Nat /\ PageEnd \in Nat /\ CursorAt <= PageEnd /\ PageEnd <= Committed /\ Committed \in Nat
  BY <1>0, SpoolAssumption DEF PageEnd
<1> HIDE DEF Done
<1>2. Stops \subseteq Nat /\ PageEnd \in Stops
  BY <1>1
<1>3. Min(Stops) \in Stops /\ \A y \in Stops : Min(Stops) <= y
  BY <1>2, LeastNumber
<1> DEFINE m == Min(Stops)
<1>4. m \in CursorAt..PageEnd /\ (m = PageEnd \/ ~Done(m + 1))
  BY <1>3
<1>5. ASSUME NEW i \in (CursorAt + 1)..m PROVE Done(i)
  <2>1. i - 1 \in CursorAt..PageEnd /\ i - 1 < m /\ (i - 1) + 1 = i /\ i - 1 # PageEnd
    BY <1>1, <1>4
  <2>2. i - 1 \notin Stops
    BY <1>3, <2>1
  <2> QED
    BY <2>1, <2>2
<1> HIDE DEF m
<1>6. \E n \in CursorAt..PageEnd : Good(n)
  BY <1>4, <1>5
<1>7. ResolvedPrefix(A) = CHOOSE n \in CursorAt..PageEnd : Good(n)
  BY DEF ResolvedPrefix, Done
<1> HIDE DEF Good
<1>8. ResolvedPrefix(A) \in CursorAt..PageEnd /\ Good(ResolvedPrefix(A))
  BY <1>6, <1>7
<1> QED
  BY <1>1, <1>8 DEF Good, Done, ResolvedTo, EntryAt

\* The writes that move the cursor to m.
AdvanceTo(A, m) == [i \in 1..(2 * (m - CursorAt)) |-> AdvanceWrite(A, i)]

\* They are none, or those that AdvanceTodo describes.
LEMMA AdvanceToTodo ==
  ASSUME CursorAt \in Nat, Committed \in Nat, NEW m \in CursorAt..Committed, ResolvedTo({}, m)
  PROVE  AdvanceTo({}, m) = <<>> \/ AdvanceTodo(AdvanceTo({}, m))
<1>1. CASE m = CursorAt
  <2>1. [i \in 1..0 |-> AdvanceWrite({}, i)] = <<>> /\ 2 * (m - CursorAt) = 0
    BY <1>1
  <2> QED
    BY <2>1 DEF AdvanceTo
<1>2. CASE m > CursorAt
  <2>1. [i \in 1..(2 * (m - CursorAt) - 0) |-> AdvanceWrite({}, i + 0)] = AdvanceTo({}, m)
    BY DEF AdvanceTo
  <2> QED
    BY <1>2, <2>1 DEF AdvanceTodo
<1> QED
  BY <1>1, <1>2

AdvanceIsDue ==
  \A m : /\ CursorAt \in Nat /\ Committed \in Nat /\ m \in CursorAt..Committed /\ ResolvedTo({}, m)
          /\ todo = AdvanceTo({}, m)
          => todo = <<>> \/ AdvanceTodo(todo)

LEMMA AdvanceIsDueNext == AdvanceIsDue'
<1>1. AdvanceIsDue
  BY AdvanceToTodo DEF AdvanceIsDue
<1> QED
  BY <1>1, PTL

LEMMA AdvanceDecided ==
  ASSUME FilesTyped, DrainInv, ~QueuePending
  PROVE  AdvanceWrites({}) = <<>> \/ AdvanceTodo(AdvanceWrites({}))
<1>1. AdvanceWrites({}) = AdvanceTo({}, ResolvedPrefix({}))
  BY DEF AdvanceWrites, AdvanceTo
<1> QED
  BY <1>1, PrefixExists, CommittedType, AdvanceToTodo

LEMMA BeginDrainKeeps ==
  ASSUME SpoolInv, NEW p \in Drainers, BeginDrain(p)
  PROVE  SpoolInv'
<1>1. AdvanceWrites({}) = <<>> \/ AdvanceTodo(AdvanceWrites({}))
  BY AdvanceDecided DEF SpoolInv, SpoolTypeOK, BeginDrain
<1>2. \/ holder' = Nil /\ todo' = <<>>
      \/ holder' = p /\ todo' # <<>> /\ AdvanceTodo(todo')
  BY <1>1 DEF BeginDrain, Hold
<1>3. /\ batch[p] \subseteq 1..Committed /\ outcome[p] \in Keys
      /\ batch' = [batch EXCEPT ![p] = batch[p]] /\ outcome' = [outcome EXCEPT ![p] = outcome[p]]
  BY DEF SpoolInv, BatchInv, SpoolTypeOK, BeginDrain
<1>4. canonical \subseteq canonical' /\ canonical' \subseteq Deliveries
  BY DEF SpoolInv, SpoolTypeOK, BeginDrain
<1>5. "selecting" \in Places /\ "selecting" # "record" /\ "selecting" \notin {"entry", "record", "ack"}
  BY DEF Places
<1>6. at' = [at EXCEPT ![p] = "selecting"] /\ disk' = disk /\ staged' = staged
  BY DEF BeginDrain
<1> QED
  BY <1>2, <1>3, <1>4, <1>5, <1>6, QuietStep DEF Places

LEMMA SelectKeeps ==
  ASSUME SpoolInv, NEW p \in Drainers, Select(p)
  PROVE  SpoolInv'
<1> DEFINE upper == IF TailSequence < CursorAt + BatchLimit THEN TailSequence ELSE CursorAt + BatchLimit
           chosen == {n \in (CursorAt + 1)..upper : ~Resolved(disk[QueueRef(n)].entry)}
           next == IF chosen = {} THEN "idle" ELSE "entry"
<1>1. TailSequence = Committed /\ CursorAt \in Nat /\ Committed \in Nat
  BY CommittedType DEF SpoolInv, SpoolTypeOK, Select
<1>2. chosen \subseteq 1..Committed
  BY <1>1, SpoolAssumption
<1>3. outcome[p] \in Keys /\ outcome' = [outcome EXCEPT ![p] = outcome[p]]
  BY DEF SpoolInv, SpoolTypeOK, Select
<1>4. canonical \subseteq canonical' /\ canonical' \subseteq Deliveries
  BY DEF SpoolInv, SpoolTypeOK, Select
<1>5. next \in Places /\ (next \in {"entry", "record", "ack"} => chosen # {}) /\ next # "record"
  BY DEF Places
<1>6. /\ at' = [at EXCEPT ![p] = next] /\ batch' = [batch EXCEPT ![p] = chosen]
      /\ holder' = holder /\ todo' = todo /\ disk' = disk /\ staged' = staged
  BY DEF Select
<1> HIDE DEF chosen, next
<1> QED
  BY <1>2, <1>3, <1>4, <1>5, <1>6, QuietStep DEF Places

LEMMA AbortKeeps ==
  ASSUME SpoolInv, NEW p \in Drainers, Abort(p) \/ RecordRaises(p) \/ AcknowledgeRaises(p)
  PROVE  SpoolInv'
BY ReturnStep DEF Abort, RecordRaises, AcknowledgeRaises, Raise

\* From the delivery of an entry, or from what stands in for it, to its record.
LEMMA ToRecord ==
  ASSUME SpoolInv, NEW p \in Drainers, at[p] = "entry", NEW k \in Keys,
         outcome' = [outcome EXCEPT ![p] = k], at' = [at EXCEPT ![p] = "record"],
         disk' = disk, holder' = holder, todo' = todo, batch' = batch, staged' = staged,
         canonical' \in {canonical, canonical \cup {CurrentEntry(p)}},
         k = "completed" => CurrentEntry(p) \in canonical'
  PROVE  SpoolInv'
<1>1. batch[p] # {} /\ batch[p] \subseteq 1..Committed /\ CurrentEntry(p) \in Deliveries
  BY CurrentType DEF SpoolInv, SpoolTypeOK, BatchInv
<1>2. batch' = [batch EXCEPT ![p] = batch[p]]
  BY DEF SpoolInv, SpoolTypeOK
<1>3. canonical \subseteq canonical' /\ canonical' \subseteq Deliveries
  BY <1>1 DEF SpoolInv, SpoolTypeOK
<1>4. k = "completed" => disk[QueueRef(Min(batch[p]))].entry \in canonical'
  BY DEF CurrentEntry
<1>5. "record" \in Places
  BY DEF Places
<1> QED
  BY <1>1, <1>2, <1>3, <1>4, <1>5, QuietStep DEF Places

LEMMA DeliveryKeeps ==
  ASSUME SpoolInv, NEW p \in Drainers,
         DeliverEntry(p) \/ (\E f \in Failures : DeliverRaises(p, f)) \/ Await(p) \/ Block(p)
  PROVE  SpoolInv'
<1>1. "completed" \in Keys /\ Rejected \in Keys /\ "predecessor" \in Keys /\ Failures \subseteq Keys
      /\ Rejected # "completed" /\ "completed" \notin Failures
  BY SpoolAssumption DEF Keys, Rejected
<1>2. CASE DeliverEntry(p)
  BY <1>1, <1>2, ToRecord DEF DeliverEntry
<1>3. ASSUME NEW f \in Failures, DeliverRaises(p, f) PROVE SpoolInv'
  BY <1>1, <1>3, ToRecord DEF DeliverRaises
<1>4. CASE Await(p)
  BY <1>1, <1>4, ToRecord DEF Await
<1>5. CASE Block(p)
  BY <1>1, <1>5, ToRecord DEF Block
<1> QED
  BY <1>2, <1>3, <1>4, <1>5

\* The loop of replay_pending takes the next entry.
LEMMA NextEntryStep ==
  ASSUME SpoolInv, NEW p \in Drainers, at[p] \in {"record", "ack"}, NextEntry(p),
         disk' = disk, canonical' = canonical, staged' = staged,
         \/ holder' = Nil /\ todo' = <<>>
         \/ holder' = p /\ todo' # <<>> /\ (AdvanceTodo(todo') \/ AckTodo(todo') \/ AttemptTodo(todo'))
  PROVE  SpoolInv'
<1> DEFINE b == batch[p] \ {Min(batch[p])}
           a == IF batch[p] = {Min(batch[p])} THEN "idle" ELSE "entry"
<1>1. /\ batch[p] # {} /\ batch[p] \subseteq 1..Committed
      /\ batch \in [Drainers -> SUBSET Positions] /\ Min(batch[p]) \in batch[p]
  BY CurrentType DEF SpoolInv, SpoolTypeOK, BatchInv
<1>2. b \subseteq 1..Committed /\ a \in Places /\ (a \in {"entry", "record", "ack"} => b # {}) /\ a # "record"
  BY <1>1 DEF Places
<1>3. batch' = [batch EXCEPT ![p] = b] /\ at' = [at EXCEPT ![p] = a] /\ outcome' = [outcome EXCEPT ![p] = "completed"]
  BY <1>1 DEF NextEntry
<1>4. canonical \subseteq canonical' /\ canonical' \subseteq Deliveries /\ "completed" \in Keys
  BY DEF SpoolInv, SpoolTypeOK, Keys
<1> HIDE DEF a, b
<1> QED
  BY <1>2, <1>3, <1>4, QuietStep DEF Places

LEMMA AttemptDecided ==
  ASSUME NEW d \in Deliveries, NEW k \in Keys, InQueue(d), AttemptAdmissible(d, k), k = "completed" => d \in canonical
  PROVE  AttemptWrites(d, k) = <<>> \/ AttemptTodo(AttemptWrites(d, k))
<1>1. CASE disk[AttemptState(d)] # Nil /\ disk[AttemptState(d)].latest = k
  BY <1>1 DEF AttemptWrites
<1>2. CASE ~(disk[AttemptState(d)] # Nil /\ disk[AttemptState(d)].latest = k)
  <2>1. ~Terminal(d)
    BY <1>2 DEF AttemptAdmissible
  <2>2. CASE disk[Attempt(d, k)] = Nil
    <3>1. AttemptWrites(d, k) =
            << <<Attempt(d, k), NewAttempt(d, k)>>, <<AttemptState(d), StateOf(k, NewAttempt(d, k))>> >>
      BY <1>2, <2>2 DEF AttemptWrites
    <3> QED
      BY <2>1, <2>2, <3>1 DEF AttemptTodo
  <2>3. CASE disk[Attempt(d, k)] # Nil /\ disk[Attempt(d, k)].number = Count(d) + 1
    <3>1. AttemptWrites(d, k) = << <<AttemptState(d), StateOf(k, disk[Attempt(d, k)])>> >>
      BY <1>2, <2>3 DEF AttemptWrites
    <3> QED
      BY <2>1, <2>3, <3>1 DEF AttemptTodo
  <2>4. CASE disk[Attempt(d, k)] # Nil /\ disk[Attempt(d, k)].number # Count(d) + 1
    BY <1>2, <2>4 DEF AttemptWrites
  <2> QED
    BY <2>2, <2>3, <2>4
<1> QED
  BY <1>1, <1>2

LEMMA RecordKeeps ==
  ASSUME SpoolInv, NEW p \in Drainers, Record(p)
  PROVE  SpoolInv'
<1> DEFINE d == CurrentEntry(p)
           k == outcome[p]
<1>1. /\ at[p] = "record" /\ AttemptAdmissible(d, k) /\ Hold(p, AttemptWrites(d, k))
      /\ disk' = disk /\ canonical' = canonical /\ staged' = staged
      /\ IF k = "completed" THEN at' = [at EXCEPT ![p] = "ack"] /\ UNCHANGED <<batch, outcome>> ELSE NextEntry(p)
  BY DEF Record
<1>2. batch[p] # {} /\ batch[p] \subseteq 1..Committed /\ (k = "completed" => d \in canonical)
  BY <1>1 DEF SpoolInv, BatchInv
<1>3. d \in Deliveries /\ InQueue(d) /\ k \in Keys
  BY <1>2, CurrentType DEF SpoolInv, SpoolTypeOK
<1> HIDE DEF d
<1>4. AttemptWrites(d, k) = <<>> \/ AttemptTodo(AttemptWrites(d, k))
  BY <1>1, <1>2, <1>3, AttemptDecided
<1>5. \/ holder' = Nil /\ todo' = <<>>
      \/ holder' = p /\ todo' # <<>> /\ AttemptTodo(todo')
  BY <1>1, <1>4 DEF Hold
<1>6. CASE k = "completed"
  <2>1. batch' = [batch EXCEPT ![p] = batch[p]] /\ outcome' = [outcome EXCEPT ![p] = k]
    BY <1>1, <1>6 DEF SpoolInv, SpoolTypeOK
  <2>2. canonical \subseteq canonical' /\ canonical' \subseteq Deliveries /\ "ack" \in Places /\ "ack" # "record"
    BY <1>1 DEF SpoolInv, SpoolTypeOK, Places
  <2>3. at' = [at EXCEPT ![p] = "ack"]
    BY <1>1, <1>6
  <2> HIDE DEF k
  <2> QED
    BY <1>1, <1>2, <1>3, <1>5, <2>1, <2>2, <2>3, QuietStep DEF Places
<1>7. CASE k # "completed"
  BY <1>1, <1>5, <1>7, NextEntryStep
<1> QED
  BY <1>6, <1>7

\* What the acknowledgement of d lets the cursor pass; nothing while the queue
\* waits for recovery.
AckAdvance(d) == IF QueuePending THEN <<>> ELSE AdvanceWrites({d})

LEMMA AckAdvanceList ==
  ASSUME FilesTyped, DrainInv, NEW d
  PROVE  \E m \in CursorAt..Committed :
           ResolvedTo({d}, m) /\ AckAdvance(d) = AdvanceTo({d}, m)
<1>1. CursorAt \in Nat /\ Committed \in Nat /\ CursorAt <= Committed
  BY CommittedType, CursorOnQueue
<1>2. CASE QueuePending
  <2>1. ResolvedTo({d}, CursorAt)
    BY <1>1 DEF ResolvedTo
  <2>2. [i \in 1..0 |-> AdvanceWrite({d}, i)] = <<>> /\ 2 * (CursorAt - CursorAt) = 0
    BY <1>1
  <2> QED
    BY <1>1, <1>2, <2>1, <2>2 DEF AckAdvance, AdvanceTo
<1>3. CASE ~QueuePending
  BY <1>3, PrefixExists DEF AckAdvance, AdvanceTo, AdvanceWrites
<1> QED
  BY <1>2, <1>3

LEMMA AckedAgain ==
  ASSUME NEW d \in Deliveries, Acked(d), CursorAt \in Nat, Committed \in Nat,
         NEW m \in CursorAt..Committed, ResolvedTo({d}, m)
  PROVE  AdvanceTo({d}, m) = <<>> \/ AdvanceTodo(AdvanceTo({d}, m))
<1>1. \A i : AdvanceWrite({d}, i) = AdvanceWrite({}, i)
  BY DEF AdvanceWrite, RecordOf
<1>2. AdvanceTo({d}, m) = AdvanceTo({}, m)
  BY <1>1 DEF AdvanceTo
<1>3. ResolvedTo({}, m)
  BY DEF ResolvedTo, Resolved
<1> QED
  BY <1>2, <1>3, AdvanceToTodo

LEMMA AckedFirst ==
  ASSUME NEW d, NEW n \in Nat, NEW adv, adv = [i \in 1..n |-> AdvanceWrite({d}, i)]
  PROVE  /\ <<>> \o adv = adv
         /\ << <<AckFile(d), "completed">> >> \o adv =
              [i \in 1..(1 + n) |-> IF i = 1 THEN <<AckFile(d), "completed">> ELSE AdvanceWrite({d}, i - 1)]
<1>1. IsList(adv, n) /\ \A i \in 1..n : adv[i] = AdvanceWrite({d}, i)
  BY DEF IsList
<1>2. IsList(<<>>, 0)
  BY DEF IsList
<1>3. IsList(<<>> \o adv, n) /\ \A i \in 1..n : (<<>> \o adv)[i] = adv[i]
  <2>1. IsList(<<>> \o adv, 0 + n) /\ \A i \in 1..n : (<<>> \o adv)[0 + i] = adv[i]
    BY <1>1, <1>2, ListsJoin DEF Join
  <2> QED
    BY <2>1
<1> DEFINE ack == <<AckFile(d), "completed">>
           ws == Join(<<ack>>, adv)
<1>4. IsList(<<ack>>, 1) /\ <<ack>>[1] = ack
  BY DEF IsList
<1>5. /\ IsList(ws, 1 + n)
      /\ \A i \in 1..1 : ws[i] = <<ack>>[i]
      /\ \A i \in 1..n : ws[1 + i] = adv[i]
  <2>1. PICK one, rest : one = <<ack>> /\ rest = adv
    OBVIOUS
  <2>2. IsList(one, 1) /\ IsList(rest, n) /\ 1 \in Nat
    BY <1>1, <1>4, <2>1
  <2>3. /\ IsList(Join(one, rest), 1 + n)
        /\ \A i \in 1..1 : Join(one, rest)[i] = one[i]
        /\ \A i \in 1..n : Join(one, rest)[1 + i] = rest[i]
    BY <2>2, ListsJoin
  <2> QED
    BY <2>1, <2>3
<1> HIDE DEF ws, ack
<1>6. \A i \in 1..(1 + n) : ws[i] = IF i = 1 THEN ack ELSE AdvanceWrite({d}, i - 1)
  <2>1. ws[1] = ack
    BY <1>4, <1>5
  <2>2. SUFFICES ASSUME NEW i \in 1..(1 + n), i # 1 PROVE ws[i] = AdvanceWrite({d}, i - 1)
    BY <2>1
  <2>3. i - 1 \in 1..n /\ 1 + (i - 1) = i
    BY <2>2
  <2> QED
    BY <1>1, <1>5, <2>3
<1>7. ws = [i \in 1..(1 + n) |-> IF i = 1 THEN ack ELSE AdvanceWrite({d}, i - 1)]
  BY <1>5, <1>6 DEF IsList
<1> QED
  BY <1>1, <1>3, <1>7, ListsEqual DEF ws, ack, Join

\* The acknowledgement, if it is not there yet, and what it lets the cursor pass.
LEMMA AckDecided ==
  ASSUME FilesTyped, DrainInv, NEW d \in Deliveries, InQueue(d), AckAdmissible(d)
  PROVE  LET ws == (IF Acked(d) THEN <<>> ELSE << <<AckFile(d), "completed">> >>) \o AckAdvance(d)
         IN  ws = <<>> \/ AdvanceTodo(ws) \/ AckTodo(ws)
<1> DEFINE ack == << <<AckFile(d), "completed">> >>
           ws == (IF Acked(d) THEN <<>> ELSE ack) \o AckAdvance(d)
<1>1. CursorAt \in Nat /\ Committed \in Nat
  BY CommittedType
<1>2. PICK m \in CursorAt..Committed : ResolvedTo({d}, m) /\ AckAdvance(d) = AdvanceTo({d}, m)
  BY AckAdvanceList
<1> DEFINE n == 2 * (m - CursorAt)
<1>3. n \in Nat
  BY <1>1, <1>2
<1>4. AckAdvance(d) = [i \in 1..n |-> AdvanceWrite({d}, i)]
  BY <1>2 DEF AdvanceTo
<1> DEFINE List == [i \in 1..(1 + n) |-> IF i = 1 THEN <<AckFile(d), "completed">> ELSE AdvanceWrite({d}, i - 1)]
<1> HIDE DEF n
<1>5. <<>> \o AckAdvance(d) = AckAdvance(d) /\ ack \o AckAdvance(d) = List
  BY <1>3, <1>4, AckedFirst
<1> HIDE DEF ack, List
<1>6. CASE Acked(d)
  <2>1. ws = AdvanceTo({d}, m)
    BY <1>2, <1>5, <1>6
  <2> HIDE DEF ws
  <2> QED
    BY <1>1, <1>2, <1>6, <2>1, AckedAgain DEF ws, ack
<1>7. CASE ~Acked(d)
  <2>1. ws = List
    BY <1>5, <1>7
  <2> HIDE DEF ws
  <2>2. AckTodo(ws)
    BY <1>2, <1>7, <2>1 DEF AckTodo, List, n
  <2> QED
    BY <2>2 DEF ws, ack
<1> QED
  BY <1>6, <1>7

LEMMA AcknowledgeKeeps ==
  ASSUME SpoolInv, NEW p \in Drainers, Acknowledge(p)
  PROVE  SpoolInv'
<1> DEFINE d == CurrentEntry(p)
           ws == (IF Acked(d) THEN <<>> ELSE << <<AckFile(d), "completed">> >>)
                   \o AckAdvance(d)
<1>1. /\ at[p] = "ack" /\ AckAdmissible(d) /\ Hold(p, ws)
      /\ disk' = disk /\ canonical' = canonical /\ staged' = staged
      /\ IF QueuePending THEN Return(p) ELSE NextEntry(p)
  BY DEF Acknowledge, AckAdvance
<1>2. d \in Deliveries /\ InQueue(d)
  BY <1>1, CurrentType DEF SpoolInv, SpoolTypeOK, BatchInv
<1> HIDE DEF d
<1>3. ws = <<>> \/ AdvanceTodo(ws) \/ AckTodo(ws)
  BY <1>1, <1>2, AckDecided DEF SpoolInv, SpoolTypeOK
<1> HIDE DEF ws
<1>4. \/ holder' = Nil /\ todo' = <<>>
      \/ holder' = p /\ todo' # <<>> /\ (AdvanceTodo(todo') \/ AckTodo(todo') \/ AttemptTodo(todo'))
  BY <1>1, <1>3 DEF Hold
<1>5. CASE QueuePending
  BY <1>1, <1>4, <1>5, ReturnStep
<1>6. CASE ~QueuePending
  BY <1>1, <1>4, <1>6, NextEntryStep
<1> QED
  BY <1>5, <1>6

-----------------------------------------------------------------------------
(* The writes of a drain *)

\* A write takes the first of the writes that are left.
LEMMA WriteTakes ==
  ASSUME Write, NEW n \in Nat, n # 0, IsList(todo, n)
  PROVE  /\ disk' = [disk EXCEPT ![todo[1][1]] = todo[1][2]]
         /\ IsList(todo', n - 1) /\ (todo' = <<>> <=> n = 1)
         /\ \A i \in 1..(n - 1) : todo'[i] = todo[i + 1]
         /\ holder' = IF todo' = <<>> THEN Nil ELSE holder
         /\ at' = at /\ batch' = batch /\ outcome' = outcome /\ canonical' = canonical
         /\ staged' = IF todo' = <<>> /\ holder \in Deliveries THEN staged \cup {holder} ELSE staged
<1>1. /\ Len(todo) = n /\ Head(todo) = todo[1] /\ IsList(Tail(todo), n - 1)
      /\ \A i \in 1..(n - 1) : Tail(todo)[i] = todo[i + 1]
  <2>1. n > 0
    OBVIOUS
  <2> QED
    BY <2>1, ListFacts
<1>2. todo' = Tail(todo) /\ n - 1 \in Nat
  BY DEF Write
<1>3. todo' = <<>> <=> n = 1
  BY <1>1, <1>2, ListFacts
<1> QED
  BY <1>1, <1>2, <1>3 DEF Write

\* A write to the files of a drain keeps the invariant, if what the files say
\* stays true and what is left is as it has to be.
LEMMA DrainWrite ==
  ASSUME SpoolInv, holder \in Drainers, FilesTyped', QueueFilesSame, DrainInv',
         holder' = IF todo' = <<>> THEN Nil ELSE holder,
         at' = at, batch' = batch, outcome' = outcome, canonical' = canonical, staged' = staged,
         todo' = <<>> \/ AdvanceTodo(todo)' \/ AckTodo(todo)' \/ AttemptTodo(todo)'
  PROVE  SpoolInv'
<1> USE DEF SpoolInv
<1>1. QueueInv' /\ QueueGrows
  BY QueueKept DEF SpoolTypeOK
<1>2. SpoolTypeOK'
  BY SpoolProcesses DEF SpoolTypeOK
<1>3. TodoInv'
  BY SpoolProcesses DEF TodoInv
<1>4. BatchInv'
  <2>1. ASSUME NEW r \in Drainers
        PROVE  /\ batch'[r] \subseteq 1..Committed'
               /\ at'[r] \in {"entry", "record", "ack"} => batch'[r] # {}
               /\ at'[r] = "record" /\ outcome'[r] = "completed" => CurrentEntry(r)' \in canonical'
    BY <1>1, BatchKept DEF SpoolTypeOK
  <2> QED
    BY <2>1 DEF BatchInv
<1>5. StagedInv'
  BY <1>1 DEF SpoolTypeOK, StagedInv, QueueGrows
<1> QED
  BY <1>1, <1>2, <1>3, <1>4, <1>5

LEMMA RecordType ==
  ASSUME FilesTyped, QueueInv, NEW A, NEW n \in 1..Committed
  PROVE  RecordOf(A, n) \in CursorRecords /\ RecordOf(A, n).entry = EntryAt(n)
BY EntryType DEF RecordOf, EntryAt, CursorRecords

\* An acknowledgement is written.
LEMMA AckWritten ==
  ASSUME SpoolInv, Write, holder \in Drainers, AckTodo(todo)
  PROVE  SpoolInv'
<1> USE DEF SpoolInv, SpoolTypeOK
<1>1. PICK d \in Deliveries, m \in CursorAt..Committed :
        /\ InQueue(d) /\ ~Acked(d) /\ AckAdmissible(d)
        /\ ResolvedTo({d}, m)
        /\ todo = [i \in 1..(1 + 2 * (m - CursorAt)) |->
                     IF i = 1 THEN <<AckFile(d), "completed">> ELSE AdvanceWrite({d}, i - 1)]
  BY DEF AckTodo
<1> DEFINE n == 2 * (m - CursorAt)
<1>2. CursorAt \in Nat /\ Committed \in Nat /\ 1..Committed \subseteq Positions
  BY CommittedType
<1>3. n \in Nat /\ 1 + n \in Nat /\ 1 + n # 0 /\ (1 + n) - 1 = n
  BY <1>1, <1>2
<1>4. /\ IsList(todo, 1 + n) /\ todo[1] = <<AckFile(d), "completed">>
      /\ \A i \in 1..n : todo[i + 1] = AdvanceWrite({d}, i)
  BY <1>1, <1>2, <1>3 DEF IsList
<1> HIDE DEF n
<1>5. /\ disk' = [disk EXCEPT ![AckFile(d)] = "completed"]
      /\ IsList(todo', n) /\ \A i \in 1..n : todo'[i] = AdvanceWrite({d}, i)
      /\ holder' = (IF todo' = <<>> THEN Nil ELSE holder) /\ staged' = staged
      /\ at' = at /\ batch' = batch /\ outcome' = outcome /\ canonical' = canonical
  <2>1. /\ disk' = [disk EXCEPT ![todo[1][1]] = todo[1][2]]
        /\ IsList(todo', (1 + n) - 1) /\ \A i \in 1..((1 + n) - 1) : todo'[i] = todo[i + 1]
        /\ holder' = (IF todo' = <<>> THEN Nil ELSE holder) /\ staged' = staged
        /\ at' = at /\ batch' = batch /\ outcome' = outcome /\ canonical' = canonical
    BY <1>3, <1>4, WriteTakes, SpoolProcesses
  <2>2. todo[1][1] = AckFile(d) /\ todo[1][2] = "completed"
    BY <1>4
  <2>3. IsList(todo', n) /\ \A i \in 1..n : todo'[i] = AdvanceWrite({d}, i)
    BY <1>3, <1>4, <2>1
  <2> QED
    BY <2>1, <2>2, <2>3
<1>6. AckFile(d) \in Immutable \cup Derived /\ AckFile(d)[1] = "ack" /\ DOMAIN disk = Immutable \cup Derived
  BY FilesOfSpool, FileNames DEF FilesTyped
<1>7. /\ QueueFilesSame /\ DOMAIN disk' = Immutable \cup Derived
      /\ AttemptsSame /\ RecordsSame /\ disk'[Cursor] = disk[Cursor]
  BY <1>5, <1>6, DrainFileWritten
<1>8. Acked(d)' /\ disk'[AckFile(d)] = "completed" /\ \A x \in Deliveries : x # d => disk'[AckFile(x)] = disk[AckFile(x)]
  BY <1>5, <1>6, OneFileWritten, FilesOfSpool, FileNames, SpoolSentinel DEF Acked
<1>9. FilesTyped'
  BY <1>7, <1>8 DEF FilesTyped, QueueFilesSame, AttemptsSame, RecordsSame
<1>10. QueueGrows /\ Committed' = Committed /\ CursorAt' = CursorAt
  BY <1>7, SameQueue DEF CursorAt
<1>11. \A x \in Deliveries : /\ Disposition(x)' = Disposition(x) /\ Predecessor(x)' = Predecessor(x)
                             /\ Acked(x)' <=> (x \in {d} \/ Acked(x))
                             /\ Resolved(x)' <=> (x \in {d} \/ Resolved(x))
  BY <1>7, <1>8, SameQueue DEF Disposition, AttemptsSame, Acked, Resolved
<1>12. ~Resolved(d)
  BY <1>1 DEF Resolved, AckAdmissible
<1>13. AttemptsTrue'
  BY <1>5, <1>7, <1>10, AttemptsKept DEF DrainInv
<1>14. AcksTrue'
  <2>1. ASSUME NEW x \in Deliveries, Acked(x)'
        PROVE  InQueue(x)' /\ Disposition(x)' = "completed" /\ (Predecessor(x)' # Nil => Acked(Predecessor(x))')
    <3>1. InQueue(x) /\ Disposition(x) = "completed" /\ (Predecessor(x) # Nil => Acked(Predecessor(x)))
      BY <1>1, <1>11, <2>1 DEF DrainInv, AcksTrue, AckAdmissible, Waiting
    <3>2. Predecessor(x) \in Deliveries \cup {Nil} /\ Predecessor(x)' = Predecessor(x)
      BY <1>11, <3>1, EntryType
    <3>3. Predecessor(x) # Nil => Acked(Predecessor(x))'
      <4>1. SUFFICES ASSUME Predecessor(x) # Nil PROVE Acked(Predecessor(x))'
        OBVIOUS
      <4> DEFINE y == Predecessor(x)
      <4>2. y \in Deliveries /\ Acked(y) /\ y' = y
        BY <3>1, <3>2, <4>1
      <4>3. disk'[AckFile(y)] # Nil
        BY <1>8, <4>2, SpoolSentinel DEF Acked
      <4> QED
        BY <4>2, <4>3 DEF Acked
    <3> QED
      BY <1>10, <1>11, <3>1, <3>2, <3>3 DEF QueueGrows
  <2> QED
    BY <2>1 DEF AcksTrue
<1>15. CursorTrue'
  BY <1>7, <1>9, <1>10, <1>11, <1>12, CursorKept DEF DrainInv
<1>16. DrainInv'
  BY <1>13, <1>14, <1>15 DEF DrainInv
<1>17. ResolvedTo({}, m)'
  <2>1. ASSUME NEW i \in (CursorAt + 1)..m PROVE Resolved(EntryAt(i))'
    <3>1. i \in 1..Committed
      BY <1>1, <1>2
    <3>2. EntryAt(i) \in Deliveries /\ EntryAt(i)' = EntryAt(i) /\ (EntryAt(i) \in {d} \/ Resolved(EntryAt(i)))
      BY <1>1, <1>10, <3>1, EntryType DEF QueueGrows, ResolvedTo
    <3> QED
      BY <1>8, <1>11, <3>2 DEF Resolved, Acked, Disposition
  <2> QED
    BY <1>10, <2>1 DEF ResolvedTo
<1>18. \A i \in 1..n : AdvanceWrite({}, i)' = AdvanceWrite({d}, i)
  <2>1. SUFFICES ASSUME NEW i \in 1..n PROVE AdvanceWrite({}, i)' = AdvanceWrite({d}, i)
    OBVIOUS
  <2> DEFINE j == CursorAt + (i + 1) \div 2
  <2>2. j \in 1..Committed
    BY <1>1, <1>2, <1>3 DEF n
  <2>3. EntryAt(j) \in Deliveries /\ EntryAt(j)' = EntryAt(j)
    BY <1>10, <2>2, EntryType DEF QueueGrows
  <2> HIDE DEF j
  <2>4. RecordOf({}, j)' = RecordOf({d}, j)
    BY <1>7, <1>8, <2>3 DEF RecordOf, EntryAt, Acked
  <2> QED
    BY <1>10, <2>4 DEF AdvanceWrite, j
<1>19. todo' = AdvanceTo({}, m)'
  <2>1. todo' = [i \in 1..n |-> AdvanceWrite({}, i)']
    BY <1>5, <1>18 DEF IsList
  <2> QED
    BY <1>10, <2>1 DEF AdvanceTo, n
<1>20. todo' = <<>> \/ AdvanceTodo(todo)'
  BY <1>1, <1>2, <1>10, <1>17, <1>19, AdvanceIsDueNext DEF AdvanceIsDue
<1> QED
  BY <1>5, <1>7, <1>9, <1>16, <1>20, DrainWrite

\* The record of the next position is written.
LEMMA CursorRecordWritten ==
  ASSUME SpoolInv, Write, holder \in Drainers, NEW m \in CursorAt..Committed,
         ResolvedTo({}, m), m > CursorAt, todo = AdvanceTo({}, m)
  PROVE  SpoolInv'
<1>0. FilesTyped /\ QueueInv /\ DrainInv
  BY DEF SpoolInv, SpoolTypeOK
<1> DEFINE n == 2 * (m - CursorAt)
           c == CursorAt + 1
<1>1. CursorAt \in Nat /\ Committed \in Nat /\ 1..Committed \subseteq Positions
  BY <1>0, CommittedType
<1>2. n \in Nat /\ n # 0 /\ n - 1 \in Nat /\ n - 1 = 2 * (m - CursorAt) - 1 /\ n - 1 # 0
  BY <1>1
<1>3. c \in 1..Committed /\ c \in Positions /\ c \in (CursorAt + 1)..m
  BY <1>1
<1>4. AdvanceWrite({}, 1) = <<CursorRecord(c), RecordOf({}, c)>>
  <2>1. (1 + 1) \div 2 = 1 /\ 1 % 2 = 1
    OBVIOUS
  <2> QED
    BY <2>1 DEF AdvanceWrite
<1>5. IsList(todo, n) /\ \A i \in 1..n : todo[i] = AdvanceWrite({}, i)
  BY <1>2 DEF IsList, AdvanceTo
<1> HIDE DEF n, c
<1>6. todo[1][1] = CursorRecord(c) /\ todo[1][2] = RecordOf({}, c)
  BY <1>2, <1>4, <1>5
<1>7. /\ disk' = [disk EXCEPT ![CursorRecord(c)] = RecordOf({}, c)]
      /\ IsList(todo', n - 1) /\ todo' # <<>> /\ \A i \in 1..(n - 1) : todo'[i] = todo[i + 1]
      /\ holder' = holder /\ staged' = staged
      /\ at' = at /\ batch' = batch /\ outcome' = outcome /\ canonical' = canonical
  BY <1>2, <1>5, <1>6, WriteTakes
<1>8. /\ CursorRecord(c) \in Immutable \cup Derived /\ CursorRecord(c)[1] = "cursor-record"
      /\ DOMAIN disk = Immutable \cup Derived
  BY <1>0, <1>3, FilesOfSpool, FileNames DEF FilesTyped
<1>9. /\ QueueFilesSame /\ DOMAIN disk' = Immutable \cup Derived
      /\ AttemptsSame /\ AcksSame /\ disk'[Cursor] = disk[Cursor]
  BY <1>7, <1>8, DrainFileWritten
<1>10. /\ disk'[CursorRecord(c)] = RecordOf({}, c)
       /\ \A x \in Positions : x # c => disk'[CursorRecord(x)] = disk[CursorRecord(x)]
  BY <1>7, <1>8, OneFileWritten, FilesOfSpool, FileNames
<1>11. RecordOf({}, c) \in CursorRecords /\ RecordOf({}, c) # Nil
  BY <1>0, <1>3, RecordType, SpoolSentinel
<1>12. FilesTyped'
  BY <1>0, <1>9, <1>10, <1>11 DEF FilesTyped, QueueFilesSame, AttemptsSame, AcksSame
<1>13. QueueGrows /\ Committed' = Committed /\ CursorAt' = CursorAt
  BY <1>0, <1>9, SameQueue DEF CursorAt
<1>14. \A x \in Deliveries : /\ Disposition(x)' = Disposition(x) /\ (Acked(x)' <=> Acked(x))
                             /\ Resolved(x)' <=> Resolved(x)
  BY <1>9 DEF Disposition, AttemptsSame, AcksSame, Acked, Resolved
<1>15. ASSUME NEW x \in 1..Committed
       PROVE  /\ EntryAt(x)' = EntryAt(x) /\ EntryAt(x) \in Deliveries /\ RecordOf({}, x)' = RecordOf({}, x)
              /\ Resolved(EntryAt(x)) => Resolved(EntryAt(x))'
  <2>1. EntryAt(x)' = EntryAt(x) /\ EntryAt(x) \in Deliveries
    BY <1>0, <1>13, EntryType DEF QueueGrows
  <2>2. (Acked(EntryAt(x))' <=> Acked(EntryAt(x))) /\ (Resolved(EntryAt(x)) => Resolved(EntryAt(x))')
    BY <1>9, <2>1 DEF Acked, Resolved, Disposition, AttemptsSame, AcksSame
  <2> QED
    BY <1>0, <1>13, <2>1, <2>2, RecordsKept
<1>16. AttemptsTrue' /\ AcksTrue'
  BY <1>0, <1>7, <1>9, <1>13, <1>14, AttemptsKept, AcksKept DEF DrainInv
<1>17. CursorTrue'
  <2>1. ASSUME NEW x \in Positions, disk'[CursorRecord(x)] # Nil
        PROVE  x <= Committed' /\ Resolved(EntryAt(x))' /\ disk'[CursorRecord(x)] = RecordOf({}, x)'
    <3>1. CASE x = c
      <4>1. Resolved(EntryAt(c))
        BY <1>3 DEF ResolvedTo
      <4> QED
        BY <1>1, <1>3, <1>10, <1>13, <1>15, <3>1, <4>1
    <3>2. CASE x # c
      <4>1. x <= Committed /\ Resolved(EntryAt(x)) /\ disk[CursorRecord(x)] = RecordOf({}, x)
        BY <1>0, <1>10, <2>1, <3>2 DEF DrainInv, CursorTrue
      <4>2. x \in 1..Committed
        BY <1>1, <4>1, PositionsAreNumbers
      <4> QED
        BY <1>10, <1>13, <1>15, <3>2, <4>1, <4>2
    <3> QED
      BY <3>1, <3>2
  <2>2. ASSUME NEW x \in 1..CursorAt PROVE disk'[CursorRecord(x)] # Nil
    <3>1. x \in Positions /\ x # c /\ disk[CursorRecord(x)] # Nil
      BY <1>0, <1>1, CommittedType, CursorOnQueue DEF DrainInv, CursorTrue, c
    <3> QED
      BY <1>10, <3>1
  <2> QED
    BY <1>13, <2>1, <2>2 DEF CursorTrue
<1>18. AdvanceTodo(todo)'
  <2>1. ResolvedTo({}, m)'
    <3>1. ASSUME NEW i \in (CursorAt + 1)..m PROVE Resolved(EntryAt(i))'
      BY <1>1, <1>15 DEF ResolvedTo
    <3> QED
      BY <1>13, <3>1 DEF ResolvedTo
  <2>2. \A i \in 1..(n - 1) : AdvanceWrite({}, i + 1)' = AdvanceWrite({}, i + 1)
    <3>1. SUFFICES ASSUME NEW i \in 1..(n - 1) PROVE AdvanceWrite({}, i + 1)' = AdvanceWrite({}, i + 1)
      OBVIOUS
    <3>2. PICK j \in 1..Committed : j = CursorAt + (i + 1 + 1) \div 2
      <4>1. CursorAt + (i + 1 + 1) \div 2 \in 1..Committed
        BY <1>1, <1>2 DEF n
      <4> QED
        BY <4>1
    <3>3. RecordOf({}, j)' = RecordOf({}, j)
      BY <1>15, <3>2
    <3> QED
      BY <1>13, <3>2, <3>3 DEF AdvanceWrite
  <2>3. \A i \in 1..(n - 1) : todo'[i] = AdvanceWrite({}, i + 1)'
    <3>1. SUFFICES ASSUME NEW i \in 1..(n - 1) PROVE todo'[i] = AdvanceWrite({}, i + 1)'
      OBVIOUS
    <3>2. i + 1 \in 1..n
      BY <1>2
    <3> QED
      BY <1>5, <1>7, <2>2, <3>2
  <2>4. todo' = [i \in 1..(2 * (m - CursorAt) - 1) |-> AdvanceWrite({}, i + 1)']
    BY <1>2, <1>7, <2>3 DEF IsList
  <2>5. disk'[CursorRecord(CursorAt + 1)] = RecordOf({}, CursorAt + 1)'
    <3>1. PICK j \in 1..Committed : j = CursorAt + 1
      BY <1>3 DEF c
    <3>2. disk'[CursorRecord(j)] = RecordOf({}, j)'
      BY <1>10, <1>15, <3>1 DEF c
    <3> QED
      BY <1>13, <3>1, <3>2
  <2> QED
    BY <1>13, <2>1, <2>4, <2>5 DEF AdvanceTodo
<1> QED
  BY <1>7, <1>9, <1>12, <1>16, <1>17, <1>18, DrainWrite DEF DrainInv

\* The cursor moves on to the position whose record is written.
LEMMA CursorWritten ==
  ASSUME SpoolInv, Write, holder \in Drainers, NEW m \in CursorAt..Committed,
         ResolvedTo({}, m), m > CursorAt,
         todo = [i \in 1..(2 * (m - CursorAt) - 1) |-> AdvanceWrite({}, i + 1)],
         disk[CursorRecord(CursorAt + 1)] = RecordOf({}, CursorAt + 1)
  PROVE  SpoolInv'
<1>0. FilesTyped /\ QueueInv /\ DrainInv
  BY DEF SpoolInv, SpoolTypeOK
<1>1. CursorAt \in Nat /\ Committed \in Nat /\ 1..Committed \subseteq Positions
  BY <1>0, CommittedType
<1>2. PICK c \in 1..Committed : c = CursorAt + 1
  BY <1>1
<1> DEFINE n == 2 * (m - CursorAt) - 1
<1>3. n \in Nat /\ n # 0 /\ n - 1 \in Nat /\ n - 1 = 2 * (m - c) /\ c \in Positions /\ m \in c..Committed
  BY <1>1, <1>2
<1>4. AdvanceWrite({}, 2) = <<Cursor, c>>
  <2>1. (2 + 1) \div 2 = 1 /\ 2 % 2 # 1
    OBVIOUS
  <2> QED
    BY <1>2, <2>1 DEF AdvanceWrite
<1>5. IsList(todo, n) /\ \A i \in 1..n : todo[i] = AdvanceWrite({}, i + 1)
  BY <1>3 DEF IsList
<1> HIDE DEF n
<1>6. todo[1][1] = Cursor /\ todo[1][2] = c
  <2>1. 1 \in 1..n /\ 1 + 1 = 2
    BY <1>3
  <2> QED
    BY <1>4, <1>5, <2>1
<1>7. /\ disk' = [disk EXCEPT ![Cursor] = c]
      /\ IsList(todo', n - 1) /\ \A i \in 1..(n - 1) : todo'[i] = todo[i + 1]
      /\ holder' = (IF todo' = <<>> THEN Nil ELSE holder) /\ staged' = staged
      /\ at' = at /\ batch' = batch /\ outcome' = outcome /\ canonical' = canonical
  BY <1>3, <1>5, <1>6, WriteTakes, SpoolProcesses
<1>8. Cursor \in Immutable \cup Derived /\ Cursor[1] = "cursor" /\ DOMAIN disk = Immutable \cup Derived
  BY <1>0, FilesOfSpool, FileNames DEF FilesTyped
<1>9. QueueFilesSame /\ DOMAIN disk' = Immutable \cup Derived /\ AttemptsSame /\ AcksSame /\ RecordsSame
  BY <1>7, <1>8, DrainFileWritten
<1>10. disk'[Cursor] = c
  BY <1>7, <1>8, OneFileWritten
<1>11. FilesTyped'
  BY <1>0, <1>3, <1>9, <1>10 DEF FilesTyped, QueueFilesSame, AttemptsSame, AcksSame, RecordsSame
<1>12. QueueGrows /\ Committed' = Committed /\ CursorAt' = c
  <2>1. c # Nil
    BY <1>1, <1>2, SpoolSentinel
  <2> QED
    BY <1>0, <1>9, <1>10, <2>1, SameQueue DEF CursorAt
<1>13. \A x \in Deliveries : Disposition(x)' = Disposition(x)
  BY <1>9 DEF Disposition, AttemptsSame
<1>14. ASSUME NEW x \in 1..Committed
       PROVE  /\ EntryAt(x)' = EntryAt(x) /\ EntryAt(x) \in Deliveries /\ RecordOf({}, x)' = RecordOf({}, x)
              /\ Resolved(EntryAt(x)) => Resolved(EntryAt(x))'
  <2>1. EntryAt(x)' = EntryAt(x) /\ EntryAt(x) \in Deliveries
    BY <1>0, <1>12, EntryType DEF QueueGrows
  <2>2. (Acked(EntryAt(x))' <=> Acked(EntryAt(x))) /\ (Resolved(EntryAt(x)) => Resolved(EntryAt(x))')
    BY <1>9, <2>1 DEF Acked, Resolved, Disposition, AttemptsSame, AcksSame
  <2> QED
    BY <1>0, <1>12, <2>1, <2>2, RecordsKept
<1>15. AttemptsTrue' /\ AcksTrue'
  BY <1>0, <1>7, <1>9, <1>12, <1>13, AttemptsKept, AcksKept DEF DrainInv
<1>16. CursorTrue'
  <2>1. ASSUME NEW x \in Positions, disk'[CursorRecord(x)] # Nil
        PROVE  x <= Committed' /\ Resolved(EntryAt(x))' /\ disk'[CursorRecord(x)] = RecordOf({}, x)'
    <3>1. disk'[CursorRecord(x)] = disk[CursorRecord(x)]
      BY <1>9 DEF RecordsSame
    <3>2. x <= Committed /\ Resolved(EntryAt(x)) /\ disk[CursorRecord(x)] = RecordOf({}, x)
      BY <1>0, <2>1, <3>1 DEF DrainInv, CursorTrue
    <3>3. x \in 1..Committed
      BY <1>1, <3>2, PositionsAreNumbers
    <3> QED
      BY <1>12, <1>14, <3>1, <3>2, <3>3
  <2>2. ASSUME NEW x \in 1..c PROVE disk'[CursorRecord(x)] # Nil
    <3>1. x \in Positions /\ disk'[CursorRecord(x)] = disk[CursorRecord(x)]
      BY <1>1, <1>2, <1>9 DEF RecordsSame
    <3>2. CASE x = c
      <4>1. RecordOf({}, c) \in CursorRecords
        BY <1>0, RecordType
      <4> QED
        BY <1>2, <3>1, <3>2, <4>1, SpoolSentinel
    <3>3. CASE x # c
      <4>1. x \in 1..CursorAt
        BY <1>1, <1>2, <3>3
      <4> QED
        BY <1>0, <3>1, <4>1 DEF DrainInv, CursorTrue
    <3> QED
      BY <3>2, <3>3
  <2> QED
    BY <1>12, <2>1, <2>2 DEF CursorTrue
<1>17. todo' = <<>> \/ AdvanceTodo(todo)'
  <2>1. ResolvedTo({}, m)'
    <3>1. ASSUME NEW i \in (c + 1)..m PROVE Resolved(EntryAt(i))'
      <4>1. i \in 1..Committed /\ i \in (CursorAt + 1)..m
        BY <1>1, <1>2
      <4> QED
        BY <1>14, <4>1 DEF ResolvedTo
    <3> QED
      BY <1>12, <3>1 DEF ResolvedTo
  <2>2. \A i \in 1..(n - 1) : AdvanceWrite({}, i)' = AdvanceWrite({}, (i + 1) + 1)
    <3>1. SUFFICES ASSUME NEW i \in 1..(n - 1) PROVE AdvanceWrite({}, i)' = AdvanceWrite({}, (i + 1) + 1)
      OBVIOUS
    <3>2. /\ CursorAt + (((i + 1) + 1) + 1) \div 2 = c + (i + 1) \div 2
          /\ (((i + 1) + 1) % 2 = 1 <=> i % 2 = 1)
          /\ c + (i + 1) \div 2 \in 1..Committed
      BY <1>1, <1>2, <1>3
    <3>3. PICK j \in 1..Committed : j = c + (i + 1) \div 2
      BY <3>2
    <3>4. RecordOf({}, j)' = RecordOf({}, j)
      BY <1>14, <3>3
    <3> QED
      BY <1>12, <3>2, <3>3, <3>4 DEF AdvanceWrite
  <2>3. \A i \in 1..(n - 1) : todo'[i] = AdvanceWrite({}, i)'
    <3>1. SUFFICES ASSUME NEW i \in 1..(n - 1) PROVE todo'[i] = AdvanceWrite({}, i)'
      OBVIOUS
    <3>2. i + 1 \in 1..n
      BY <1>3
    <3> QED
      BY <1>5, <1>7, <2>2, <3>2
  <2>4. todo' = [i \in 1..(n - 1) |-> AdvanceWrite({}, i)']
    BY <1>7, <2>3 DEF IsList
  <2>5. todo' = AdvanceTo({}, m)'
    BY <1>3, <1>12, <2>4 DEF AdvanceTo
  <2> QED
    BY <1>1, <1>3, <1>12, <2>1, <2>5, AdvanceIsDueNext DEF AdvanceIsDue
<1> QED
  BY <1>7, <1>9, <1>11, <1>15, <1>16, <1>17, DrainWrite DEF DrainInv

LEMMA AdvanceWritten ==
  ASSUME SpoolInv, Write, holder \in Drainers, AdvanceTodo(todo)
  PROVE  SpoolInv'
<1>1. PICK m \in CursorAt..Committed, half \in {0, 1} :
        /\ ResolvedTo({}, m) /\ m > CursorAt
        /\ todo = [i \in 1..(2 * (m - CursorAt) - half) |-> AdvanceWrite({}, i + half)]
        /\ half = 1 => disk[CursorRecord(CursorAt + 1)] = RecordOf({}, CursorAt + 1)
  BY DEF AdvanceTodo
<1>2. CursorAt \in Nat /\ Committed \in Nat
  BY CommittedType DEF SpoolInv, SpoolTypeOK
<1>3. CASE half = 0
  <2>1. AdvanceTo({}, m) = [i \in 1..(2 * (m - CursorAt) - 0) |-> AdvanceWrite({}, i + 0)]
    BY <1>1, <1>2 DEF AdvanceTo
  <2> QED
    BY <1>1, <1>3, <2>1, CursorRecordWritten
<1>4. CASE half = 1
  BY <1>1, <1>4, CursorWritten
<1> QED
  BY <1>3, <1>4

\* A new attempt is written.
LEMMA AttemptFileWritten ==
  ASSUME SpoolInv, Write, holder \in Drainers, NEW d \in Deliveries, NEW k \in Keys,
         InQueue(d), ~Terminal(d), k = "completed" => d \in canonical, disk[Attempt(d, k)] = Nil,
         todo = << <<Attempt(d, k), NewAttempt(d, k)>>, <<AttemptState(d), StateOf(k, NewAttempt(d, k))>> >>
  PROVE  SpoolInv'
<1>0. FilesTyped /\ QueueInv /\ DrainInv
  BY DEF SpoolInv, SpoolTypeOK
<1> DEFINE a == NewAttempt(d, k)
<1>1. /\ a \in Attempts /\ a # Nil /\ a.number = Count(d) + 1
      /\ a.disposition = "completed" <=> k = "completed"
  <2>1. Count(d) \in Nat /\ FailureCount(d) \in Nat
    BY <1>0 DEF FilesTyped, AttemptStates, Count, FailureCount
  <2>2. a \in Attempts
    BY <2>1 DEF NewAttempt, Attempts, Dispositions
  <2>3. a.number = Count(d) + 1 /\ (a.disposition = "completed" <=> k = "completed")
    BY DEF NewAttempt
  <2> QED
    BY <2>2, <2>3, SpoolSentinel
<1> HIDE DEF a
<1>2. IsList(todo, 2) /\ todo[1] = <<Attempt(d, k), a>> /\ todo[2] = <<AttemptState(d), StateOf(k, a)>>
  BY DEF IsList, a
<1>3. /\ disk' = [disk EXCEPT ![Attempt(d, k)] = a]
      /\ IsList(todo', 1) /\ todo' # <<>> /\ todo'[1] = <<AttemptState(d), StateOf(k, a)>>
      /\ holder' = holder /\ staged' = staged
      /\ at' = at /\ batch' = batch /\ outcome' = outcome /\ canonical' = canonical
  <2>1. todo[1][1] = Attempt(d, k) /\ todo[1][2] = a /\ 2 \in Nat /\ 2 # 0 /\ 2 - 1 = 1 /\ 2 # 1
    BY <1>2
  <2>2. /\ disk' = [disk EXCEPT ![todo[1][1]] = todo[1][2]]
        /\ IsList(todo', 2 - 1) /\ (todo' = <<>> <=> 2 = 1) /\ (\A i \in 1..(2 - 1) : todo'[i] = todo[i + 1])
        /\ holder' = (IF todo' = <<>> THEN Nil ELSE holder)
        /\ staged' = (IF todo' = <<>> /\ holder \in Deliveries THEN staged \cup {holder} ELSE staged)
        /\ at' = at /\ batch' = batch /\ outcome' = outcome /\ canonical' = canonical
    BY <1>2, <2>1, WriteTakes
  <2> QED
    BY <1>2, <2>1, <2>2
<1>4. /\ Attempt(d, k) \in Immutable \cup Derived /\ Attempt(d, k)[1] = "attempt"
      /\ DOMAIN disk = Immutable \cup Derived
  BY <1>0, FilesOfSpool, FileNames DEF FilesTyped
<1>5. /\ QueueFilesSame /\ DOMAIN disk' = Immutable \cup Derived /\ AcksSame /\ RecordsSame
      /\ disk'[Cursor] = disk[Cursor]
  BY <1>3, <1>4, DrainFileWritten
<1>6. /\ disk'[Attempt(d, k)] = a
      /\ \A x \in Deliveries : disk'[AttemptState(x)] = disk[AttemptState(x)]
      /\ \A x \in Deliveries, l \in Keys : x # d \/ l # k => disk'[Attempt(x, l)] = disk[Attempt(x, l)]
  BY <1>3, <1>4, OneFileWritten, FilesOfSpool, FileNames
<1>7. FilesTyped'
  BY <1>0, <1>1, <1>5, <1>6 DEF FilesTyped, QueueFilesSame, AcksSame, RecordsSame
<1>8. QueueGrows
  BY <1>0, <1>5, SameQueue
<1>9. \A x \in Deliveries : /\ Disposition(x)' = Disposition(x) /\ (Acked(x)' <=> Acked(x))
                            /\ Resolved(x)' <=> Resolved(x)
                            /\ Count(x)' = Count(x) /\ (Terminal(x)' <=> Terminal(x))
  BY <1>5, <1>6 DEF Disposition, AcksSame, Acked, Resolved, Count, Terminal
<1>10. AttemptsTrue'
  <2>1. ASSUME NEW x \in Deliveries, NEW l \in Keys, disk'[Attempt(x, l)] # Nil
        PROVE  /\ InQueue(x)'
               /\ disk'[Attempt(x, l)].disposition = "completed" <=> l = "completed"
               /\ l = "completed" => x \in canonical'
    <3>1. CASE x = d /\ l = k
      BY <1>1, <1>3, <1>6, <1>8, <3>1 DEF QueueGrows
    <3>2. CASE x # d \/ l # k
      BY <1>0, <1>3, <1>6, <1>8, <2>1, <3>2 DEF QueueGrows, DrainInv, AttemptsTrue
    <3> QED
      BY <3>1, <3>2
  <2>2. ASSUME NEW x \in Deliveries, disk'[AttemptState(x)] # Nil
        PROVE  LET s == disk'[AttemptState(x)] IN
               disk'[Attempt(x, s.latest)] # Nil /\ s = StateOf(s.latest, disk'[Attempt(x, s.latest)])
    <3>1. PICK l \in Keys : l = disk[AttemptState(x)].latest
      BY <1>0, <1>6, <2>2 DEF FilesTyped, AttemptStates
    <3>2. disk[Attempt(x, l)] # Nil /\ disk[AttemptState(x)] = StateOf(l, disk[Attempt(x, l)])
      BY <1>0, <1>6, <2>2, <3>1 DEF DrainInv, AttemptsTrue
    <3>3. disk'[Attempt(x, l)] = disk[Attempt(x, l)]
      BY <1>6, <3>2
    <3> QED
      BY <1>6, <3>1, <3>2, <3>3
  <2> QED
    BY <2>1, <2>2 DEF AttemptsTrue, StateOf
<1>11. AcksTrue' /\ CursorTrue'
  BY <1>0, <1>5, <1>7, <1>8, <1>9, AcksKept, CursorKept DEF DrainInv
<1>12. AttemptTodo(todo)'
  <2>1. InQueue(d)' /\ ~Terminal(d)' /\ (k = "completed" => d \in canonical')
    BY <1>3, <1>8, <1>9 DEF QueueGrows
  <2>2. disk'[Attempt(d, k)] # Nil /\ disk'[Attempt(d, k)].number = Count(d)' + 1
    BY <1>1, <1>6, <1>9
  <2>3. todo' = << <<AttemptState(d), StateOf(k, disk'[Attempt(d, k)])>> >>
    <3>1. todo' = [i \in 1..1 |-> todo'[i]]
      BY <1>3 DEF IsList
    <3>2. IsList(<< <<AttemptState(d), StateOf(k, a)>> >>, 1)
      BY DEF IsList
    <3> QED
      BY <1>3, <1>6, <3>2, ListsEqual
  <2> QED
    BY <2>1, <2>2, <2>3 DEF AttemptTodo, StateOf
<1> QED
  BY <1>3, <1>5, <1>7, <1>10, <1>11, <1>12, DrainWrite DEF DrainInv

\* The attempt state of an entry whose verdict is open is written.
LEMMA AttemptStateWritten ==
  ASSUME SpoolInv, Write, holder \in Drainers, NEW d \in Deliveries, NEW k \in Keys,
         InQueue(d), ~Terminal(d), disk[Attempt(d, k)] # Nil,
         todo = << <<AttemptState(d), StateOf(k, disk[Attempt(d, k)])>> >>
  PROVE  SpoolInv'
<1>0. FilesTyped /\ QueueInv /\ DrainInv
  BY DEF SpoolInv, SpoolTypeOK
<1> DEFINE v == StateOf(k, disk[Attempt(d, k)])
<1>1. v \in AttemptStates /\ v.latest = k
  BY <1>0 DEF FilesTyped, AttemptStates, Attempts, StateOf
<1> HIDE DEF v
<1>2. IsList(todo, 1) /\ todo[1] = <<AttemptState(d), v>>
  BY DEF IsList, v
<1>3. /\ disk' = [disk EXCEPT ![AttemptState(d)] = v]
      /\ todo' = <<>> /\ holder' = Nil /\ staged' = staged
      /\ at' = at /\ batch' = batch /\ outcome' = outcome /\ canonical' = canonical
  <2>1. todo[1][1] = AttemptState(d) /\ todo[1][2] = v /\ 1 \in Nat /\ 1 # 0 /\ holder \notin Deliveries
    BY <1>2, SpoolProcesses
  <2>2. /\ disk' = [disk EXCEPT ![todo[1][1]] = todo[1][2]]
        /\ (todo' = <<>> <=> 1 = 1)
        /\ holder' = (IF todo' = <<>> THEN Nil ELSE holder)
        /\ staged' = (IF todo' = <<>> /\ holder \in Deliveries THEN staged \cup {holder} ELSE staged)
        /\ at' = at /\ batch' = batch /\ outcome' = outcome /\ canonical' = canonical
    BY <1>2, <2>1, WriteTakes
  <2> QED
    BY <2>1, <2>2
<1>4. /\ AttemptState(d) \in Immutable \cup Derived /\ AttemptState(d)[1] = "attempt-state"
      /\ DOMAIN disk = Immutable \cup Derived
  BY <1>0, FilesOfSpool, FileNames DEF FilesTyped
<1>5. /\ QueueFilesSame /\ DOMAIN disk' = Immutable \cup Derived /\ AcksSame /\ RecordsSame
      /\ disk'[Cursor] = disk[Cursor]
  BY <1>3, <1>4, DrainFileWritten
<1>6. /\ disk'[AttemptState(d)] = v
      /\ \A x \in Deliveries : x # d => disk'[AttemptState(x)] = disk[AttemptState(x)]
      /\ \A x \in Deliveries, l \in Keys : disk'[Attempt(x, l)] = disk[Attempt(x, l)]
  BY <1>3, <1>4, OneFileWritten, FilesOfSpool, FileNames
<1>7. FilesTyped'
  BY <1>0, <1>1, <1>5, <1>6 DEF FilesTyped, QueueFilesSame, AcksSame, RecordsSame
<1>8. QueueGrows
  BY <1>0, <1>5, SameQueue
<1>9. ~Acked(d) /\ ~Resolved(d)
  BY <1>0 DEF DrainInv, AcksTrue, Resolved, Terminal
<1>10. \A x \in Deliveries : /\ Acked(x)' <=> Acked(x)
                             /\ x # d => Disposition(x)' = Disposition(x)
                             /\ Resolved(x) => Resolved(x)'
  <2>1. \A x \in Deliveries : (Acked(x)' <=> Acked(x)) /\ (x # d => Disposition(x)' = Disposition(x))
    BY <1>5, <1>6 DEF Disposition, AcksSame, Acked
  <2> QED
    BY <1>9, <2>1 DEF Resolved
<1>11. AttemptsTrue'
  <2>1. ASSUME NEW x \in Deliveries, NEW l \in Keys, disk'[Attempt(x, l)] # Nil
        PROVE  /\ InQueue(x)'
               /\ disk'[Attempt(x, l)].disposition = "completed" <=> l = "completed"
               /\ l = "completed" => x \in canonical'
    BY <1>0, <1>3, <1>6, <1>8, <2>1 DEF QueueGrows, DrainInv, AttemptsTrue
  <2>2. ASSUME NEW x \in Deliveries, disk'[AttemptState(x)] # Nil
        PROVE  LET s == disk'[AttemptState(x)] IN
               disk'[Attempt(x, s.latest)] # Nil /\ s = StateOf(s.latest, disk'[Attempt(x, s.latest)])
    <3>1. CASE x = d
      BY <1>1, <1>6, <3>1 DEF v
    <3>2. CASE x # d
      <4>1. PICK l \in Keys : l = disk[AttemptState(x)].latest
        BY <1>0, <1>6, <2>2, <3>2 DEF FilesTyped, AttemptStates
      <4>2. disk[Attempt(x, l)] # Nil /\ disk[AttemptState(x)] = StateOf(l, disk[Attempt(x, l)])
        BY <1>0, <1>6, <2>2, <3>2, <4>1 DEF DrainInv, AttemptsTrue
      <4> QED
        BY <1>6, <3>2, <4>1, <4>2
    <3> QED
      BY <3>1, <3>2
  <2> QED
    BY <2>1, <2>2 DEF AttemptsTrue, StateOf
<1>12. AcksTrue' /\ CursorTrue'
  BY <1>0, <1>5, <1>7, <1>8, <1>9, <1>10, AcksKept, CursorKept DEF DrainInv
<1> QED
  BY <1>3, <1>5, <1>7, <1>11, <1>12, DrainWrite DEF DrainInv

LEMMA AttemptWritten ==
  ASSUME SpoolInv, Write, holder \in Drainers, AttemptTodo(todo)
  PROVE  SpoolInv'
BY AttemptFileWritten, AttemptStateWritten DEF AttemptTodo

-----------------------------------------------------------------------------
(* The writes of a hook *)

\* A write of a hook keeps the invariant, if the queue stays whole and what is
\* left is as it has to be.
LEMMA HookWrite ==
  ASSUME SpoolInv, holder \in Deliveries, FilesTyped', QueueInv', QueueGrows, DrainFilesSame,
         holder' = IF todo' = <<>> THEN Nil ELSE holder,
         at' = at, batch' = batch, outcome' = outcome, canonical' = canonical,
         staged' = IF todo' = <<>> /\ holder \in Deliveries THEN staged \cup {holder} ELSE staged,
         IF todo' = <<>> THEN \E d \in Deliveries : d = holder /\ InQueue(d)'
         ELSE StageTodo(holder, todo)'
  PROVE  SpoolInv'
<1> USE DEF SpoolInv
<1>1. DrainInv'
  BY DrainKept DEF SpoolTypeOK
<1>2. SpoolTypeOK'
  BY SpoolProcesses DEF SpoolTypeOK
<1>3. TodoInv'
  BY SpoolProcesses DEF TodoInv
<1>4. BatchInv'
  <2>1. ASSUME NEW r \in Drainers
        PROVE  /\ batch'[r] \subseteq 1..Committed'
               /\ at'[r] \in {"entry", "record", "ack"} => batch'[r] # {}
               /\ at'[r] = "record" /\ outcome'[r] = "completed" => CurrentEntry(r)' \in canonical'
    BY BatchKept DEF SpoolTypeOK
  <2> QED
    BY <2>1 DEF BatchInv
<1>5. StagedInv'
  <2>1. \A d \in staged : InQueue(d)'
    BY DEF SpoolTypeOK, StagedInv, QueueGrows
  <2>2. CASE todo' = <<>>
    <3>2. PICK d \in Deliveries : d = holder /\ InQueue(d)'
      BY <2>2
    <3>3. staged' = staged \cup {d}
      BY <2>2, <3>2
    <3> QED
      BY <2>1, <3>2, <3>3 DEF StagedInv
  <2>3. CASE todo' # <<>>
    BY <2>1, <2>3 DEF StagedInv
  <2> QED
    BY <2>2, <2>3
<1> QED
  BY <1>1, <1>2, <1>3, <1>4, <1>5

\* The queue has room for a delivery that is not in it.
LEMMA RoomForOneMore ==
  ASSUME FilesTyped, QueueInv, NEW d \in Deliveries, ~InQueue(d)
  PROVE  Committed + 1 \in Positions
<1>1. Committed \in Nat /\ Cardinality(Deliveries) \in Nat /\ IsFiniteSet(Deliveries)
  BY CommittedType, PositionsAreNumbers, SpoolAssumption
<1>2. IsFiniteSet(Deliveries \ {d}) /\ Cardinality(Deliveries \ {d}) = Cardinality(Deliveries) - 1
  BY <1>1, FS_RemoveElement
<1>3. IsFiniteSet(1..Committed) /\ Cardinality(1..Committed) = Committed
  BY <1>1, FS_Interval
<1> DEFINE f == [n \in 1..Committed |-> EntryAt(n)]
<1>4. f \in [1..Committed -> Deliveries \ {d}]
  BY EntryType
<1>5. \A x, y \in 1..Committed : f[x] = f[y] => x = y
  BY DEF QueueInv, RowsLinked
<1>6. ~(Cardinality(Deliveries \ {d}) < Cardinality(1..Committed))
  <2>1. SUFFICES ASSUME Cardinality(Deliveries \ {d}) < Cardinality(1..Committed) PROVE FALSE
    OBVIOUS
  <2> HIDE DEF f
  <2>2. \E x, y \in 1..Committed : x # y /\ f[x] = f[y]
    BY <1>2, <1>3, <1>4, <2>1, FS_PigeonHole, Zenon
  <2> QED
    BY <1>5, <2>2
<1> QED
  BY <1>1, <1>2, <1>3, <1>6 DEF Positions

LEMMA SessionQueueFinite ==
  ASSUME NEW s
  PROVE  IsFiniteSet(SessionQueue(s)) /\ Cardinality(SessionQueue(s)) \in Nat
<1>1. SessionQueue(s) \in SUBSET Deliveries
  BY DEF SessionQueue
<1> QED
  BY <1>1, SpoolAssumption, FS_Subset, FS_CardinalityType

\* The last entry of a session, as a hook reads it while nothing is pending.
LEMMA SessionTailEnds ==
  ASSUME FilesTyped, QueueInv, ~QueuePending, NEW d \in Deliveries
  PROVE  /\ EndsAt(SessionOf[d], SessionTail(SessionOf[d]))
         /\ NextBody(d) \in Bodies /\ NextBody(d).previous = SessionTail(SessionOf[d])
         /\ NextBody(d).sequence = Cardinality(SessionQueue(SessionOf[d])) + 1
<1> DEFINE s == SessionOf[d]
           last == SessionTail(s)
<1>1. s \in Sessions
  BY SpoolAssumption
<1>2. EndsAt(s, last)
  BY <1>1 DEF QueueInv, ChainsEnd, SessionTail
<1>3. /\ NextBody(d).previous = last
      /\ NextBody(d) = [sequence |-> NextBody(d).sequence, previous |-> last]
      /\ NextBody(d).sequence = IF last = Nil THEN 1 ELSE disk[Event(last)].sequence + 1
  BY DEF NextBody
<1>4. IsFiniteSet(SessionQueue(s)) /\ Cardinality(SessionQueue(s)) \in Nat
  BY SessionQueueFinite
<1> HIDE DEF s, last
<1>5. CASE SessionQueue(s) = {}
  <2>1. last = Nil /\ Cardinality(SessionQueue(s)) = 0
    BY <1>2, <1>5, FS_EmptySet DEF EndsAt
  <2> QED
    BY <1>2, <1>3, <2>1 DEF Bodies, s, last
<1>6. CASE SessionQueue(s) # {}
  <2>1. last \in Deliveries /\ last # Nil /\ disk[Event(last)].sequence = Cardinality(SessionQueue(s))
    BY <1>2, <1>6, SpoolProcesses DEF EndsAt, SessionQueue
  <2> QED
    BY <1>2, <1>3, <1>4, <2>1 DEF Bodies, s, last
<1> QED
  BY <1>5, <1>6

\* A session's queue and its end are as before.
LEMMA SameChains ==
  ASSUME FilesTyped, QueueInv, Committed' = Committed,
         \A d \in Deliveries : /\ InQueue(d)' <=> InQueue(d)
                               /\ InQueue(d) => disk'[Event(d)] = disk[Event(d)]
  PROVE  /\ \A s : SessionQueue(s)' = SessionQueue(s)
         /\ \A s, x : EndsAt(s, x)' <=> EndsAt(s, x)
         /\ ChainsWhole'
<1>1. ASSUME NEW s PROVE SessionQueue(s)' = SessionQueue(s) /\ SessionQueue(s) \subseteq Deliveries
  BY DEF SessionQueue
<1>2. ASSUME NEW s, NEW d \in SessionQueue(s)
      PROVE  d \in Deliveries /\ disk'[Event(d)] = disk[Event(d)] /\ Predecessor(d)' = Predecessor(d)
  BY DEF SessionQueue, Predecessor
<1>3. ASSUME NEW s, NEW x PROVE EndsAt(s, x)' <=> EndsAt(s, x)
  BY <1>1, <1>2 DEF EndsAt
<1>4. ChainsWhole'
  <2>1. ASSUME NEW s \in Sessions
        PROVE  {disk'[Event(d)].sequence : d \in SessionQueue(s)'} = 1..Cardinality(SessionQueue(s)')
    <3>1. {disk'[Event(d)].sequence : d \in SessionQueue(s)} = {disk[Event(d)].sequence : d \in SessionQueue(s)}
      BY <1>2
    <3>2. {disk[Event(d)].sequence : d \in SessionQueue(s)} = 1..Cardinality(SessionQueue(s))
      BY DEF QueueInv, ChainsWhole
    <3>3. SessionQueue(s)' = SessionQueue(s)
      BY <1>1
    <3> QED
      BY <3>1, <3>2, <3>3
  <2>2. ASSUME NEW s \in Sessions, NEW d \in SessionQueue(s), disk'[Event(d)].sequence > 1
        PROVE  /\ Predecessor(d)' \in SessionQueue(s)'
               /\ disk'[Event(Predecessor(d)')].sequence + 1 = disk'[Event(d)].sequence
    <3>1. /\ Predecessor(d) \in SessionQueue(s)
          /\ disk[Event(Predecessor(d))].sequence + 1 = disk[Event(d)].sequence
      BY <1>2, <2>2 DEF QueueInv, ChainsWhole
    <3>2. Predecessor(d)' = Predecessor(d) /\ disk'[Event(Predecessor(d))] = disk[Event(Predecessor(d))]
      BY <1>2, <3>1
    <3> QED
      BY <1>1, <1>2, <3>1, <3>2
  <2> QED
    BY <1>1, <2>1, <2>2 DEF ChainsWhole
<1> QED
  BY <1>1, <1>3, <1>4

\* stage() announces its delivery d: the queue state is pending.
LEMMA PendingWritten ==
  ASSUME FilesTyped, QueueInv, ~QueuePending, NEW d \in Deliveries, ~Known(d), NEW n, NEW before, NEW body,
         n = TailSequence + 1, before = LastQueued, body = NextBody(d),
         disk' = [disk EXCEPT ![QueueState] =
                    [tail |-> n, entry |-> d, before |-> before, body |-> body, state |-> "pending"]]
  PROVE  /\ FilesTyped' /\ QueueInv' /\ QueueGrows /\ DrainFilesSame /\ QueuePending' /\ Known(d)'
         /\ disk'[QueueState] = [tail |-> n, entry |-> d, before |-> before, body |-> body, state |-> "pending"]
<1> DEFINE q == [tail |-> n, entry |-> d, before |-> before, body |-> body, state |-> "pending"]
<1>1. Committed = TailSequence /\ Committed \in Nat /\ 1..Committed \subseteq Positions
  BY CommittedType
<1>2. ~InQueue(d) /\ disk[Event(d)] = Nil /\ disk[Delivery(d)] = Nil
  BY <1>1, SpoolSentinel DEF Known, InQueue, QueueInv, EntriesNamed
<1>3. n = Committed + 1 /\ n \in Positions
  BY <1>1, <1>2, RoomForOneMore
<1>4. /\ body \in Bodies /\ EndsAt(SessionOf[d], body.previous)
      /\ body.sequence = Cardinality(SessionQueue(SessionOf[d])) + 1
  BY SessionTailEnds
<1>5. before \in Deliveries \cup {Nil} /\ before = IF n = 1 THEN Nil ELSE EntryAt(n - 1)
  <2>1. CASE disk[QueueState] = Nil
    BY <1>3, <2>1 DEF LastQueued, TailSequence
  <2>2. CASE disk[QueueState] # Nil
    <3>1. disk[QueueState].tail \in Positions /\ disk[QueueState].entry \in Deliveries
      BY <2>2 DEF FilesTyped, QueueStates
    <3>2. EntryAt(disk[QueueState].tail) = disk[QueueState].entry /\ TailSequence = disk[QueueState].tail
      BY <2>2 DEF QueueInv, StateAgrees, TailSequence
    <3>3. TailSequence \in Nat /\ TailSequence # 0 /\ n # 1 /\ n - 1 = TailSequence
      BY <1>1, <3>1, <3>2, PositionsAreNumbers
    <3> QED
      BY <2>2, <3>1, <3>2, <3>3 DEF LastQueued
  <2> QED
    BY <2>1, <2>2
<1>6. q \in QueueStates /\ q # Nil
  <2>1. q \in QueueStates
    BY <1>3, <1>4, <1>5 DEF QueueStates
  <2> QED
    BY <2>1, SpoolSentinel
<1>7. q.tail = n /\ q.entry = d /\ q.before = before /\ q.body = body /\ q.state = "pending"
  OBVIOUS
<1> HIDE DEF q
<1>8. QueueState \in Immutable \cup Derived /\ QueueState[1] = "queue-state" /\ DOMAIN disk = Immutable \cup Derived
  BY FilesOfSpool, FileNames DEF FilesTyped
<1>9. DrainFilesSame /\ DOMAIN disk' = Immutable \cup Derived
  BY <1>8, QueueFileWritten DEF q
<1>10. /\ disk'[QueueState] = q
       /\ \A s \in Sessions : disk'[SessionCheckpoint(s)] = disk[SessionCheckpoint(s)]
       /\ \A x \in Deliveries : disk'[Event(x)] = disk[Event(x)] /\ disk'[Delivery(x)] = disk[Delivery(x)]
       /\ \A i \in Positions : disk'[QueueRef(i)] = disk[QueueRef(i)]
  BY <1>8, OneFileWritten, FilesOfSpool, FileNames DEF q
<1>11. FilesTyped'
  BY <1>6, <1>9, <1>10 DEF FilesTyped, DrainFilesSame, AttemptsSame, AcksSame, RecordsSame
<1>12. QueuePending' /\ TailSequence' = n /\ Committed' = Committed
  <2>1. QueuePending' /\ TailSequence' = n
    BY <1>6, <1>7, <1>10 DEF QueuePending, TailSequence
  <2>2. Committed' = TailSequence' - 1
    BY <1>6, <1>10, <2>1 DEF Committed
  <2> QED
    BY <1>1, <1>3, <2>1, <2>2
<1>13. /\ \A i \in Positions : EntryAt(i)' = EntryAt(i)
       /\ \A x \in Deliveries : InQueue(x)' <=> InQueue(x)
  BY <1>10, <1>12 DEF EntryAt, InQueue
<1>14. QueueGrows
  BY <1>1, <1>10, <1>12, <1>13 DEF QueueGrows
<1>15. RowsLinked'
  <2>1. ASSUME NEW i \in 1..Committed
        PROVE  /\ disk'[QueueRef(i)] # Nil
               /\ disk'[QueueRef(i)].previous = IF i = 1 THEN Nil ELSE EntryAt(i - 1)'
               /\ disk'[Delivery(EntryAt(i)')] = i
    <3>1. /\ i \in Positions /\ EntryAt(i) \in Deliveries /\ EntryAt(i)' = EntryAt(i)
          /\ i # 1 => EntryAt(i - 1)' = EntryAt(i - 1)
      BY <1>1, <1>13, EntryType
    <3> QED
      BY <1>10, <3>1 DEF QueueInv, RowsLinked
  <2> QED
    BY <1>12, <2>1 DEF RowsLinked
<1>16. EntriesNamed'
  <2>1. ASSUME NEW x \in Deliveries, InQueue(x)'
        PROVE  disk'[Event(x)] # Nil /\ EntryAt(disk[Delivery(x)])' = x
    <3>1. InQueue(x) /\ disk[Delivery(x)] \in Positions
      BY <1>1, <1>13, <2>1 DEF InQueue
    <3> QED
      BY <1>10, <1>13, <3>1 DEF QueueInv, EntriesNamed, EntryAt
  <2>2. ASSUME NEW x \in Deliveries, ~InQueue(x)'
        PROVE  disk'[Event(x)] = Nil /\ disk'[Delivery(x)] = Nil
    BY <1>10, <1>13, <2>2 DEF QueueInv, EntriesNamed
  <2> QED
    BY <1>10, <2>1, <2>2 DEF EntriesNamed
<1>17. RowsBounded'
  <2>1. ASSUME NEW i \in Positions, i > Committed PROVE disk'[QueueRef(i)] = Nil
    BY <1>10, <2>1 DEF QueueInv, RowsBounded
  <2> QED
    BY <1>12, <2>1 DEF RowsBounded
<1>18. StateAgrees'
  <2>1. n # 1 => n - 1 \in Positions
    BY <1>1, <1>3
  <2>2. before = IF n = 1 THEN Nil ELSE EntryAt(n - 1)'
    BY <1>5, <1>13, <2>1
  <2> QED
    BY <1>2, <1>7, <1>10, <1>12, <1>13, <2>2 DEF StateAgrees, EntryAt, InQueue
<1>19. (\A s : SessionQueue(s)' = SessionQueue(s)) /\ (\A s, x : EndsAt(s, x)' <=> EndsAt(s, x)) /\ ChainsWhole'
  BY <1>10, <1>12, <1>13, SameChains
<1>20. ChainsEnd'
  <2>1. ASSUME NEW s \in Sessions, SessionOf[d] = s
        PROVE  /\ EndsAt(s, disk[QueueState].body.previous)'
               /\ disk'[QueueState].body.sequence = Cardinality(SessionQueue(s)') + 1
    BY <1>4, <1>7, <1>10, <1>19, <2>1 DEF EndsAt
  <2>2. ASSUME NEW s \in Sessions, SessionOf[d] # s
        PROVE  IF disk'[SessionCheckpoint(s)] = Nil THEN EndsAt(s, Nil)'
               ELSE disk'[SessionCheckpoint(s)].state = "committed" /\ EndsAt(s, disk[SessionCheckpoint(s)].entry)'
    <3>1. IF disk[SessionCheckpoint(s)] = Nil THEN EndsAt(s, Nil)
          ELSE disk[SessionCheckpoint(s)].state = "committed" /\ EndsAt(s, disk[SessionCheckpoint(s)].entry)
      BY DEF QueueInv, ChainsEnd
    <3> QED
      BY <1>10, <1>19, <3>1 DEF EndsAt
  <2> QED
    BY <1>7, <1>10, <1>12, <2>1, <2>2 DEF ChainsEnd
<1>21. Known(d)'
  BY <1>7, <1>10, <1>12 DEF Known
<1> QED
  BY <1>9, <1>10, <1>11, <1>12, <1>14, <1>15, <1>16, <1>17, <1>18, <1>19, <1>20, <1>21 DEF QueueInv, q

\* At most the files of the pending entry change, to what the queue state says.
PendingFilesOnly ==
  LET q == disk[QueueState] IN
  /\ disk'[QueueState] = q
  /\ \A s \in Sessions : s # SessionOf[q.entry] => disk'[SessionCheckpoint(s)] = disk[SessionCheckpoint(s)]
  /\ \A x \in Deliveries : x # q.entry => disk'[Event(x)] = disk[Event(x)] /\ disk'[Delivery(x)] = disk[Delivery(x)]
  /\ \A n \in Positions : n # q.tail => disk'[QueueRef(n)] = disk[QueueRef(n)]
  /\ disk'[SessionCheckpoint(SessionOf[q.entry])] \in Checkpoints \cup {Nil}
  /\ disk'[Event(q.entry)] \in {disk[Event(q.entry)], q.body}
  /\ disk'[Delivery(q.entry)] \in {disk[Delivery(q.entry)], q.tail}
  /\ disk'[QueueRef(q.tail)] \in {disk[QueueRef(q.tail)], [entry |-> q.entry, previous |-> q.before]}

LEMMA PendingType ==
  ASSUME FilesTyped, QueueInv, QueuePending
  PROVE  LET q == disk[QueueState] IN
         /\ q \in QueueStates /\ q # Nil /\ q.tail \in Positions /\ q.entry \in Deliveries
         /\ q.before \in Deliveries \cup {Nil} /\ q.body \in Bodies
         /\ SessionOf[q.entry] \in Sessions
         /\ Committed \in Nat /\ q.tail = Committed + 1 /\ TailSequence = q.tail
         /\ ~InQueue(q.entry) /\ q.before = IF q.tail = 1 THEN Nil ELSE EntryAt(q.tail - 1)
         /\ disk[Event(q.entry)] \in {Nil, q.body} /\ disk[Delivery(q.entry)] \in {Nil, q.tail}
         /\ disk[QueueRef(q.tail)] \in {Nil, [entry |-> q.entry, previous |-> q.before]}
         /\ \A s \in Sessions : SessionOf[q.entry] = s =>
              EndsAt(s, q.body.previous) /\ q.body.sequence = Cardinality(SessionQueue(s)) + 1
<1> DEFINE q == disk[QueueState]
<1>1. q \in QueueStates /\ q # Nil
  BY DEF FilesTyped, QueuePending
<1>2. /\ q.tail \in Positions /\ q.entry \in Deliveries
      /\ q.before \in Deliveries \cup {Nil} /\ q.body \in Bodies
  BY <1>1 DEF QueueStates
<1>3. SessionOf[q.entry] \in Sessions
  BY <1>2, SpoolAssumption
<1>4. Committed \in Nat /\ q.tail = Committed + 1 /\ TailSequence = q.tail
  BY <1>1, CommittedType
<1>5. ~InQueue(q.entry) /\ q.before = IF q.tail = 1 THEN Nil ELSE EntryAt(q.tail - 1)
  BY <1>1 DEF QueueInv, StateAgrees
<1>6. disk[Event(q.entry)] \in {Nil, q.body} /\ disk[Delivery(q.entry)] \in {Nil, q.tail}
  BY <1>2, <1>5 DEF QueueInv, EntriesNamed
<1>7. disk[QueueRef(q.tail)] \in {Nil, [entry |-> q.entry, previous |-> q.before]}
  BY <1>2, <1>4 DEF QueueInv, RowsBounded
<1>8. \A s \in Sessions : SessionOf[q.entry] = s =>
              EndsAt(s, q.body.previous) /\ q.body.sequence = Cardinality(SessionQueue(s)) + 1
  BY DEF QueueInv, ChainsEnd
<1> QED
  BY <1>1, <1>2, <1>3, <1>4, <1>5, <1>6, <1>7, <1>8

LEMMA PendingKept ==
  ASSUME FilesTyped, QueueInv, QueuePending, PendingFilesOnly, DrainFilesSame, DOMAIN disk' = Immutable \cup Derived
  PROVE  FilesTyped' /\ QueueInv' /\ QueueGrows /\ QueuePending' /\ disk'[QueueState] = disk[QueueState]
<1> DEFINE q == disk[QueueState]
           row == [entry |-> q.entry, previous |-> q.before]
<1>1. /\ q \in QueueStates /\ q # Nil /\ q.tail \in Positions /\ q.entry \in Deliveries
      /\ q.before \in Deliveries \cup {Nil} /\ q.body \in Bodies
      /\ SessionOf[q.entry] \in Sessions
      /\ Committed \in Nat /\ q.tail = Committed + 1 /\ TailSequence = q.tail
      /\ ~InQueue(q.entry) /\ q.before = (IF q.tail = 1 THEN Nil ELSE EntryAt(q.tail - 1))
      /\ disk[Event(q.entry)] \in {Nil, q.body} /\ disk[Delivery(q.entry)] \in {Nil, q.tail}
      /\ disk[QueueRef(q.tail)] \in {Nil, row}
  BY PendingType
<1>2. 1..Committed \subseteq Positions
  BY CommittedType
<1>3. row \in QueueRefs
  BY <1>1 DEF QueueRefs
<1>4. /\ disk'[QueueState] = q
      /\ \A s \in Sessions : s # SessionOf[q.entry] => disk'[SessionCheckpoint(s)] = disk[SessionCheckpoint(s)]
      /\ \A x \in Deliveries : x # q.entry => disk'[Event(x)] = disk[Event(x)] /\ disk'[Delivery(x)] = disk[Delivery(x)]
      /\ \A n \in Positions : n # q.tail => disk'[QueueRef(n)] = disk[QueueRef(n)]
      /\ disk'[SessionCheckpoint(SessionOf[q.entry])] \in Checkpoints \cup {Nil}
      /\ disk'[Event(q.entry)] \in {Nil, q.body} /\ disk'[Delivery(q.entry)] \in {Nil, q.tail}
      /\ disk'[QueueRef(q.tail)] \in {Nil, row}
  BY <1>1 DEF PendingFilesOnly
<1>5. QueuePending' /\ TailSequence' = TailSequence /\ Committed' = Committed
  BY <1>4 DEF QueuePending, TailSequence, Committed
<1> HIDE DEF q, row
<1>6. FilesTyped'
  <2>1. disk'[QueueState] \in QueueStates
    BY <1>1, <1>4
  <2>2. \A s \in Sessions : disk'[SessionCheckpoint(s)] \in Checkpoints \cup {Nil}
    BY <1>4 DEF FilesTyped
  <2>3. \A x \in Deliveries : disk'[Event(x)] \in Bodies \cup {Nil} /\ disk'[Delivery(x)] \in Positions \cup {Nil}
    BY <1>1, <1>4 DEF FilesTyped
  <2>4. \A n \in Positions : disk'[QueueRef(n)] \in QueueRefs \cup {Nil}
    BY <1>3, <1>4 DEF FilesTyped
  <2> QED
    BY <2>1, <2>2, <2>3, <2>4 DEF FilesTyped, DrainFilesSame, AttemptsSame, AcksSame, RecordsSame
<1>7. \A n \in 1..Committed : /\ n # q.tail /\ n \in Positions
                              /\ disk'[QueueRef(n)] = disk[QueueRef(n)] /\ EntryAt(n)' = EntryAt(n)
  <2>1. \A n \in 1..Committed : n # q.tail /\ n \in Positions
    BY <1>1, <1>2
  <2> QED
    BY <1>4, <2>1 DEF EntryAt
<1>8. ~InQueue(q.entry)' /\ \A x \in Deliveries : InQueue(x)' <=> InQueue(x)
  <2>1. Nil \notin 1..Committed /\ q.tail \notin 1..Committed
    BY <1>1, SpoolSentinel
  <2>2. disk'[Delivery(q.entry)] \notin 1..Committed'
    BY <1>4, <1>5, <2>1
  <2>3. \A x \in Deliveries : x # q.entry => (InQueue(x)' <=> InQueue(x))
    BY <1>4, <1>5 DEF InQueue
  <2>4. q' = q
    BY <1>4 DEF q
  <2>5. ~InQueue(q.entry)'
    BY <2>2, <2>4 DEF InQueue
  <2>6. ASSUME NEW x \in Deliveries, x = q.entry PROVE ~InQueue(x)' /\ ~InQueue(x)
    BY <1>1, <2>2, <2>6 DEF InQueue
  <2> QED
    BY <2>3, <2>5, <2>6
<1>9. \A x \in Deliveries : InQueue(x) => x # q.entry /\ disk'[Event(x)] = disk[Event(x)] /\ disk'[Delivery(x)] = disk[Delivery(x)]
  BY <1>1, <1>4
<1>10. QueueGrows
  BY <1>1, <1>5, <1>7, <1>8, <1>9 DEF QueueGrows
<1>11. RowsLinked'
  <2>1. ASSUME NEW i \in 1..Committed
        PROVE  /\ disk'[QueueRef(i)] # Nil
               /\ disk'[QueueRef(i)].previous = IF i = 1 THEN Nil ELSE EntryAt(i - 1)'
               /\ disk'[Delivery(EntryAt(i)')] = i
    <3>1. /\ EntryAt(i) \in Deliveries /\ InQueue(EntryAt(i)) /\ EntryAt(i)' = EntryAt(i)
          /\ i # 1 => EntryAt(i - 1)' = EntryAt(i - 1)
      <4>1. i # 1 => i - 1 \in 1..Committed
        BY <1>1
      <4> QED
        BY <1>7, <4>1, EntryType
    <3>2. disk'[Delivery(EntryAt(i))] = disk[Delivery(EntryAt(i))]
      BY <1>9, <3>1
    <3> QED
      BY <1>7, <3>1, <3>2 DEF QueueInv, RowsLinked
  <2> QED
    BY <1>5, <2>1 DEF RowsLinked
<1>12. EntriesNamed'
  <2>1. ASSUME NEW x \in Deliveries, InQueue(x)'
        PROVE  disk'[Event(x)] # Nil /\ disk'[QueueRef(disk'[Delivery(x)])].entry = x
    <3>1. InQueue(x) /\ disk[Delivery(x)] \in 1..Committed
      BY <1>8, <2>1 DEF InQueue
    <3>2. disk[Event(x)] # Nil /\ disk[QueueRef(disk[Delivery(x)])].entry = x
      BY <3>1 DEF QueueInv, EntriesNamed, EntryAt
    <3> QED
      BY <1>7, <1>9, <3>1, <3>2
  <2>2. ASSUME NEW x \in Deliveries, ~InQueue(x)', x # q.entry
        PROVE  disk'[Event(x)] = Nil /\ disk'[Delivery(x)] = Nil
    BY <1>4, <1>8, <2>2 DEF QueueInv, EntriesNamed, q
  <2> QED
    BY <1>4, <1>5, <2>1, <2>2 DEF EntriesNamed, EntryAt, q
<1>13. RowsBounded'
  <2>1. ASSUME NEW i \in Positions, i > Committed, i # q.tail PROVE disk'[QueueRef(i)] = Nil
    BY <1>4, <2>1 DEF QueueInv, RowsBounded, q
  <2> QED
    BY <1>4, <1>5, <2>1 DEF RowsBounded, q, row
<1>14. StateAgrees'
  <2>1. q.tail # 1 => q.tail - 1 \in 1..Committed
    BY <1>1, PositionsAreNumbers
  <2>2. q.before = IF q.tail = 1 THEN Nil ELSE disk'[QueueRef(q.tail - 1)].entry
    BY <1>1, <1>7, <2>1 DEF EntryAt
  <2> QED
    BY <1>4, <1>5, <1>8, <2>2 DEF StateAgrees, EntryAt, InQueue, q
<1>15. (\A s : SessionQueue(s)' = SessionQueue(s)) /\ (\A s, x : EndsAt(s, x)' <=> EndsAt(s, x)) /\ ChainsWhole'
  BY <1>5, <1>8, <1>9, SameChains
<1>16. ChainsEnd'
  <2>1. ASSUME NEW s \in Sessions, SessionOf[q.entry] = s
        PROVE  /\ EndsAt(s, disk[QueueState].body.previous)'
               /\ disk'[QueueState].body.sequence = Cardinality(SessionQueue(s)') + 1
    <3>1. PICK x : x = q.body.previous
      OBVIOUS
    <3>2. EndsAt(s, x) /\ q.body.sequence = Cardinality(SessionQueue(s)) + 1
      BY <2>1, <3>1, PendingType DEF q
    <3>3. EndsAt(s, x)'
      BY <1>15, <3>2
    <3> QED
      BY <1>4, <1>15, <3>1, <3>2, <3>3 DEF EndsAt
  <2>2. ASSUME NEW s \in Sessions, SessionOf[q.entry] # s
        PROVE  IF disk'[SessionCheckpoint(s)] = Nil THEN EndsAt(s, Nil)'
               ELSE disk'[SessionCheckpoint(s)].state = "committed" /\ EndsAt(s, disk[SessionCheckpoint(s)].entry)'
    <3>1. IF disk[SessionCheckpoint(s)] = Nil THEN EndsAt(s, Nil)
          ELSE disk[SessionCheckpoint(s)].state = "committed" /\ EndsAt(s, disk[SessionCheckpoint(s)].entry)
      BY <2>2 DEF QueueInv, ChainsEnd, q
    <3> QED
      BY <1>4, <1>15, <2>2, <3>1 DEF EndsAt
  <2> QED
    BY <1>4, <1>5, <2>1, <2>2 DEF ChainsEnd, q
<1> QED
  BY <1>4, <1>5, <1>6, <1>10, <1>11, <1>12, <1>13, <1>14, <1>15, <1>16 DEF QueueInv, q

\* While the same entry is pending, a hook decides on the same writes.
LEMMA SameStageWrites ==
  ASSUME FilesTyped, QueueInv, QueuePending, PendingFilesOnly, NEW d \in Deliveries
  PROVE  StageWrites(d)' = StageWrites(d) /\ (Known(d)' <=> Known(d))
<1> DEFINE q == disk[QueueState]
           s == SessionOf[d]
<1>1. /\ disk'[QueueState] = q /\ q.entry \in Deliveries /\ q # Nil
      /\ \A t \in Sessions : t # SessionOf[q.entry] => disk'[SessionCheckpoint(t)] = disk[SessionCheckpoint(t)]
      /\ \A x \in Deliveries : x # q.entry => disk'[Event(x)] = disk[Event(x)] /\ disk'[Delivery(x)] = disk[Delivery(x)]
  BY PendingType DEF PendingFilesOnly
<1>2. s \in Sessions
  BY SpoolAssumption
<1>3. QueuePending' /\ RecoveryWrites' = RecoveryWrites /\ TailSequence' = TailSequence /\ LastQueued' = LastQueued
  BY <1>1 DEF QueuePending, RecoveryWrites, TailSequence, LastQueued
<1>4. Known(d)' <=> Known(d)
  BY <1>1, <1>3 DEF Known
<1>5. PICK last : last = SessionTail(s)
  OBVIOUS
<1>6. SessionTail(s)' = last /\ last \in Deliveries \cup {Nil}
  BY <1>1, <1>2, <1>3, <1>5 DEF SessionTail, FilesTyped, Checkpoints
<1>7. NextBody(d)' = NextBody(d)
  <2>1. CASE last = Nil
    BY <1>5, <1>6, <2>1 DEF NextBody
  <2>2. CASE last = q.entry
    BY <1>1, <1>3, <1>5, <1>6, <2>2 DEF NextBody
  <2>3. CASE last # Nil /\ last # q.entry
    <3>1. disk'[Event(last)] = disk[Event(last)]
      BY <1>1, <1>6, <2>3
    <3> QED
      BY <1>1, <1>3, <1>5, <1>6, <2>3, <3>1 DEF NextBody
  <2> QED
    BY <2>1, <2>2, <2>3
<1>8. StageWrites(d)' = StageWrites(d)
  BY <1>3, <1>4, <1>7 DEF StageWrites
<1> QED
  BY <1>4, <1>8

\* The writes that complete the pending entry, and those of a hook's own.
PendingCommit == LET q == disk[QueueState] IN CommitWrites(q.entry, q.tail, q.before, q.body)
OwnWrites(d) == AppendWrites(d, TailSequence + 1, LastQueued, NextBody(d))

LEMMA RecoveryFirst ==
  ASSUME QueuePending, NEW d
  PROVE  /\ IsList(StageWrites(d), IF Known(d) THEN 6 ELSE 13)
         /\ \A i \in 1..6 : StageWrites(d)[i] = PendingCommit[i]
         /\ ~Known(d) => IsList(OwnWrites(d), 7) /\ \A i \in 1..7 : StageWrites(d)[i + 6] = OwnWrites(d)[i]
<1>1. IsList(PendingCommit, 6) /\ IsList(OwnWrites(d), 7) /\ IsList(<<>>, 0)
  BY CommitList DEF IsList, PendingCommit, OwnWrites
<1>2. RecoveryWrites = PendingCommit
  BY DEF RecoveryWrites, PendingCommit
<1>3. StageWrites(d) = PendingCommit \o (IF Known(d) THEN <<>> ELSE OwnWrites(d))
  BY <1>2 DEF StageWrites, OwnWrites
<1>4. PICK six \in Nat, seven \in Nat : six = 6 /\ seven = 7
  OBVIOUS
<1>5. CASE Known(d)
  <2>1. IsList(PendingCommit, six) /\ StageWrites(d) = PendingCommit \o <<>> /\ 0 \in Nat
    BY <1>1, <1>3, <1>4, <1>5
  <2>2. IsList(PendingCommit \o <<>>, six + 0) /\ \A i \in 1..six : (PendingCommit \o <<>>)[i] = PendingCommit[i]
    BY <1>1, <2>1, ListsJoin DEF Join
  <2> QED
    BY <1>4, <1>5, <2>1, <2>2
<1>6. CASE ~Known(d)
  <2>0. PICK a, b : a = PendingCommit /\ b = OwnWrites(d)
    OBVIOUS
  <2>1. IsList(a, six) /\ IsList(b, seven)
    BY <1>1, <1>4, <2>0
  <2>2. /\ IsList(Join(a, b), six + seven) /\ \A i \in 1..six : Join(a, b)[i] = a[i]
        /\ \A i \in 1..seven : Join(a, b)[six + i] = b[i]
    BY <2>1, ListsJoin
  <2>4. StageWrites(d) = Join(a, b)
    BY <1>3, <1>6, <2>0 DEF Join
  <2>3. six + seven = 13 /\ \A i \in 1..7 : six + i = i + 6
    BY <1>4
  <2> QED
    BY <1>1, <1>4, <1>6, <2>0, <2>2, <2>3, <2>4
<1> QED
  BY <1>5, <1>6

\* The j-th of these writes is the next one, and leaves those behind it.
LEMMA RecoveryStep ==
  ASSUME QueuePending, Write, NEW d, NEW j \in 1..6, todo = From(StageWrites(d), j)
  PROVE  /\ disk' = [disk EXCEPT ![PendingCommit[j][1]] = PendingCommit[j][2]]
         /\ todo' = From(StageWrites(d), j + 1)
         /\ todo' = <<>> <=> (j = 6 /\ Known(d))
         /\ holder' = IF todo' = <<>> THEN Nil ELSE holder
         /\ at' = at /\ batch' = batch /\ outcome' = outcome /\ canonical' = canonical
         /\ staged' = IF todo' = <<>> /\ holder \in Deliveries THEN staged \cup {holder} ELSE staged
<1> DEFINE w == PendingCommit[j]
<1>1. PICK n \in {6, 13} : /\ n = IF Known(d) THEN 6 ELSE 13
                           /\ IsList(StageWrites(d), n)
                           /\ StageWrites(d)[j] = w
  BY RecoveryFirst
<1> HIDE DEF w
<1>2. n \in Nat /\ j \in 1..(n + 1) /\ j + 1 \in 1..(n + 1) /\ n - j + 1 \in Nat /\ n - j + 1 # 0
      /\ n - (j + 1) + 1 = (n - j + 1) - 1 /\ (n - j + 1) - 1 \in Nat
  BY <1>1
<1>3. /\ IsList(todo, n - j + 1)
      /\ \A i \in 1..(n - j + 1) : todo[i] = StageWrites(d)[i + j - 1]
  BY <1>1, <1>2, FromList
<1>4. /\ IsList(From(StageWrites(d), j + 1), (n - j + 1) - 1)
      /\ \A i \in 1..((n - j + 1) - 1) : From(StageWrites(d), j + 1)[i] = StageWrites(d)[i + (j + 1) - 1]
  <2>1. PICK k \in 1..(n + 1) : k = j + 1
    BY <1>2
  <2>2. IsList(From(StageWrites(d), k), n - k + 1) /\ \A i \in 1..(n - k + 1) : From(StageWrites(d), k)[i] = StageWrites(d)[i + k - 1]
    BY <1>1, <1>2, FromList
  <2>3. n - k + 1 = (n - j + 1) - 1
    BY <1>2, <2>1
  <2> QED
    BY <2>1, <2>2, <2>3
<1>5. todo[1] = w
  BY <1>1, <1>2, <1>3
<1>6. /\ disk' = [disk EXCEPT ![todo[1][1]] = todo[1][2]]
      /\ IsList(todo', (n - j + 1) - 1) /\ (todo' = <<>> <=> n - j + 1 = 1)
      /\ \A i \in 1..((n - j + 1) - 1) : todo'[i] = todo[i + 1]
      /\ holder' = (IF todo' = <<>> THEN Nil ELSE holder)
      /\ at' = at /\ batch' = batch /\ outcome' = outcome /\ canonical' = canonical
      /\ staged' = (IF todo' = <<>> /\ holder \in Deliveries THEN staged \cup {holder} ELSE staged)
  BY <1>2, <1>3, WriteTakes
<1>7. todo' = From(StageWrites(d), j + 1)
  <2>1. ASSUME NEW i \in 1..((n - j + 1) - 1)
        PROVE  todo'[i] = From(StageWrites(d), j + 1)[i]
    <3>1. i + 1 \in 1..(n - j + 1) /\ (i + 1) + j - 1 = i + (j + 1) - 1
      BY <1>2
    <3> QED
      BY <1>3, <1>4, <1>6, <3>1
  <2> QED
    BY <1>2, <1>4, <1>6, <2>1, ListsEqual
<1>8. todo' = <<>> <=> (j = 6 /\ Known(d))
  BY <1>1, <1>6
<1> QED
  BY <1>5, <1>6, <1>7, <1>8 DEF w

LEMMA PendingCommitWrites ==
  LET q == disk[QueueState] IN
  /\ PendingCommit[1] = <<SessionCheckpoint(SessionOf[q.entry]), [entry |-> q.entry, state |-> "pending"]>>
  /\ PendingCommit[2] = <<Event(q.entry), q.body>>
  /\ PendingCommit[3] = <<Delivery(q.entry), q.tail>>
  /\ PendingCommit[4] = <<QueueRef(q.tail), [entry |-> q.entry, previous |-> q.before]>>
  /\ PendingCommit[5] = <<SessionCheckpoint(SessionOf[q.entry]), [entry |-> q.entry, state |-> "committed"]>>
  /\ PendingCommit[6] = <<QueueState, [tail |-> q.tail, entry |-> q.entry, before |-> q.before, body |-> q.body,
                                       state |-> "committed"]>>
BY DEF PendingCommit, CommitWrites

\* One of the five files of a pending entry is written.
LEMMA PendingFileWritten ==
  ASSUME FilesTyped, QueueInv, QueuePending, NEW j \in 1..5, WrittenTo(j),
         disk' = [disk EXCEPT ![PendingCommit[j][1]] = PendingCommit[j][2]]
  PROVE  PendingFilesOnly /\ DrainFilesSame /\ DOMAIN disk' = Immutable \cup Derived /\ WrittenTo(j + 1)'
<1>0. PICK q : q = disk[QueueState]
  OBVIOUS
<1> DEFINE row == [entry |-> q.entry, previous |-> q.before]
           s == SessionOf[q.entry]
           mark(st) == [entry |-> q.entry, state |-> st]
<1>1. /\ q.tail \in Positions /\ q.entry \in Deliveries /\ s \in Sessions
      /\ disk[SessionCheckpoint(s)] \in Checkpoints \cup {Nil}
  BY <1>0, PendingType DEF FilesTyped
<1>2. mark("pending") \in Checkpoints /\ mark("committed") \in Checkpoints
  BY <1>1 DEF Checkpoints
<1>3. PICK f, v : f = PendingCommit[j][1] /\ v = PendingCommit[j][2]
  OBVIOUS
<1>4. disk' = [disk EXCEPT ![f] = v] /\ DOMAIN disk = Immutable \cup Derived
  BY <1>3 DEF FilesTyped
<1>5. \/ j = 1 /\ f = SessionCheckpoint(s) /\ v = mark("pending")
      \/ j = 2 /\ f = Event(q.entry) /\ v = q.body
      \/ j = 3 /\ f = Delivery(q.entry) /\ v = q.tail
      \/ j = 4 /\ f = QueueRef(q.tail) /\ v = row
      \/ j = 5 /\ f = SessionCheckpoint(s) /\ v = mark("committed")
  BY <1>0, <1>3, PendingCommitWrites
<1>6. f \in Immutable \cup Derived /\ f[1] \in {"session", "event", "delivery", "queue"}
  BY <1>1, <1>5, FilesOfSpool, FileNames
<1>7. DrainFilesSame /\ DOMAIN disk' = Immutable \cup Derived
  BY <1>4, <1>6, QueueFileWritten
<1>8. disk'[f] = v /\ \A g \in Immutable \cup Derived : g # f => disk'[g] = disk[g]
  BY <1>4, <1>6, OneFileWritten
<1> HIDE DEF row, s, mark
<1>9. /\ disk'[QueueState] = q
      /\ \A t \in Sessions : t # s => disk'[SessionCheckpoint(t)] = disk[SessionCheckpoint(t)]
      /\ \A x \in Deliveries : x # q.entry => disk'[Event(x)] = disk[Event(x)] /\ disk'[Delivery(x)] = disk[Delivery(x)]
      /\ \A n \in Positions : n # q.tail => disk'[QueueRef(n)] = disk[QueueRef(n)]
  <2>1. QueueState # f
    BY <1>6, FileNames
  <2>2. \A t \in Sessions : t # s => SessionCheckpoint(t) # f
    BY <1>5, FileNames
  <2>3. \A x \in Deliveries : x # q.entry => Event(x) # f /\ Delivery(x) # f
    BY <1>5, FileNames
  <2>4. \A n \in Positions : n # q.tail => QueueRef(n) # f
    BY <1>5, FileNames
  <2> QED
    BY <1>0, <1>8, <2>1, <2>2, <2>3, <2>4, FilesOfSpool
<1>10. /\ disk'[SessionCheckpoint(s)] = (IF j = 1 THEN mark("pending") ELSE IF j = 5 THEN mark("committed")
                                        ELSE disk[SessionCheckpoint(s)])
       /\ disk'[Event(q.entry)] = IF j = 2 THEN q.body ELSE disk[Event(q.entry)]
       /\ disk'[Delivery(q.entry)] = IF j = 3 THEN q.tail ELSE disk[Delivery(q.entry)]
       /\ disk'[QueueRef(q.tail)] = IF j = 4 THEN row ELSE disk[QueueRef(q.tail)]
  <2>1. /\ SessionCheckpoint(s) # f => j # 1 /\ j # 5
        /\ Event(q.entry) # f => j # 2
        /\ Delivery(q.entry) # f => j # 3
        /\ QueueRef(q.tail) # f => j # 4
    BY <1>5
  <2>2. CASE j = 1 \/ j = 5
    BY <1>1, <1>5, <1>8, <2>2, FilesOfSpool, FileNames
  <2>3. CASE j = 2
    BY <1>1, <1>5, <1>8, <2>3, FilesOfSpool, FileNames
  <2>4. CASE j = 3
    BY <1>1, <1>5, <1>8, <2>4, FilesOfSpool, FileNames
  <2>5. CASE j = 4
    BY <1>1, <1>5, <1>8, <2>5, FilesOfSpool, FileNames
  <2> QED
    BY <2>2, <2>3, <2>4, <2>5
<1>11. PendingFilesOnly
  BY <1>0, <1>1, <1>2, <1>9, <1>10 DEF PendingFilesOnly, s, row
<1>12. WrittenTo(j + 1)'
  <2>1. /\ j > 2 => disk[Event(q.entry)] = q.body
        /\ j > 3 => disk[Delivery(q.entry)] = q.tail
        /\ j > 4 => disk[QueueRef(q.tail)] = row
    BY <1>0 DEF WrittenTo, row
  <2>2. /\ j + 1 > 2 => disk'[Event(q.entry)] = q.body
        /\ j + 1 > 3 => disk'[Delivery(q.entry)] = q.tail
        /\ j + 1 > 4 => disk'[QueueRef(q.tail)] = row
        /\ j + 1 > 5 => disk'[SessionCheckpoint(s)] = mark("committed")
    BY <1>10, <2>1
  <2> QED
    BY <1>9, <2>2 DEF WrittenTo, row, s, mark
<1> QED
  BY <1>7, <1>11, <1>12

\* The hook is at one of these five writes.
LEMMA RecoveryWritten ==
  ASSUME SpoolInv, Write, holder \in Deliveries, QueuePending, NEW j \in 1..5,
         todo = From(StageWrites(holder), j), WrittenTo(j)
  PROVE  SpoolInv'
<1>0. FilesTyped /\ QueueInv
  BY DEF SpoolInv, SpoolTypeOK
<1>1. PICK d \in Deliveries : d = holder
  OBVIOUS
<1>2. /\ disk' = [disk EXCEPT ![PendingCommit[j][1]] = PendingCommit[j][2]]
      /\ todo' = From(StageWrites(d), j + 1) /\ todo' # <<>> /\ holder' = d
      /\ at' = at /\ batch' = batch /\ outcome' = outcome /\ canonical' = canonical /\ staged' = staged
  <2>1. j \in 1..6 /\ j # 6
    OBVIOUS
  <2>2. /\ disk' = [disk EXCEPT ![PendingCommit[j][1]] = PendingCommit[j][2]]
        /\ todo' = From(StageWrites(d), j + 1)
        /\ todo' = <<>> <=> (j = 6 /\ Known(d))
        /\ holder' = (IF todo' = <<>> THEN Nil ELSE holder)
        /\ at' = at /\ batch' = batch /\ outcome' = outcome /\ canonical' = canonical
        /\ staged' = (IF todo' = <<>> /\ holder \in Deliveries THEN staged \cup {holder} ELSE staged)
    BY <1>1, <2>1, RecoveryStep
  <2> QED
    BY <1>1, <2>1, <2>2
<1>3. PendingFilesOnly /\ DrainFilesSame /\ DOMAIN disk' = Immutable \cup Derived /\ WrittenTo(j + 1)'
  BY <1>0, <1>2, PendingFileWritten
<1>4. FilesTyped' /\ QueueInv' /\ QueueGrows /\ QueuePending'
  BY <1>0, <1>3, PendingKept
<1>5. StageWrites(d)' = StageWrites(d)
  BY <1>0, <1>3, SameStageWrites
<1>6. StageTodo(holder, todo)'
  <2>1. j + 1 \in 1..6 /\ todo' = From(StageWrites(d)', j + 1)
    BY <1>2, <1>5
  <2>2. StageTodo(d, todo)'
    BY <1>3, <1>4, <2>1 DEF StageTodo
  <2> QED
    BY <1>2, <2>2
<1> QED
  BY <1>1, <1>2, <1>3, <1>4, <1>6, HookWrite

\* The last write of a commit: the pending entry joins the queue.
LEMMA CommitWritten ==
  ASSUME FilesTyped, QueueInv, QueuePending, WrittenTo(6), NEW q, q = disk[QueueState],
         disk' = [disk EXCEPT ![QueueState] = [tail |-> q.tail, entry |-> q.entry, before |-> q.before,
                                               body |-> q.body, state |-> "committed"]]
  PROVE  /\ FilesTyped' /\ QueueInv' /\ QueueGrows /\ DrainFilesSame /\ ~QueuePending'
         /\ TailSequence' = q.tail /\ LastQueued' = q.entry
         /\ \A s \in Sessions : disk'[SessionCheckpoint(s)] = disk[SessionCheckpoint(s)]
         /\ \A x \in Deliveries : /\ disk'[Event(x)] = disk[Event(x)] /\ disk'[Delivery(x)] = disk[Delivery(x)]
                                  /\ InQueue(x)' <=> InQueue(x) \/ x = q.entry
<1> DEFINE v == [tail |-> q.tail, entry |-> q.entry, before |-> q.before, body |-> q.body, state |-> "committed"]
           s0 == SessionOf[q.entry]
<1>1. /\ q.tail \in Positions /\ q.entry \in Deliveries
      /\ q.before \in Deliveries \cup {Nil} /\ q.body \in Bodies /\ s0 \in Sessions
      /\ Committed \in Nat /\ q.tail = Committed + 1
      /\ ~InQueue(q.entry) /\ q.before = (IF q.tail = 1 THEN Nil ELSE EntryAt(q.tail - 1))
      /\ EndsAt(s0, q.body.previous) /\ q.body.sequence = Cardinality(SessionQueue(s0)) + 1
  BY PendingType
<1>2. /\ disk[Event(q.entry)] = q.body /\ disk[Delivery(q.entry)] = q.tail
      /\ disk[QueueRef(q.tail)] = [entry |-> q.entry, previous |-> q.before]
      /\ disk[SessionCheckpoint(s0)] = [entry |-> q.entry, state |-> "committed"]
  BY DEF WrittenTo
<1>3. v \in QueueStates /\ v # Nil /\ v.state # "pending" /\ v.tail = q.tail /\ v.entry = q.entry
  <2>1. v \in QueueStates
    BY <1>1 DEF QueueStates
  <2> QED
    BY <2>1, SpoolSentinel
<1> HIDE DEF v, s0
<1>4. QueueState \in Immutable \cup Derived /\ QueueState[1] = "queue-state" /\ DOMAIN disk = Immutable \cup Derived
  BY FilesOfSpool, FileNames DEF FilesTyped
<1>5. DrainFilesSame /\ DOMAIN disk' = Immutable \cup Derived
  BY <1>4, QueueFileWritten DEF v
<1>6. /\ disk'[QueueState] = v
      /\ \A s \in Sessions : disk'[SessionCheckpoint(s)] = disk[SessionCheckpoint(s)]
      /\ \A x \in Deliveries : disk'[Event(x)] = disk[Event(x)] /\ disk'[Delivery(x)] = disk[Delivery(x)]
      /\ \A i \in Positions : disk'[QueueRef(i)] = disk[QueueRef(i)]
  BY <1>4, OneFileWritten, FilesOfSpool, FileNames DEF v
<1>7. FilesTyped'
  BY <1>3, <1>5, <1>6 DEF FilesTyped, DrainFilesSame, AttemptsSame, AcksSame, RecordsSame
<1>8. ~QueuePending' /\ TailSequence' = q.tail /\ Committed' = q.tail /\ LastQueued' = q.entry
  BY <1>3, <1>6 DEF QueuePending, TailSequence, Committed, LastQueued
<1>9. Committed' = Committed + 1 /\ 1..Committed' \subseteq Positions /\ 1..Committed \subseteq Positions
      /\ 1..Committed' = 1..Committed \cup {q.tail} /\ q.tail \notin 1..Committed
  BY <1>1, <1>8, PositionsAreNumbers DEF Positions
<1>10. \A i \in Positions : EntryAt(i)' = EntryAt(i)
  BY <1>6 DEF EntryAt
<1>11. EntryAt(q.tail) = q.entry
  BY <1>2 DEF EntryAt
<1>12. \A x \in Deliveries : InQueue(x)' <=> InQueue(x) \/ x = q.entry
  <2>1. SUFFICES ASSUME NEW x \in Deliveries PROVE InQueue(x)' <=> InQueue(x) \/ x = q.entry
    OBVIOUS
  <2>2. InQueue(x)' <=> disk[Delivery(x)] \in 1..Committed \cup {q.tail}
    BY <1>6, <1>9 DEF InQueue
  <2>3. CASE x = q.entry
    BY <1>2, <2>2, <2>3
  <2>4. CASE x # q.entry
    <3>1. ~InQueue(x) => disk[Delivery(x)] = Nil
      BY <2>4 DEF QueueInv, EntriesNamed
    <3>2. Nil \notin 1..Committed \cup {q.tail}
      BY <1>1, SpoolSentinel
    <3> QED
      BY <2>2, <2>4, <3>1, <3>2 DEF InQueue
  <2> QED
    BY <2>3, <2>4
<1>13. QueueGrows
  BY <1>1, <1>6, <1>9, <1>10, <1>12 DEF QueueGrows
<1>14. RowsLinked'
  <2>1. ASSUME NEW i \in 1..Committed'
        PROVE  /\ disk'[QueueRef(i)] # Nil
               /\ disk'[QueueRef(i)].previous = IF i = 1 THEN Nil ELSE EntryAt(i - 1)'
               /\ disk'[Delivery(EntryAt(i)')] = i
    <3>1. /\ i \in Positions /\ EntryAt(i)' = EntryAt(i) /\ disk'[QueueRef(i)] = disk[QueueRef(i)]
          /\ i # 1 => EntryAt(i - 1)' = EntryAt(i - 1)
      <4>1. i \in Positions /\ (i # 1 => i - 1 \in Positions)
        BY <1>1, <1>9
      <4> QED
        BY <1>6, <1>10, <4>1
    <3>2. CASE i = q.tail
      <4>1. [entry |-> q.entry, previous |-> q.before] \in QueueRefs
        BY <1>1 DEF QueueRefs
      <4>2. disk[QueueRef(i)] # Nil
        BY <1>2, <3>2, <4>1, SpoolSentinel
      <4> QED
        BY <1>1, <1>2, <1>6, <1>11, <3>1, <3>2, <4>2
    <3>3. CASE i \in 1..Committed
      <4>1. EntryAt(i) \in Deliveries
        BY <3>3, EntryType
      <4> QED
        BY <1>6, <3>1, <3>3, <4>1 DEF QueueInv, RowsLinked
    <3> QED
      BY <1>9, <3>2, <3>3
  <2> QED
    BY <2>1 DEF RowsLinked
<1>15. EntriesNamed'
  <2>1. ASSUME NEW x \in Deliveries, InQueue(x)'
        PROVE  disk'[Event(x)] # Nil /\ disk'[QueueRef(disk'[Delivery(x)])].entry = x
    <3>1. CASE x = q.entry
      BY <1>1, <1>2, <1>6, <3>1, SpoolSentinel
    <3>2. CASE InQueue(x)
      <4>1. disk[Event(x)] # Nil /\ disk[QueueRef(disk[Delivery(x)])].entry = x /\ disk[Delivery(x)] \in Positions
        BY <1>9, <3>2 DEF QueueInv, EntriesNamed, EntryAt, InQueue
      <4> QED
        BY <1>6, <4>1
    <3> QED
      BY <1>12, <2>1, <3>1, <3>2
  <2>2. ASSUME NEW x \in Deliveries, ~InQueue(x)'
        PROVE  disk'[Event(x)] = Nil /\ disk'[Delivery(x)] = Nil
    BY <1>6, <1>12, <2>2 DEF QueueInv, EntriesNamed
  <2> QED
    BY <1>8, <2>1, <2>2 DEF EntriesNamed, EntryAt
<1>16. RowsBounded'
  <2>1. ASSUME NEW i \in Positions, i > Committed' PROVE disk'[QueueRef(i)] = Nil
    <3>1. i > Committed /\ i # q.tail
      BY <1>1, <1>9, <2>1, PositionsAreNumbers
    <3> QED
      BY <1>6, <3>1 DEF QueueInv, RowsBounded
  <2> QED
    BY <1>8, <2>1 DEF RowsBounded
<1>17. StateAgrees'
  <2>1. disk'[QueueRef(q.tail)].entry = q.entry
    BY <1>1, <1>2, <1>6
  <2> QED
    BY <1>3, <1>6, <1>8, <2>1 DEF StateAgrees, EntryAt
<1>18. ASSUME NEW s \in Sessions
       PROVE  /\ SessionQueue(s)' = IF s = s0 THEN SessionQueue(s) \cup {q.entry} ELSE SessionQueue(s)
              /\ q.entry \notin SessionQueue(s) /\ SessionQueue(s) \subseteq Deliveries
              /\ IsFiniteSet(SessionQueue(s)) /\ Cardinality(SessionQueue(s)) \in Nat
              /\ Cardinality(SessionQueue(s)') = Cardinality(SessionQueue(s)) + (IF s = s0 THEN 1 ELSE 0)
  <2>1. SessionQueue(s)' = IF s = s0 THEN SessionQueue(s) \cup {q.entry} ELSE SessionQueue(s)
    BY <1>1, <1>12 DEF SessionQueue, s0
  <2>2. q.entry \notin SessionQueue(s) /\ SessionQueue(s) \subseteq Deliveries
    BY <1>1 DEF SessionQueue
  <2>3. IsFiniteSet(SessionQueue(s)) /\ Cardinality(SessionQueue(s)) \in Nat
    BY SessionQueueFinite
  <2>4. Cardinality(SessionQueue(s) \cup {q.entry}) = Cardinality(SessionQueue(s)) + 1
    BY <2>2, <2>3, FS_AddElement
  <2> QED
    BY <2>1, <2>2, <2>3, <2>4
<1>19. ASSUME NEW s \in Sessions, NEW x
       PROVE  s # s0 => (EndsAt(s, x)' <=> EndsAt(s, x))
  <2>1. SUFFICES ASSUME s # s0 PROVE EndsAt(s, x)' <=> EndsAt(s, x)
    OBVIOUS
  <2>2. SessionQueue(s)' = SessionQueue(s) /\ SessionQueue(s) \subseteq Deliveries
    BY <1>18, <2>1
  <2>3. x \in SessionQueue(s) => disk'[Event(x)] = disk[Event(x)]
    BY <1>6, <2>2
  <2> QED
    BY <2>2, <2>3 DEF EndsAt
<1>20. ChainsWhole'
  <2>1. ASSUME NEW s \in Sessions
        PROVE  {disk'[Event(d)].sequence : d \in SessionQueue(s)'} = 1..Cardinality(SessionQueue(s)')
    <3> DEFINE old == {disk[Event(d)].sequence : d \in SessionQueue(s)}
    <3>1. old = 1..Cardinality(SessionQueue(s))
      BY DEF QueueInv, ChainsWhole
    <3>2. {disk'[Event(d)].sequence : d \in SessionQueue(s)} = old
      BY <1>6, <1>18
    <3>3. CASE s = s0
      <4>1. SessionQueue(s)' = SessionQueue(s) \cup {q.entry} /\ Cardinality(SessionQueue(s)') = Cardinality(SessionQueue(s)) + 1
        BY <1>18, <3>3
      <4>2. {disk'[Event(d)].sequence : d \in SessionQueue(s) \cup {q.entry}} = old \cup {disk'[Event(q.entry)].sequence}
        BY <3>2
      <4>3. disk'[Event(q.entry)].sequence = Cardinality(SessionQueue(s)) + 1
        BY <1>1, <1>2, <1>6, <3>3
      <4>4. 1..Cardinality(SessionQueue(s)) \cup {Cardinality(SessionQueue(s)) + 1} = 1..(Cardinality(SessionQueue(s)) + 1)
        BY <1>18
      <4> HIDE DEF old
      <4> QED
        BY <3>1, <4>1, <4>2, <4>3, <4>4
    <3>4. CASE s # s0
      <4>1. SessionQueue(s)' = SessionQueue(s)
        BY <1>18, <3>4
      <4> QED
        BY <3>1, <3>2, <4>1
    <3> QED
      BY <3>3, <3>4
  <2>2. ASSUME NEW s \in Sessions, NEW d \in SessionQueue(s)', disk'[Event(d)].sequence > 1
        PROVE  /\ Predecessor(d)' \in SessionQueue(s)'
               /\ disk'[Event(Predecessor(d)')].sequence + 1 = disk'[Event(d)].sequence
    <3>1. CASE d \in SessionQueue(s)
      <4>1. d \in Deliveries /\ disk'[Event(d)] = disk[Event(d)]
        BY <1>6, <1>18, <3>1
      <4>2. /\ Predecessor(d) \in SessionQueue(s)
            /\ disk[Event(Predecessor(d))].sequence + 1 = disk[Event(d)].sequence
        BY <2>2, <3>1, <4>1 DEF QueueInv, ChainsWhole
      <4>3. Predecessor(d)' = Predecessor(d) /\ disk'[Event(Predecessor(d))] = disk[Event(Predecessor(d))]
        BY <1>6, <1>18, <4>1, <4>2 DEF Predecessor
      <4> QED
        BY <1>18, <4>1, <4>2, <4>3
    <3>2. CASE d \notin SessionQueue(s)
      <4>1. s = s0 /\ d = q.entry /\ SessionQueue(s)' = SessionQueue(s) \cup {q.entry}
        BY <1>18, <3>2
      <4>2. disk'[Event(d)] = q.body /\ q.body.sequence = Cardinality(SessionQueue(s)) + 1
        BY <1>1, <1>2, <1>6, <4>1
      <4>3. SessionQueue(s) # {}
        BY <1>18, <2>2, <4>2, FS_EmptySet
      <4>4. PICK y : y = q.body.previous
        OBVIOUS
      <4>5. y \in SessionQueue(s) /\ disk[Event(y)].sequence = Cardinality(SessionQueue(s))
        BY <1>1, <4>1, <4>3, <4>4 DEF EndsAt
      <4>6. Predecessor(d)' = y /\ disk'[Event(y)] = disk[Event(y)]
        BY <1>6, <1>18, <4>2, <4>4, <4>5 DEF Predecessor
      <4> QED
        BY <4>1, <4>2, <4>5, <4>6
    <3> QED
      BY <3>1, <3>2
  <2> QED
    BY <2>1, <2>2 DEF ChainsWhole
<1>21. ChainsEnd'
  <2>1. ASSUME NEW s \in Sessions
        PROVE  IF disk'[SessionCheckpoint(s)] = Nil THEN EndsAt(s, Nil)'
               ELSE disk'[SessionCheckpoint(s)].state = "committed" /\ EndsAt(s, disk[SessionCheckpoint(s)].entry)'
    <3>1. CASE s = s0
      <4>1. [entry |-> q.entry, state |-> "committed"] \in Checkpoints
        BY <1>1 DEF Checkpoints
      <4>2. /\ disk'[SessionCheckpoint(s)] # Nil /\ disk'[SessionCheckpoint(s)].state = "committed"
            /\ disk'[SessionCheckpoint(s)].entry = q.entry
        BY <1>1, <1>2, <1>6, <3>1, <4>1, SpoolSentinel
      <4>3. /\ SessionQueue(s)' # {} /\ q.entry \in SessionQueue(s)'
            /\ disk'[Event(q.entry)].sequence = Cardinality(SessionQueue(s)')
        BY <1>1, <1>2, <1>6, <1>18, <3>1
      <4> QED
        BY <4>2, <4>3 DEF EndsAt
    <3>2. CASE s # s0
      <4>1. IF disk[SessionCheckpoint(s)] = Nil THEN EndsAt(s, Nil)
            ELSE disk[SessionCheckpoint(s)].state = "committed" /\ EndsAt(s, disk[SessionCheckpoint(s)].entry)
        BY <3>2 DEF QueueInv, ChainsEnd, s0
      <4>2. PICK x : x = disk[SessionCheckpoint(s)].entry
        OBVIOUS
      <4>3. (EndsAt(s, Nil)' <=> EndsAt(s, Nil)) /\ (EndsAt(s, x)' <=> EndsAt(s, x))
        BY <1>19, <3>2
      <4> QED
        BY <1>6, <4>1, <4>2, <4>3 DEF EndsAt
    <3> QED
      BY <3>1, <3>2
  <2> QED
    BY <1>8, <2>1 DEF ChainsEnd
<1> QED
  BY <1>5, <1>6, <1>7, <1>8, <1>12, <1>13, <1>14, <1>15, <1>16, <1>17, <1>20, <1>21 DEF QueueInv

\* Once the pending entry is committed, a hook's own writes are what it decided.
LEMMA OwnWritesStay ==
  ASSUME FilesTyped, QueueInv, QueuePending, WrittenTo(6), NEW q, q = disk[QueueState], NEW d \in Deliveries, ~Known(d),
         ~QueuePending', TailSequence' = q.tail, LastQueued' = q.entry,
         \A s \in Sessions : disk'[SessionCheckpoint(s)] = disk[SessionCheckpoint(s)],
         \A x \in Deliveries : disk'[Event(x)] = disk[Event(x)] /\ disk'[Delivery(x)] = disk[Delivery(x)]
  PROVE  ~Known(d)' /\ OwnWrites(d)' = OwnWrites(d)
<1>1. q # Nil /\ q.entry \in Deliveries /\ TailSequence = q.tail /\ LastQueued = q.entry
  BY PendingType DEF LastQueued
<1>2. /\ disk[Event(q.entry)] = q.body
      /\ disk[SessionCheckpoint(SessionOf[q.entry])] = [entry |-> q.entry, state |-> "committed"]
      /\ [entry |-> q.entry, state |-> "committed"] # Nil
  <2>1. [entry |-> q.entry, state |-> "committed"] \in Checkpoints
    BY <1>1 DEF Checkpoints
  <2> QED
    BY <2>1, SpoolSentinel DEF WrittenTo
<1>3. ~Known(d)'
  BY DEF Known
<1>4. PICK s \in Sessions : s = SessionOf[d]
  BY SpoolAssumption
<1>5. PICK last : last = SessionTail(s)
  OBVIOUS
<1>6. SessionTail(s)' = last /\ last \in Deliveries \cup {Nil}
  <2>1. SessionTail(s)' = IF disk[SessionCheckpoint(s)] = Nil THEN Nil ELSE disk[SessionCheckpoint(s)].entry
    BY DEF SessionTail
  <2>2. CASE SessionOf[q.entry] = s
    BY <1>1, <1>2, <1>5, <2>1, <2>2 DEF SessionTail
  <2>3. CASE SessionOf[q.entry] # s
    BY <1>5, <2>1, <2>3 DEF SessionTail, FilesTyped, Checkpoints
  <2> QED
    BY <2>2, <2>3
<1>7. NextBody(d)' = NextBody(d)
  <2>1. NextBody(d)' = [sequence |-> IF last = Nil THEN 1 ELSE disk'[Event(last)].sequence + 1, previous |-> last]
    BY <1>4, <1>6 DEF NextBody
  <2>2. NextBody(d) = [sequence |-> IF last = Nil THEN 1
                                    ELSE (IF last = q.entry THEN q.body ELSE disk[Event(last)]).sequence + 1,
                       previous |-> last]
    BY <1>4, <1>5 DEF NextBody
  <2>3. last # Nil => disk'[Event(last)] = IF last = q.entry THEN q.body ELSE disk[Event(last)]
    BY <1>2, <1>6
  <2> QED
    BY <2>1, <2>2, <2>3
<1> QED
  BY <1>1, <1>3, <1>7 DEF OwnWrites

\* What a hook decides on while nothing is pending, is its own.
LEMMA OwnWritesOnly ==
  ASSUME NEW d, ~QueuePending, ~Known(d)
  PROVE  StageWrites(d) = OwnWrites(d) /\ IsList(OwnWrites(d), 7)
<1>1. RecoveryWrites = <<>> /\ IsList(<<>>, 0) /\ IsList(OwnWrites(d), 7)
  BY CommitList DEF RecoveryWrites, IsList, OwnWrites
<1>2. StageWrites(d) = Join(<<>>, OwnWrites(d))
  BY <1>1 DEF StageWrites, OwnWrites, Join
<1>3. PICK a, b : a = <<>> /\ b = OwnWrites(d)
  OBVIOUS
<1>4. PICK seven \in Nat : seven = 7
  OBVIOUS
<1>5. IsList(Join(a, b), 0 + seven) /\ \A i \in 1..seven : Join(a, b)[0 + i] = b[i]
  <2>1. IsList(a, 0) /\ IsList(b, seven) /\ 0 \in Nat
    BY <1>1, <1>3, <1>4
  <2> QED
    BY <2>1, ListsJoin
<1>6. Join(a, b) = b
  <2>1. IsList(Join(a, b), seven) /\ IsList(b, seven) /\ \A i \in 1..seven : Join(a, b)[i] = b[i]
    BY <1>1, <1>3, <1>4, <1>5
  <2> QED
    BY <2>1, ListsEqual
<1> QED
  BY <1>1, <1>2, <1>3, <1>6

OwnWritesDue == \A d : ~QueuePending /\ ~Known(d) => StageWrites(d) = OwnWrites(d) /\ IsList(OwnWrites(d), 7)

LEMMA OwnWritesDueNext == OwnWritesDue'
<1>1. OwnWritesDue
  BY OwnWritesOnly DEF OwnWritesDue
<1> QED
  BY <1>1, PTL

\* The hook commits the pending entry.
LEMMA RecoveryEnds ==
  ASSUME SpoolInv, Write, holder \in Deliveries, QueuePending, todo = From(StageWrites(holder), 6), WrittenTo(6)
  PROVE  SpoolInv'
<1>0. FilesTyped /\ QueueInv
  BY DEF SpoolInv, SpoolTypeOK
<1>1. PICK d \in Deliveries : d = holder
  OBVIOUS
<1>2. PICK q : q = disk[QueueState]
  OBVIOUS
<1>3. /\ disk' = [disk EXCEPT ![PendingCommit[6][1]] = PendingCommit[6][2]]
      /\ todo' = From(StageWrites(d), 6 + 1)
      /\ todo' = <<>> <=> (6 = 6 /\ Known(d))
      /\ holder' = (IF todo' = <<>> THEN Nil ELSE holder)
      /\ at' = at /\ batch' = batch /\ outcome' = outcome /\ canonical' = canonical
      /\ staged' = (IF todo' = <<>> /\ holder \in Deliveries THEN staged \cup {holder} ELSE staged)
  <2>1. 6 \in 1..6
    OBVIOUS
  <2> QED
    BY <1>1, <2>1, RecoveryStep
<1>4. disk' = [disk EXCEPT ![QueueState] = [tail |-> q.tail, entry |-> q.entry, before |-> q.before,
                                            body |-> q.body, state |-> "committed"]]
  BY <1>2, <1>3, PendingCommitWrites
<1>5. /\ FilesTyped' /\ QueueInv' /\ QueueGrows /\ DrainFilesSame /\ ~QueuePending'
      /\ TailSequence' = q.tail /\ LastQueued' = q.entry
      /\ \A s \in Sessions : disk'[SessionCheckpoint(s)] = disk[SessionCheckpoint(s)]
      /\ \A x \in Deliveries : /\ disk'[Event(x)] = disk[Event(x)] /\ disk'[Delivery(x)] = disk[Delivery(x)]
                               /\ InQueue(x)' <=> InQueue(x) \/ x = q.entry
  BY <1>0, <1>2, <1>4, CommitWritten
<1>6. CASE Known(d)
  <2>1. todo' = <<>> /\ holder' = Nil
    BY <1>3, <1>6
  <2>2. InQueue(d) \/ d = q.entry
    BY <1>0, <1>2, <1>6 DEF Known, QueueInv, EntriesNamed
  <2>3. InQueue(d)'
    BY <1>5, <2>2
  <2> QED
    BY <1>1, <1>3, <1>5, <2>1, <2>3, HookWrite
<1>7. CASE ~Known(d)
  <2>1. todo' # <<>> /\ holder' = d
    BY <1>1, <1>3, <1>7
  <2>2. ~Known(d)' /\ OwnWrites(d)' = OwnWrites(d)
    BY <1>0, <1>2, <1>5, <1>7, OwnWritesStay
  <2>3. StageWrites(d)' = OwnWrites(d)
    BY <1>5, <2>2, OwnWritesDueNext DEF OwnWritesDue
  <2>4. todo' = OwnWrites(d)
    <3>1. PICK n \in Nat, k \in Nat : n = 13 /\ k = 7 /\ k \in 1..(n + 1)
      OBVIOUS
    <3>2. IsList(StageWrites(d), n) /\ IsList(OwnWrites(d), 7) /\ \A i \in 1..7 : StageWrites(d)[i + 6] = OwnWrites(d)[i]
      BY <1>7, <3>1, RecoveryFirst
    <3>3. IsList(From(StageWrites(d), k), n - k + 1) /\ \A i \in 1..(n - k + 1) : From(StageWrites(d), k)[i] = StageWrites(d)[i + k - 1]
      BY <3>1, <3>2, FromList
    <3>4. IsList(todo', 7) /\ \A i \in 1..7 : todo'[i] = OwnWrites(d)[i]
      BY <1>3, <3>1, <3>2, <3>3
    <3> QED
      BY <3>2, <3>4, ListsEqual
  <2>5. StageTodo(d, todo)'
    BY <1>5, <2>2, <2>3, <2>4 DEF StageTodo
  <2>6. StageTodo(holder, todo)'
    BY <2>1, <2>5
  <2> QED
    BY <1>1, <1>3, <1>5, <2>1, <2>6, HookWrite
<1> QED
  BY <1>6, <1>7

\* The hook announces its delivery.
LEMMA AnnounceWritten ==
  ASSUME SpoolInv, Write, holder \in Deliveries, ~QueuePending, ~Known(holder), todo = StageWrites(holder)
  PROVE  SpoolInv'
<1>0. FilesTyped /\ QueueInv
  BY DEF SpoolInv, SpoolTypeOK
<1>1. PICK d \in Deliveries : d = holder
  OBVIOUS
<1>2. PICK n, before, body : n = TailSequence + 1 /\ before = LastQueued /\ body = NextBody(d)
  OBVIOUS
<1> DEFINE q == [tail |-> n, entry |-> d, before |-> before, body |-> body, state |-> "pending"]
           rest == CommitWrites(d, n, before, body)
<1>3. IsList(todo, 7) /\ todo = Join(<< <<QueueState, q>> >>, rest)
  BY <1>1, <1>2, OwnWritesOnly DEF OwnWrites, AppendWrites, Join
<1>4. IsList(rest, 6)
  BY CommitList
<1> HIDE DEF q, rest
<1>5. todo[1] = <<QueueState, q>> /\ \A i \in 1..6 : todo[1 + i] = rest[i]
  <2>0. PICK six \in Nat : six = 6
    OBVIOUS
  <2>1. PICK a, b : a = << <<QueueState, q>> >> /\ b = rest
    OBVIOUS
  <2>2. IsList(a, 1) /\ a[1] = <<QueueState, q>> /\ IsList(b, six) /\ 1 \in Nat
    BY <1>4, <2>0, <2>1 DEF IsList
  <2>3. (\A i \in 1..1 : Join(a, b)[i] = a[i]) /\ \A i \in 1..six : Join(a, b)[1 + i] = b[i]
    BY <2>2, ListsJoin
  <2> QED
    BY <1>3, <2>0, <2>1, <2>2, <2>3
<1>6. /\ disk' = [disk EXCEPT ![QueueState] = q]
      /\ IsList(todo', 6) /\ todo' # <<>> /\ (\A i \in 1..6 : todo'[i] = todo[i + 1]) /\ holder' = d
      /\ at' = at /\ batch' = batch /\ outcome' = outcome /\ canonical' = canonical /\ staged' = staged
  <2>1. todo[1][1] = QueueState /\ todo[1][2] = q
    BY <1>5
  <2>2. PICK seven \in Nat : seven = 7 /\ seven # 0
    OBVIOUS
  <2>3. /\ disk' = [disk EXCEPT ![todo[1][1]] = todo[1][2]]
        /\ IsList(todo', seven - 1) /\ (todo' = <<>> <=> seven = 1)
        /\ \A i \in 1..(seven - 1) : todo'[i] = todo[i + 1]
        /\ holder' = (IF todo' = <<>> THEN Nil ELSE holder)
        /\ at' = at /\ batch' = batch /\ outcome' = outcome /\ canonical' = canonical
        /\ staged' = (IF todo' = <<>> /\ holder \in Deliveries THEN staged \cup {holder} ELSE staged)
    BY <1>3, <2>2, WriteTakes
  <2> QED
    BY <1>1, <2>1, <2>2, <2>3
<1>7. /\ FilesTyped' /\ QueueInv' /\ QueueGrows /\ DrainFilesSame /\ QueuePending' /\ Known(d)'
      /\ disk'[QueueState] = q
  BY <1>0, <1>1, <1>2, <1>6, PendingWritten DEF q
<1>8. todo' = rest
  <2>1. \A i \in 1..6 : todo'[i] = rest[i]
    BY <1>5, <1>6
  <2> QED
    BY <1>4, <1>6, <2>1, ListsEqual
<1>9. StageWrites(d)' = rest
  <2>1. RecoveryWrites' = rest
    BY <1>7 DEF RecoveryWrites, rest, q
  <2>2. StageWrites(d)' = Join(rest, <<>>)
    BY <1>7, <2>1 DEF StageWrites, Join
  <2>0. PICK six \in Nat : six = 6
    OBVIOUS
  <2>3. PICK a, b : a = rest /\ b = <<>>
    OBVIOUS
  <2>4. IsList(a, six) /\ IsList(b, 0) /\ 0 \in Nat
    BY <1>4, <2>0, <2>3 DEF IsList
  <2>5. IsList(Join(a, b), six + 0) /\ \A i \in 1..six : Join(a, b)[i] = a[i]
    BY <2>4, ListsJoin
  <2>6. Join(a, b) = a
    BY <2>3, <2>4, <2>5, ListsEqual
  <2> QED
    BY <2>2, <2>3, <2>6
<1>10. StageTodo(d, todo)'
  <2>1. PICK six \in Nat, one \in Nat : six = 6 /\ one = 1 /\ one \in 1..(six + 1)
    OBVIOUS
  <2>2. From(rest, 1) = rest
    BY <1>4, <2>1, FromList
  <2>3. WrittenTo(1)'
    BY DEF WrittenTo
  <2>4. 1 \in 1..6 /\ todo' = From(StageWrites(d)', 1)
    BY <1>8, <1>9, <2>2
  <2> QED
    BY <1>7, <2>3, <2>4 DEF StageTodo
<1>11. StageTodo(holder, todo)'
  BY <1>6, <1>10
<1> QED
  BY <1>1, <1>6, <1>7, <1>11, HookWrite

LEMMA StageWritten ==
  ASSUME SpoolInv, Write, holder \in Deliveries
  PROVE  SpoolInv'
<1>1. StageTodo(holder, todo)
  BY DEF SpoolInv, TodoInv
<1>2. CASE ~QueuePending
  BY <1>1, <1>2, AnnounceWritten DEF StageTodo
<1>3. CASE QueuePending
  <2>1. PICK j \in 1..6 : todo = From(StageWrites(holder), j) /\ WrittenTo(j)
    BY <1>1, <1>3 DEF StageTodo
  <2>2. CASE j = 6
    BY <1>3, <2>1, <2>2, RecoveryEnds
  <2>3. CASE j # 6
    <3>1. j \in 1..5
      BY <2>3
    <3> QED
      BY <1>3, <2>1, <3>1, RecoveryWritten
  <2> QED
    BY <2>2, <2>3
<1> QED
  BY <1>2, <1>3

LEMMA WriteKeeps == ASSUME SpoolInv, Write PROVE SpoolInv'
<1>1. holder \in Drainers \/ holder \in Deliveries
  BY DEF SpoolInv, SpoolTypeOK, Write
<1>2. CASE holder \in Deliveries
  BY <1>2, StageWritten
<1>3. CASE holder \in Drainers
  BY <1>3, AdvanceWritten, AckWritten, AttemptWritten DEF SpoolInv, TodoInv
<1> QED
  BY <1>1, <1>2, <1>3

-----------------------------------------------------------------------------
(* The invariant *)

\* An empty spool.
LEMMA SpoolStarts == SpoolInit => SpoolInv
<1> SUFFICES ASSUME SpoolInit PROVE SpoolInv
  OBVIOUS
<1>1. \A f \in Immutable \cup Derived : disk[f] = Nil
  BY DEF SpoolInit
<1>2. /\ disk[QueueState] = Nil /\ disk[Cursor] = Nil
      /\ \A s \in Sessions : disk[SessionCheckpoint(s)] = Nil
      /\ \A d \in Deliveries : /\ disk[Event(d)] = Nil /\ disk[Delivery(d)] = Nil
                               /\ disk[AttemptState(d)] = Nil /\ disk[AckFile(d)] = Nil
                               /\ \A k \in Keys : disk[Attempt(d, k)] = Nil
      /\ \A n \in Positions : disk[QueueRef(n)] = Nil /\ disk[CursorRecord(n)] = Nil
  BY <1>1, FilesOfSpool
<1>3. FilesTyped
  BY <1>2 DEF FilesTyped, SpoolInit
<1>4. SpoolTypeOK
  BY <1>3, SpoolProcesses DEF SpoolTypeOK, SpoolInit, Keys
<1>5. Committed = 0 /\ CursorAt = 0 /\ ~QueuePending
  BY <1>2 DEF Committed, CursorAt, QueuePending
<1>6. (\A d \in Deliveries : ~InQueue(d)) /\ \A s : SessionQueue(s) = {}
  BY <1>5 DEF InQueue, SessionQueue
<1>7. QueueInv
  <2>1. RowsLinked /\ EntriesNamed /\ RowsBounded /\ StateAgrees
    BY <1>2, <1>5, <1>6 DEF RowsLinked, EntriesNamed, RowsBounded, StateAgrees
  <2>2. ASSUME NEW s \in Sessions
        PROVE  /\ {disk[Event(d)].sequence : d \in SessionQueue(s)} = 1..Cardinality(SessionQueue(s))
               /\ EndsAt(s, Nil)
    BY <1>6, FS_EmptySet DEF EndsAt
  <2> QED
    BY <1>2, <1>5, <1>6, <2>1, <2>2 DEF QueueInv, ChainsWhole, ChainsEnd
<1>8. DrainInv
  BY <1>2, <1>5 DEF DrainInv, AttemptsTrue, AcksTrue, CursorTrue, Acked
<1>9. TodoInv /\ BatchInv /\ StagedInv
  BY <1>4, SpoolProcesses DEF SpoolInit, TodoInv, BatchInv, StagedInv
<1> QED
  BY <1>4, <1>7, <1>8, <1>9 DEF SpoolInv

LEMMA SpoolIdles == ASSUME SpoolInv, UNCHANGED spoolVars PROVE SpoolInv'
<1> USE DEF spoolVars
<1>1. FilesTyped' /\ QueueInv' /\ DrainInv' /\ Committed' = Committed
  BY DiskSame DEF SpoolInv, SpoolTypeOK
<1>2. SpoolTypeOK'
  BY <1>1 DEF SpoolInv, SpoolTypeOK
<1>3. TodoInv'
  BY TodoSame DEF SpoolInv, TodoInv
<1>4. BatchInv' /\ StagedInv'
  BY <1>1 DEF SpoolInv, BatchInv, StagedInv, CurrentEntry, InQueue
<1> QED
  BY <1>1, <1>2, <1>3, <1>4 DEF SpoolInv

LEMMA SpoolSteps == SpoolInv /\ [SpoolNext]_spoolVars => SpoolInv'
<1> SUFFICES ASSUME SpoolInv, [SpoolNext]_spoolVars PROVE SpoolInv'
  OBVIOUS
<1>1. CASE Write
  BY <1>1, WriteKeeps
<1>2. CASE Crash
  BY <1>2, CrashKeeps
<1>3. ASSUME NEW d \in Deliveries, Stage(d) PROVE SpoolInv'
  BY <1>3, StageKeeps
<1>4. ASSUME NEW p \in Drainers, DrainStep(p) \/ Abort(p) \/ \E f \in Failures : DeliverRaises(p, f)
      PROVE  SpoolInv'
  BY <1>4, BeginDrainKeeps, SelectKeeps, DeliveryKeeps, RecordKeeps, AcknowledgeKeeps, AbortKeeps DEF DrainStep
<1>5. CASE UNCHANGED spoolVars
  BY <1>5, SpoolIdles
<1> QED
  BY <1>1, <1>2, <1>3, <1>4, <1>5 DEF SpoolNext

\* What the files mean, and what the owner of the lock has still to write, agree
\* after every step of hooks and drainers and every death.
THEOREM SpoolStaysMeaningful == SpoolSpec => []SpoolInv
BY SpoolStarts, SpoolSteps, PTL DEF SpoolSpec

\* Every file of the spool keeps the content of its kind, the lock has an owner
\* as long as something is to be written, and drainers handle known positions.
THEOREM SpoolTypes == SpoolSpec => []SpoolTypeOK
<1>1. SpoolInv => SpoolTypeOK
  BY DEF SpoolInv
<1> QED
  BY <1>1, SpoolStaysMeaningful, PTL

-----------------------------------------------------------------------------
(* Acknowledgements and the cursor *)

\* An acknowledgement is proof: _acknowledge_verified_receipt is reached only
\* behind a completed attempt of an event the ledger has, in the order of the
\* session, whatever died in between.
THEOREM AcknowledgementIsProof == SpoolSpec => []AckIsProof
<1>1. SpoolInv => AckIsProof
  <2> SUFFICES ASSUME SpoolInv, NEW d \in Deliveries, Acked(d)
               PROVE  /\ d \in canonical /\ Disposition(d) = "completed"
                      /\ Predecessor(d) # Nil => Acked(Predecessor(d))
    BY DEF AckIsProof
  <2>1. Disposition(d) = "completed" /\ (Predecessor(d) # Nil => Acked(Predecessor(d)))
    BY DEF SpoolInv, DrainInv, AcksTrue
  <2>2. disk[AttemptState(d)] # Nil /\ disk[AttemptState(d)].disposition = "completed"
    BY <2>1, SpoolSentinel DEF Disposition
  <2>3. PICK k \in Keys : k = disk[AttemptState(d)].latest
    BY <2>2 DEF SpoolInv, SpoolTypeOK, FilesTyped, AttemptStates
  <2>4. disk[Attempt(d, k)] # Nil /\ disk[AttemptState(d)] = StateOf(k, disk[Attempt(d, k)])
    BY <2>2, <2>3 DEF SpoolInv, DrainInv, AttemptsTrue
  <2>5. disk[Attempt(d, k)].disposition = "completed"
    BY <2>2, <2>4 DEF StateOf
  <2>6. d \in canonical
    BY <2>4, <2>5 DEF SpoolInv, DrainInv, AttemptsTrue
  <2> QED
    BY <2>1, <2>6
<1> QED
  BY <1>1, SpoolStaysMeaningful, PTL

\* The drain cursor of _advance_drain_cursor stands behind resolved entries
\* only, and its records say how each of them was resolved.
THEOREM CursorStandsBehindResolved == SpoolSpec => []CursorIsResolved
<1>1. SpoolInv => CursorIsResolved
  <2> SUFFICES ASSUME SpoolInv, NEW n \in 1..CursorAt
               PROVE  LET d == disk[QueueRef(n)].entry IN
                      /\ Resolved(d)
                      /\ disk[CursorRecord(n)] =
                           [entry |-> d, disposition |-> IF Acked(d) THEN "acknowledged" ELSE "manual-review"]
    BY DEF CursorIsResolved
  <2>1. n \in Positions
    <3>1. CursorAt \in Nat /\ CursorAt <= Cardinality(Deliveries)
      BY CommittedType DEF SpoolInv, SpoolTypeOK
    <3> QED
      BY <3>1, PositionsAreNumbers DEF Positions
  <2>2. Resolved(EntryAt(n)) /\ disk[CursorRecord(n)] = RecordOf({}, n)
    BY <2>1 DEF SpoolInv, DrainInv, CursorTrue
  <2> QED
    BY <2>2 DEF EntryAt, RecordOf
<1> QED
  BY <1>1, SpoolStaysMeaningful, PTL

-----------------------------------------------------------------------------
(* Consistency of the files *)

\* Write w finds no other content in a file that is written once.
NoClash(w) == w[1] \in Immutable => disk[w[1]] \in {Nil, w[2]}

LEMMA DerivedFiles ==
  /\ QueueState \notin Immutable /\ Cursor \notin Immutable
  /\ \A s : SessionCheckpoint(s) \notin Immutable
  /\ \A d : AttemptState(d) \notin Immutable
  /\ \A n : QueueRef(n) \in Immutable \/ CursorRecord(n) \in Immutable => n \in Positions
BY FileNames DEF Immutable

LEMMA CommitIsSafe ==
  ASSUME NEW d, NEW n, NEW before, NEW body, disk[Event(d)] \in {Nil, body}, disk[Delivery(d)] \in {Nil, n},
         n \in Positions => disk[QueueRef(n)] \in {Nil, [entry |-> d, previous |-> before]}
  PROVE  \A i \in 1..6 : NoClash(CommitWrites(d, n, before, body)[i])
<1> DEFINE ws == CommitWrites(d, n, before, body)
<1>1. /\ ws[1][1] = SessionCheckpoint(SessionOf[d])
      /\ ws[2] = <<Event(d), body>> /\ ws[3] = <<Delivery(d), n>>
      /\ ws[4] = <<QueueRef(n), [entry |-> d, previous |-> before]>>
      /\ ws[5][1] = SessionCheckpoint(SessionOf[d]) /\ ws[6][1] = QueueState
  BY DEF CommitWrites
<1> HIDE DEF ws
<1>2. NoClash(ws[1]) /\ NoClash(ws[5]) /\ NoClash(ws[6])
  BY <1>1, DerivedFiles DEF NoClash
<1>3. NoClash(ws[2]) /\ NoClash(ws[3]) /\ NoClash(ws[4])
  BY <1>1, DerivedFiles DEF NoClash
<1>4. \A i \in 1..6 : i = 1 \/ i = 2 \/ i = 3 \/ i = 4 \/ i = 5 \/ i = 6
  OBVIOUS
<1> QED
  BY <1>2, <1>3, <1>4 DEF ws

\* A pending entry is completed by anyone, over what its files already say.
LEMMA RecoveryIsSafe ==
  ASSUME FilesTyped, QueueInv, QueuePending
  PROVE  \A i \in 1..6 : NoClash(PendingCommit[i])
<1>1. PICK q : q = disk[QueueState]
  OBVIOUS
<1>2. /\ disk[Event(q.entry)] \in {Nil, q.body} /\ disk[Delivery(q.entry)] \in {Nil, q.tail}
      /\ q.tail \in Positions /\ q.tail = Committed + 1 /\ Committed \in Nat
  BY <1>1, PendingType
<1>3. disk[QueueRef(q.tail)] \in {Nil, [entry |-> q.entry, previous |-> q.before]}
  BY <1>1, <1>2 DEF QueueInv, RowsBounded
<1> QED
  BY <1>1, <1>2, <1>3, CommitIsSafe DEF PendingCommit

\* A delivery that nobody knows has no files, nor has the position it gets.
LEMMA OwnWritesAreSafe ==
  ASSUME FilesTyped, QueueInv, NEW d \in Deliveries, ~Known(d)
  PROVE  \A i \in 1..7 : NoClash(OwnWrites(d)[i])
<1>1. PICK n, before, body : n = TailSequence + 1 /\ before = LastQueued /\ body = NextBody(d)
  OBVIOUS
<1>2. disk[Delivery(d)] = Nil /\ ~InQueue(d) /\ disk[Event(d)] = Nil
  <2>1. disk[Delivery(d)] = Nil /\ ~(QueuePending /\ disk[QueueState].entry = d)
    BY DEF Known
  <2>2. ~InQueue(d)
    BY <2>1, SpoolSentinel, CommittedType DEF InQueue
  <2> QED
    BY <2>1, <2>2 DEF QueueInv, EntriesNamed
<1>3. n \in Positions => disk[QueueRef(n)] = Nil
  <2>1. n > Committed /\ ~(QueuePending /\ n = disk[QueueState].tail)
    BY <1>1, CommittedType DEF QueuePending
  <2> QED
    BY <2>1 DEF QueueInv, RowsBounded
<1>4. \A i \in 1..6 : NoClash(CommitWrites(d, n, before, body)[i])
  BY <1>2, <1>3, CommitIsSafe
<1> DEFINE rest == CommitWrites(d, n, before, body)
           first == <<QueueState, [tail |-> n, entry |-> d, before |-> before, body |-> body, state |-> "pending"]>>
<1>5. OwnWrites(d) = Join(<<first>>, rest)
  BY <1>1 DEF OwnWrites, AppendWrites, Join
<1>6. IsList(rest, 6) /\ NoClash(first)
  BY CommitList, DerivedFiles DEF NoClash
<1> HIDE DEF rest, first
<1>7. PICK six \in Nat : six = 6
  OBVIOUS
<1>8. PICK a, b : a = <<first>> /\ b = rest
  OBVIOUS
<1>9. IsList(a, 1) /\ a[1] = first /\ IsList(b, six) /\ 1 \in Nat
  BY <1>6, <1>7, <1>8 DEF IsList
<1>10. (\A i \in 1..1 : Join(a, b)[i] = a[i]) /\ \A i \in 1..six : Join(a, b)[1 + i] = b[i]
  BY <1>9, ListsJoin
<1>11. \A i \in 1..6 : NoClash(rest[i])
  BY <1>4 DEF rest
<1>12. ASSUME NEW i \in 1..7 PROVE NoClash(OwnWrites(d)[i])
  <2>1. CASE i = 1
    BY <1>5, <1>6, <1>8, <1>9, <1>10, <2>1
  <2>2. CASE i # 1
    <3>1. i - 1 \in 1..six /\ 1 + (i - 1) = i /\ i - 1 \in 1..6
      BY <1>7, <2>2
    <3>2. Join(a, b)[i] = b[i - 1]
      BY <1>10, <3>1
    <3> QED
      BY <1>5, <1>8, <1>11, <3>1, <3>2
  <2> QED
    BY <2>1, <2>2
<1> QED
  BY <1>12

LEMMA StageIsSafe ==
  ASSUME FilesTyped, QueueInv, NEW d \in Deliveries, StageTodo(d, todo)
  PROVE  NoCollision
<1>1. CASE ~QueuePending
  <2>1. ~Known(d) /\ todo = OwnWrites(d) /\ IsList(todo, 7)
    BY <1>1, OwnWritesOnly DEF StageTodo
  <2>2. DOMAIN todo = 1..7
    BY <2>1 DEF IsList
  <2> QED
    BY <2>1, <2>2, OwnWritesAreSafe DEF NoCollision, NoClash
<1>2. CASE QueuePending
  <2>1. PICK j \in 1..6 : todo = From(StageWrites(d), j)
    BY <1>2 DEF StageTodo
  <2>2. PICK n \in {6, 13} : /\ n = IF Known(d) THEN 6 ELSE 13
                             /\ IsList(StageWrites(d), n)
    BY <1>2, RecoveryFirst
  <2>3. n \in Nat /\ j \in 1..(n + 1)
    BY <2>2
  <2>4. /\ IsList(todo, n - j + 1)
        /\ \A i \in 1..(n - j + 1) : todo[i] = StageWrites(d)[i + j - 1]
    BY <2>1, <2>2, <2>3, FromList
  <2>5. ASSUME NEW m \in 1..n PROVE NoClash(StageWrites(d)[m])
    <3>1. CASE m <= 6
      BY <1>2, <2>2, <3>1, RecoveryFirst, RecoveryIsSafe
    <3>2. CASE m > 6
      <4>1. ~Known(d) /\ m - 6 \in 1..7 /\ (m - 6) + 6 = m
        BY <2>2, <3>2
      <4>2. StageWrites(d)[m] = OwnWrites(d)[m - 6]
        BY <1>2, <4>1, RecoveryFirst
      <4> QED
        BY <4>1, <4>2, OwnWritesAreSafe
    <3> QED
      BY <2>2, <3>1, <3>2
  <2>6. ASSUME NEW i \in DOMAIN todo PROVE NoClash(todo[i])
    <3>1. i \in 1..(n - j + 1)
      BY <2>4 DEF IsList
    <3>2. i + j - 1 \in 1..n
      BY <2>3, <3>1
    <3> QED
      BY <2>4, <2>5, <3>1, <3>2
  <2> QED
    BY <2>6 DEF NoCollision, NoClash
<1> QED
  BY <1>1, <1>2

\* A record that a drain writes again says what it said.
LEMMA RecordIsSafe ==
  ASSUME FilesTyped, DrainInv, NEW A, NEW n, n \in Positions =>
           \A d \in A : EntryAt(n) = d => ~Acked(d) /\ Disposition(d) = "completed"
  PROVE  NoClash(<<CursorRecord(n), RecordOf(A, n)>>)
<1> SUFFICES ASSUME CursorRecord(n) \in Immutable, disk[CursorRecord(n)] # Nil
             PROVE  disk[CursorRecord(n)] = RecordOf(A, n)
  BY DEF NoClash
<1>1. n \in Positions
  BY DerivedFiles
<1>2. Resolved(EntryAt(n)) /\ disk[CursorRecord(n)] = RecordOf({}, n)
  BY <1>1 DEF DrainInv, CursorTrue
<1>3. EntryAt(n) \notin A
  BY <1>1, <1>2 DEF Resolved
<1> QED
  BY <1>2, <1>3 DEF RecordOf, EntryAt

LEMMA AdvanceWriteIsSafe ==
  ASSUME FilesTyped, DrainInv, NEW A, NEW i,
         \A d \in A : ~Acked(d) /\ Disposition(d) = "completed"
  PROVE  NoClash(AdvanceWrite(A, i))
<1>1. PICK n : n = CursorAt + (i + 1) \div 2
  OBVIOUS
<1>2. AdvanceWrite(A, i) = <<CursorRecord(n), RecordOf(A, n)>> \/ AdvanceWrite(A, i) = <<Cursor, n>>
  BY <1>1 DEF AdvanceWrite
<1>3. NoClash(<<CursorRecord(n), RecordOf(A, n)>>)
  BY RecordIsSafe
<1>4. NoClash(<<Cursor, n>>)
  BY DerivedFiles DEF NoClash
<1> QED
  BY <1>2, <1>3, <1>4

LEMMA DrainIsSafe ==
  ASSUME FilesTyped, DrainInv, AdvanceTodo(todo) \/ AckTodo(todo) \/ AttemptTodo(todo)
  PROVE  NoCollision
<1>1. CASE AdvanceTodo(todo)
  <2>1. PICK m, half : todo = [i \in 1..(2 * (m - CursorAt) - half) |-> AdvanceWrite({}, i + half)]
    BY <1>1 DEF AdvanceTodo
  <2>2. \A i : NoClash(AdvanceWrite({}, i))
    BY AdvanceWriteIsSafe
  <2>3. \A i \in DOMAIN todo : NoClash(todo[i])
    BY <2>1, <2>2
  <2> QED
    BY <2>3 DEF NoCollision, NoClash
<1>2. CASE AckTodo(todo)
  <2>1. PICK d \in Deliveries, m \in CursorAt..Committed :
          /\ ~Acked(d) /\ AckAdmissible(d)
          /\ todo = [i \in 1..(1 + 2 * (m - CursorAt)) |->
                       IF i = 1 THEN <<AckFile(d), "completed">> ELSE AdvanceWrite({d}, i - 1)]
    BY <1>2 DEF AckTodo
  <2>2. \A i : NoClash(AdvanceWrite({d}, i))
    BY <2>1, AdvanceWriteIsSafe DEF AckAdmissible
  <2>3. NoClash(<<AckFile(d), "completed">>)
    BY <2>1 DEF NoClash, Acked
  <2>4. \A i \in DOMAIN todo : NoClash(todo[i])
    BY <2>1, <2>2, <2>3
  <2> QED
    BY <2>4 DEF NoCollision, NoClash
<1>3. CASE AttemptTodo(todo)
  <2>1. PICK d \in Deliveries, k \in Keys :
          \/ /\ disk[Attempt(d, k)] = Nil
             /\ todo = << <<Attempt(d, k), NewAttempt(d, k)>>, <<AttemptState(d), StateOf(k, NewAttempt(d, k))>> >>
          \/ todo = << <<AttemptState(d), StateOf(k, disk[Attempt(d, k)])>> >>
    BY <1>3 DEF AttemptTodo
  <2>2. \A x : NoClash(<<AttemptState(d), x>>)
    BY DerivedFiles DEF NoClash
  <2>3. \A x : disk[Attempt(d, k)] = Nil => NoClash(<<Attempt(d, k), x>>)
    BY DEF NoClash
  <2>4. \A i \in DOMAIN todo : NoClash(todo[i])
    BY <2>1, <2>2, <2>3
  <2> QED
    BY <2>4 DEF NoCollision, NoClash
<1> QED
  BY <1>1, <1>2, <1>3

LEMMA WritesAreSafe == ASSUME SpoolInv PROVE NoCollision
<1>1. CASE holder \in Deliveries
  BY <1>1, StageIsSafe DEF SpoolInv, SpoolTypeOK, TodoInv
<1>2. CASE holder \in Drainers
  BY <1>2, DrainIsSafe DEF SpoolInv, SpoolTypeOK, TodoInv
<1>3. CASE holder = Nil
  <2>1. DOMAIN todo = {}
    BY <1>3 DEF SpoolInv, SpoolTypeOK
  <2> QED
    BY <2>1 DEF NoCollision
<1> QED
  BY <1>1, <1>2, <1>3 DEF SpoolInv, SpoolTypeOK

LEMMA CommittedReads == ASSUME FilesTyped, QueueInv PROVE CommittedIsReadable
<1> SUFFICES ASSUME disk[QueueState] # Nil, ~QueuePending PROVE CommittedIsReadable
  BY DEF CommittedIsReadable
<1>1. TailSequence = Committed
  BY CommittedType
<1>2. ASSUME NEW n \in 1..TailSequence
      PROVE  LET r == disk[QueueRef(n)] IN
             /\ r # Nil
             /\ r.previous = IF n = 1 THEN Nil ELSE disk[QueueRef(n - 1)].entry
             /\ disk[Delivery(r.entry)] = n
             /\ disk[Event(r.entry)] # Nil
  <2>1. EntryAt(n) \in Deliveries /\ InQueue(EntryAt(n))
    BY <1>1, EntryType
  <2>2. disk[Event(EntryAt(n))] # Nil
    BY <2>1 DEF QueueInv, EntriesNamed
  <2> QED
    BY <1>1, <2>2 DEF QueueInv, RowsLinked, EntryAt
<1>3. \A d \in Deliveries : disk[Event(d)] # Nil <=> InQueue(d)
  BY DEF QueueInv, EntriesNamed
<1>4. \A s : {d \in Deliveries : disk[Event(d)] # Nil /\ SessionOf[d] = s} = SessionQueue(s)
  BY <1>3 DEF SessionQueue
<1>5. ASSUME NEW s \in Sessions
      PROVE  LET chain == {d \in Deliveries : disk[Event(d)] # Nil /\ SessionOf[d] = s}
                 last == disk[SessionCheckpoint(s)]
             IN
             /\ chain \subseteq Queued
             /\ {disk[Event(d)].sequence : d \in chain} = 1..Cardinality(chain)
             /\ \A d \in chain : disk[Event(d)].sequence > 1 =>
                  /\ Predecessor(d) \in chain
                  /\ disk[Event(Predecessor(d))].sequence + 1 = disk[Event(d)].sequence
             /\ chain # {} =>
                  last.state = "committed" /\ disk[Event(last.entry)].sequence = Cardinality(chain)
  <2>1. SessionQueue(s) \subseteq Queued
    <3>1. ASSUME NEW d \in SessionQueue(s) PROVE d \in Queued
      <4>1. d \in Deliveries /\ InQueue(d)
        BY DEF SessionQueue
      <4>2. disk[Delivery(d)] \in 1..TailSequence /\ EntryAt(disk[Delivery(d)]) = d
        BY <1>1, <4>1, EntryType
      <4> QED
        BY <4>2 DEF Queued, EntryAt
    <3> QED
      BY <3>1
  <2>2. SessionQueue(s) # {} =>
          /\ disk[SessionCheckpoint(s)].state = "committed"
          /\ disk[Event(disk[SessionCheckpoint(s)].entry)].sequence = Cardinality(SessionQueue(s))
    <3>1. Nil \notin SessionQueue(s)
      BY SpoolProcesses DEF SessionQueue
    <3> QED
      BY <3>1 DEF QueueInv, ChainsEnd, EndsAt
  <2> QED
    BY <1>4, <2>1, <2>2 DEF QueueInv, ChainsWhole
<1> QED
  BY <1>2, <1>5 DEF CommittedIsReadable

\* A crash between any two files, and a reader without the lock, find the spool
\* consistent: no immutable file is written twice with different contents, a
\* committed queue state is backed by whole chains, and what stage() answered
\* for is in the queue.
THEOREM SpoolStaysConsistent == SpoolSpec => []SpoolIsConsistent
<1>1. SpoolInv => SpoolIsConsistent
  <2> SUFFICES ASSUME SpoolInv PROVE NoCollision /\ CommittedIsReadable /\ StagedIsKept
    BY DEF SpoolIsConsistent
  <2>1. NoCollision
    BY WritesAreSafe
  <2>2. CommittedIsReadable
    BY CommittedReads DEF SpoolInv, SpoolTypeOK
  <2>3. StagedIsKept
    <3> SUFFICES ASSUME NEW d \in staged
                 PROVE  /\ disk[Delivery(d)] # Nil /\ disk[Event(d)] # Nil
                        /\ disk[QueueRef(disk[Delivery(d)])].entry = d
      BY DEF StagedIsKept
    <3>1. d \in Deliveries /\ InQueue(d)
      BY DEF SpoolInv, SpoolTypeOK, StagedInv
    <3>2. disk[Delivery(d)] \in 1..Committed /\ disk[Event(d)] # Nil /\ EntryAt(disk[Delivery(d)]) = d
      BY <3>1 DEF SpoolInv, QueueInv, EntriesNamed, InQueue
    <3> QED
      BY <3>2, SpoolSentinel DEF EntryAt
  <2> QED
    BY <2>1, <2>2, <2>3
<1> QED
  BY <1>1, SpoolStaysMeaningful, PTL

-----------------------------------------------------------------------------
(* Attempts *)

LEMMA OtherFileWritten ==
  ASSUME FilesTyped, Write, NEW n \in Nat, n # 0, IsList(todo, n), todo[1][1][1] # "attempt-state"
  PROVE  \A x \in Deliveries : disk'[AttemptState(x)] = disk[AttemptState(x)]
<1>1. disk' = [disk EXCEPT ![todo[1][1]] = todo[1][2]]
  BY WriteTakes
<1>2. \A x \in Deliveries : AttemptState(x) \in DOMAIN disk /\ AttemptState(x) # todo[1][1]
  BY FilesOfSpool, FileNames DEF FilesTyped
<1> QED
  BY <1>1, <1>2

LEMMA HooksLeaveAttempts ==
  ASSUME SpoolInv, Write, holder \in Deliveries
  PROVE  \A x \in Deliveries : disk'[AttemptState(x)] = disk[AttemptState(x)]
<1>0. FilesTyped /\ QueueInv /\ StageTodo(holder, todo)
  BY DEF SpoolInv, SpoolTypeOK, TodoInv
<1>1. CASE ~QueuePending
  <2>1. ~Known(holder) /\ todo = OwnWrites(holder) /\ IsList(todo, 7)
    BY <1>0, <1>1, OwnWritesOnly DEF StageTodo
  <2>2. PICK n, before, body : n = TailSequence + 1 /\ before = LastQueued /\ body = NextBody(holder)
    OBVIOUS
  <2> DEFINE rest == CommitWrites(holder, n, before, body)
             first == <<QueueState, [tail |-> n, entry |-> holder, before |-> before, body |-> body, state |-> "pending"]>>
  <2>3. todo = Join(<<first>>, rest) /\ IsList(rest, 6) /\ first[1] = QueueState
    BY <2>1, <2>2, CommitList DEF OwnWrites, AppendWrites, Join
  <2> HIDE DEF rest, first
  <2>4. PICK six \in Nat : six = 6
    OBVIOUS
  <2>5. PICK a, b : a = <<first>> /\ b = rest
    OBVIOUS
  <2>6. IsList(a, 1) /\ a[1] = first /\ IsList(b, six) /\ 1 \in Nat
    BY <2>3, <2>4, <2>5 DEF IsList
  <2>7. \A i \in 1..1 : Join(a, b)[i] = a[i]
    BY <2>6, ListsJoin
  <2>8. todo[1][1] = QueueState
    BY <2>3, <2>5, <2>6, <2>7
  <2>9. PICK seven \in Nat : seven = 7 /\ seven # 0
    OBVIOUS
  <2>10. IsList(todo, seven) /\ todo[1][1][1] # "attempt-state"
    BY <2>1, <2>8, <2>9, FileNames
  <2> QED
    BY <1>0, <2>9, <2>10, OtherFileWritten
<1>2. CASE QueuePending
  <2>1. PICK j \in 1..6 : todo = From(StageWrites(holder), j)
    BY <1>0, <1>2 DEF StageTodo
  <2>2. PICK w : w = PendingCommit[j]
    OBVIOUS
  <2>3. disk' = [disk EXCEPT ![w[1]] = w[2]]
    BY <1>2, <2>1, <2>2, RecoveryStep
  <2>4. w[1][1] # "attempt-state"
    <3>1. PICK q : q = disk[QueueState]
      OBVIOUS
    <3>2. \A i \in 1..6 : PendingCommit[i][1] \in {QueueState, SessionCheckpoint(SessionOf[q.entry]), Event(q.entry),
                                                   Delivery(q.entry), QueueRef(q.tail)}
      BY <3>1 DEF PendingCommit, CommitWrites
    <3> QED
      BY <2>2, <3>2, FileNames
  <2>5. \A x \in Deliveries : AttemptState(x) \in DOMAIN disk /\ AttemptState(x) # w[1]
    BY <1>0, <2>4, FilesOfSpool, FileNames DEF FilesTyped
  <2> QED
    BY <2>3, <2>5
<1> QED
  BY <1>1, <1>2

\* An attempt state follows the attempt that comes next, of an entry that is not
\* terminal.
LEMMA AttemptStateMoves ==
  ASSUME SpoolInv, Write
  PROVE  \/ \A x \in Deliveries : disk'[AttemptState(x)] = disk[AttemptState(x)]
         \/ \E d \in Deliveries :
              /\ ~Terminal(d) /\ disk'[AttemptState(d)] # Nil /\ disk'[AttemptState(d)].count = Count(d) + 1
              /\ \A x \in Deliveries : x # d => disk'[AttemptState(x)] = disk[AttemptState(x)]
<1>0. FilesTyped /\ QueueInv /\ DrainInv
  BY DEF SpoolInv, SpoolTypeOK
<1>1. CASE holder \in Deliveries
  BY <1>1, HooksLeaveAttempts
<1>2. CASE holder \in Drainers /\ AdvanceTodo(todo)
  <2>1. PICK m \in CursorAt..Committed, half \in {0, 1} :
          m > CursorAt /\ todo = [i \in 1..(2 * (m - CursorAt) - half) |-> AdvanceWrite({}, i + half)]
    BY <1>2 DEF AdvanceTodo
  <2>2. PICK n \in Nat : n = 2 * (m - CursorAt) - half /\ n # 0 /\ 1 \in 1..n
    BY <1>0, <2>1, CommittedType
  <2>3. IsList(todo, n) /\ todo[1] = AdvanceWrite({}, 1 + half)
    BY <2>1, <2>2 DEF IsList
  <2>4. \A i : AdvanceWrite({}, i)[1][1] # "attempt-state"
    BY FileNames DEF AdvanceWrite
  <2>5. todo[1][1][1] # "attempt-state"
    BY <2>3, <2>4
  <2> QED
    BY <1>0, <2>2, <2>3, <2>5, OtherFileWritten
<1>3. CASE holder \in Drainers /\ AckTodo(todo)
  <2>1. PICK d \in Deliveries, m \in CursorAt..Committed :
          todo = [i \in 1..(1 + 2 * (m - CursorAt)) |->
                    IF i = 1 THEN <<AckFile(d), "completed">> ELSE AdvanceWrite({d}, i - 1)]
    BY <1>3 DEF AckTodo
  <2>2. PICK n \in Nat : n = 1 + 2 * (m - CursorAt) /\ n # 0 /\ 1 \in 1..n
    BY <1>0, <2>1, CommittedType
  <2>3. IsList(todo, n) /\ todo[1] = <<AckFile(d), "completed">>
    BY <2>1, <2>2 DEF IsList
  <2>4. todo[1][1][1] # "attempt-state"
    BY <2>3, FileNames
  <2> QED
    BY <1>0, <2>2, <2>3, <2>4, OtherFileWritten
<1>4. CASE holder \in Drainers /\ AttemptTodo(todo)
  <2>1. PICK d \in Deliveries, k \in Keys :
          /\ ~Terminal(d)
          /\ \/ todo = << <<Attempt(d, k), NewAttempt(d, k)>>, <<AttemptState(d), StateOf(k, NewAttempt(d, k))>> >>
             \/ /\ disk[Attempt(d, k)] # Nil /\ disk[Attempt(d, k)].number = Count(d) + 1
                /\ todo = << <<AttemptState(d), StateOf(k, disk[Attempt(d, k)])>> >>
    BY <1>4 DEF AttemptTodo
  <2>2. CASE todo = << <<Attempt(d, k), NewAttempt(d, k)>>, <<AttemptState(d), StateOf(k, NewAttempt(d, k))>> >>
    <3>1. IsList(todo, 2) /\ todo[1][1] = Attempt(d, k)
      BY <2>2 DEF IsList
    <3>2. PICK two \in Nat : two = 2 /\ two # 0
      OBVIOUS
    <3>3. IsList(todo, two) /\ todo[1][1][1] # "attempt-state"
      BY <3>1, <3>2, FileNames
    <3> QED
      BY <1>0, <3>2, <3>3, OtherFileWritten
  <2>3. CASE /\ disk[Attempt(d, k)] # Nil /\ disk[Attempt(d, k)].number = Count(d) + 1
             /\ todo = << <<AttemptState(d), StateOf(k, disk[Attempt(d, k)])>> >>
    <3>1. PICK a : a = disk[Attempt(d, k)]
      OBVIOUS
    <3>2. IsList(todo, 1) /\ todo[1][1] = AttemptState(d) /\ todo[1][2] = StateOf(k, a)
      BY <2>3, <3>1 DEF IsList
    <3>3. PICK one \in Nat : one = 1 /\ one # 0
      OBVIOUS
    <3>4. disk' = [disk EXCEPT ![AttemptState(d)] = StateOf(k, a)]
      BY <3>2, <3>3, WriteTakes
    <3>5. /\ \A x \in Deliveries : AttemptState(x) \in DOMAIN disk
          /\ \A x \in Deliveries : x # d => AttemptState(x) # AttemptState(d)
      BY <1>0, FilesOfSpool, FileNames DEF FilesTyped
    <3>6. a \in Attempts /\ StateOf(k, a) \in AttemptStates /\ StateOf(k, a).count = Count(d) + 1
      BY <1>0, <2>3, <3>1 DEF FilesTyped, Attempts, AttemptStates, StateOf
    <3>7. disk'[AttemptState(d)] = StateOf(k, a)
      BY <3>4, <3>5
    <3> QED
      BY <2>1, <3>4, <3>5, <3>6, <3>7, SpoolSentinel
  <2> QED
    BY <2>1, <2>2, <2>3
<1>5. holder \in Drainers \/ holder \in Deliveries
  BY DEF SpoolInv, SpoolTypeOK, Write
<1> QED
  BY <1>1, <1>2, <1>3, <1>4, <1>5 DEF SpoolInv, TodoInv

AttemptsMove ==
  \A d \in Deliveries :
    /\ Terminal(d) => disk'[AttemptState(d)] = disk[AttemptState(d)]
    /\ Count(d)' >= Count(d)
    /\ disk'[AttemptState(d)] # Nil =>
         LET s == disk'[AttemptState(d)]
             a == disk'[Attempt(d, s.latest)]
         IN a # Nil /\ s = StateOf(s.latest, a)

LEMMA AttemptsMoveOn == SpoolInv /\ SpoolInv' /\ [SpoolNext]_spoolVars => [AttemptsMove]_spoolVars
<1> SUFFICES ASSUME SpoolInv, SpoolInv', SpoolNext PROVE AttemptsMove
  OBVIOUS
<1>1. \A d \in Deliveries : Count(d) \in Nat
  BY DEF SpoolInv, SpoolTypeOK, FilesTyped, AttemptStates, Count
<1>2. \A d \in Deliveries : disk'[AttemptState(d)] # Nil =>
        LET s == disk'[AttemptState(d)]
            a == disk'[Attempt(d, s.latest)]
        IN a # Nil /\ s = StateOf(s.latest, a)
  BY DEF SpoolInv, DrainInv, AttemptsTrue, StateOf
<1>3. ASSUME \A d \in Deliveries : disk'[AttemptState(d)] = disk[AttemptState(d)]
      PROVE  AttemptsMove
  BY <1>1, <1>2, <1>3 DEF AttemptsMove, Count
<1>4. CASE Write
  <2>1. ASSUME NEW d \in Deliveries, ~Terminal(d), disk'[AttemptState(d)] # Nil,
               disk'[AttemptState(d)].count = Count(d) + 1,
               \A x \in Deliveries : x # d => disk'[AttemptState(x)] = disk[AttemptState(x)]
        PROVE  AttemptsMove
    <3>1. Count(d)' = Count(d) + 1 /\ \A x \in Deliveries : x # d => Count(x)' = Count(x)
      BY <2>1 DEF Count
    <3>2. \A x \in Deliveries : Count(x)' >= Count(x)
      BY <1>1, <3>1
    <3> QED
      BY <1>2, <2>1, <3>2 DEF AttemptsMove
  <2> QED
    BY <1>3, <1>4, <2>1, AttemptStateMoves
<1>5. CASE ~Write
  <2>1. disk' = disk
    BY <1>5 DEF SpoolNext, Crash, Stage, DrainStep, BeginDrain, Select, DeliverEntry, DeliverRaises, Await, Block,
                Record, RecordRaises, Raise, Acknowledge, AcknowledgeRaises, Abort
  <2> QED
    BY <1>3, <2>1
<1> QED
  BY <1>4, <1>5

\* record_attempt never changes the verdict of a terminal entry, never counts
\* back, and its state always restates an attempt on file, also when two
\* drainers record the same entry and one of them dies.
THEOREM AttemptStateIsFinal == SpoolSpec => TerminalAttemptIsFinal
<1>1. SpoolInv /\ SpoolInv' /\ [SpoolNext]_spoolVars => [AttemptsMove]_spoolVars
  BY AttemptsMoveOn
<1>2. SpoolSpec => [][AttemptsMove]_spoolVars
  BY <1>1, SpoolStaysMeaningful, PTL DEF SpoolSpec
<1> QED
  BY <1>2 DEF AttemptsMove, TerminalAttemptIsFinal
=============================================================================
