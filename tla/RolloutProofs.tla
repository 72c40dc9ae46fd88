--------------------------- MODULE RolloutProofs ---------------------------
(***************************************************************************)
(* Theorems about Rollout, for any number of runtimes and plans and every  *)
(* bound: the three ledgers agree about a settlement, and the candidate is *)
(* selected only while its activation stands.                              *)
(***************************************************************************)
EXTENDS Rollout, FiniteSetTheorems, TLAPS

\* A terminal tells what happened: completed only on completed evidence, failed
\* by the read-back only on refused evidence, failed by the recovery only behind
\* a recovery transition.
TerminalsAgree ==
  \A p \in Plans : Terminated(p) =>
    /\ p \in claimed
    /\ terminal[p].status = "completed" => terminal[p].by = "readback" /\ evidence[p] = "completed"
    /\ terminal[p].status = "failed" /\ terminal[p].by = "readback" => evidence[p] = "recovery-required"
    /\ terminal[p].status = "failed" /\ terminal[p].by = "recovery" => recovery[p] # None

\* What an execute_reserved call has learned is still so at its next step.
CallAgrees(c) ==
  /\ c.plan \in reserved
  /\ c.at # "checked" => c.plan \in claimed
  /\ c.at \in {"executed", "verified", "prepared"} => evidence[c.plan] # None
  /\ c.at \in {"verified", "prepared"} /\ c.accepted => evidence[c.plan] = "completed"
  /\ c.at = "prepared" => /\ c.plan \in pending
                          /\ ~c.accepted => evidence[c.plan] = "recovery-required"
CallsAgree == \A r \in Runtimes : run[r] # None => CallAgrees(run[r])

\* The same of a recovery call.
RecoveryAgrees(c) ==
  /\ c.plan \in claimed
  /\ c.at = "reversed" => recovery[c.plan] # None
RecoveriesAgree == \A r \in Runtimes : rec[r] # None => RecoveryAgrees(rec[r])

\* Rows of the three databases that presuppose one another.
LedgersAgree ==
  /\ \A p \in Plans : /\ evidence[p] # None => p \in claimed
                      /\ recovery[p] # None => evidence[p] # None
  /\ \A p \in pending : InOrder(p)
  /\ \A p \in settled : TerminalCompleted(p)
  /\ \A p \in recovered : Terminated(p) /\ terminal[p].status = "failed"

RolloutInv == RolloutTypeOK /\ TerminalsAgree /\ CallsAgree /\ RecoveriesAgree /\ LedgersAgree

\* No row is taken back or changed: a step of any process only adds rows.
RowsOnlyAdded ==
  /\ reserved \subseteq reserved' /\ claimed \subseteq claimed' /\ pending \subseteq pending'
  /\ settled \subseteq settled' /\ recovered \subseteq recovered'
  /\ \A p \in Plans : /\ evidence[p] # None => evidence'[p] = evidence[p]
                      /\ recovery[p] # None => recovery'[p] = recovery[p]
                      /\ terminal[p] # None => terminal'[p] = terminal[p]

-----------------------------------------------------------------------------
(* Calls *)

\* An execute_reserved call goes on, raises or starts.
LEMMA CallSteps ==
  ASSUME run \in [Runtimes -> Calls \cup {None}], NEW r \in Runtimes
  PROVE  /\ \A place \in {"claimed", "current", "executed", "prepared", "terminal"} :
              run[r] # None /\ Advance(r, place) =>
                /\ run' \in [Runtimes -> Calls \cup {None}]
                /\ run'[r].at = place /\ run'[r].plan = run[r].plan /\ run'[r].accepted = run[r].accepted
                /\ \A s \in Runtimes \ {r} : run'[s] = run[s]
         /\ Raise(r) => /\ run' \in [Runtimes -> Calls \cup {None}] /\ run'[r] = None
                        /\ \A s \in Runtimes \ {r} : run'[s] = run[s]
         /\ \A c \in Calls : run' = [run EXCEPT ![r] = c] =>
              /\ run' \in [Runtimes -> Calls \cup {None}] /\ run'[r] = c
              /\ \A s \in Runtimes \ {r} : run'[s] = run[s]
<1>1. ASSUME NEW place \in {"claimed", "current", "executed", "prepared", "terminal"},
             run[r] # None, Advance(r, place)
      PROVE  /\ run' \in [Runtimes -> Calls \cup {None}]
             /\ run'[r].at = place /\ run'[r].plan = run[r].plan /\ run'[r].accepted = run[r].accepted
             /\ \A s \in Runtimes \ {r} : run'[s] = run[s]
  <2> DEFINE c == [run[r] EXCEPT !.at = place]
  <2>1. run[r] \in Calls
    BY <1>1
  <2>2. c \in Calls /\ c.at = place /\ c.plan = run[r].plan /\ c.accepted = run[r].accepted
    BY <2>1 DEF Calls
  <2>3. run' = [run EXCEPT ![r] = c]
    BY <1>1, <2>1 DEF Advance, Calls
  <2> HIDE DEF c
  <2> QED
    BY <2>2, <2>3
<1> QED
  BY <1>1 DEF Raise

\* A recovery call goes on, ends or starts.
LEMMA RecoveryCallSteps ==
  ASSUME rec \in [Runtimes -> Recoveries \cup {None}], NEW r \in Runtimes
  PROVE  /\ \A place \in {"asserted", "reversed", "failed"} :
              rec[r] # None /\ ContinueRecovery(r, place) =>
                /\ rec' \in [Runtimes -> Recoveries \cup {None}]
                /\ rec'[r].at = place /\ rec'[r].plan = rec[r].plan
                /\ \A s \in Runtimes \ {r} : rec'[s] = rec[s]
         /\ EndRecovery(r) => /\ rec' \in [Runtimes -> Recoveries \cup {None}] /\ rec'[r] = None
                              /\ \A s \in Runtimes \ {r} : rec'[s] = rec[s]
         /\ \A p \in Plans, place \in {"loaded", "failed", "finalize"}, by \in {"readback", "recovery"} :
              EnterRecovery(r, p, place, by) =>
                /\ rec' \in [Runtimes -> Recoveries \cup {None}]
                /\ rec'[r].at = place /\ rec'[r].plan = p
                /\ \A s \in Runtimes \ {r} : rec'[s] = rec[s]
<1>1. ASSUME NEW place \in {"asserted", "reversed", "failed"}, rec[r] # None, ContinueRecovery(r, place)
      PROVE  /\ rec' \in [Runtimes -> Recoveries \cup {None}]
             /\ rec'[r].at = place /\ rec'[r].plan = rec[r].plan
             /\ \A s \in Runtimes \ {r} : rec'[s] = rec[s]
  <2> DEFINE c == [rec[r] EXCEPT !.at = place]
  <2>1. rec[r] \in Recoveries
    BY <1>1
  <2>2. c \in Recoveries /\ c.at = place /\ c.plan = rec[r].plan
    BY <2>1 DEF Recoveries
  <2>3. rec' = [rec EXCEPT ![r] = c]
    BY <1>1, <2>1 DEF ContinueRecovery, Recoveries
  <2> HIDE DEF c
  <2> QED
    BY <2>2, <2>3
<1>2. ASSUME NEW p \in Plans, NEW place \in {"loaded", "failed", "finalize"}, NEW by \in {"readback", "recovery"},
             EnterRecovery(r, p, place, by)
      PROVE  /\ rec' \in [Runtimes -> Recoveries \cup {None}]
             /\ rec'[r].at = place /\ rec'[r].plan = p
             /\ \A s \in Runtimes \ {r} : rec'[s] = rec[s]
  <2>1. [plan |-> p, at |-> place, by |-> by] \in Recoveries
    BY DEF Recoveries
  <2> QED
    BY <1>2, <2>1 DEF EnterRecovery
<1> QED
  BY <1>1, <1>2 DEF EndRecovery

-----------------------------------------------------------------------------
(* What the conjuncts need of a step *)

\* Rows that are only added keep what calls and ledgers rely on; the call that
\* moves and the rows that are new are to be looked at.
LEMMA CallsKept ==
  ASSUME RolloutTypeOK, CallsAgree, RowsOnlyAdded, NEW r \in Runtimes,
         \A s \in Runtimes \ {r} : run'[s] = run[s],
         run'[r] # None => CallAgrees(run[r])'
  PROVE  CallsAgree'
<1>1. ASSUME NEW s \in Runtimes, run'[s] # None, s # r
      PROVE  CallAgrees(run[s])'
  <2>1. run'[s] = run[s] /\ run[s].plan \in Plans /\ CallAgrees(run[s])
    BY <1>1 DEF RolloutTypeOK, Calls, CallsAgree
  <2> QED
    BY <2>1, RolloutSentinel DEF CallAgrees, RowsOnlyAdded
<1> QED
  BY <1>1 DEF CallsAgree

LEMMA RecoveriesKept ==
  ASSUME RolloutTypeOK, RecoveriesAgree, RowsOnlyAdded, NEW r \in Runtimes,
         \A s \in Runtimes \ {r} : rec'[s] = rec[s],
         rec'[r] # None => RecoveryAgrees(rec[r])'
  PROVE  RecoveriesAgree'
<1>1. ASSUME NEW s \in Runtimes, rec'[s] # None, s # r
      PROVE  RecoveryAgrees(rec[s])'
  <2>1. rec'[s] = rec[s] /\ rec[s].plan \in Plans /\ RecoveryAgrees(rec[s])
    BY <1>1 DEF RolloutTypeOK, Recoveries, RecoveriesAgree
  <2> QED
    BY <2>1 DEF RecoveryAgrees, RowsOnlyAdded
<1> QED
  BY <1>1 DEF RecoveriesAgree

LEMMA TerminalsKept ==
  ASSUME RolloutTypeOK, TerminalsAgree, RowsOnlyAdded,
         \A p \in Plans : terminal'[p] = terminal[p]
  PROVE  TerminalsAgree'
BY RolloutSentinel DEF TerminalsAgree, RowsOnlyAdded, Terminated, RolloutTypeOK

\* InOrder only looks for settlements, and none is taken back.
LEMMA OrderKept ==
  ASSUME RowsOnlyAdded, NEW p
  PROVE  InOrder(p) => InOrder(p)'
BY DEF InOrder, StageSettled, RowsOnlyAdded

LEMMA LedgersKept ==
  ASSUME RolloutTypeOK, LedgersAgree, RowsOnlyAdded,
         \A p \in Plans : /\ evidence'[p] # None => p \in claimed'
                          /\ recovery'[p] # None => evidence'[p] # None,
         \A p \in pending' \ pending : InOrder(p),
         \A p \in settled' \ settled : TerminalCompleted(p)',
         \A p \in recovered' \ recovered : Terminated(p)' /\ terminal'[p].status = "failed"
  PROVE  LedgersAgree'
<1>1. \A p \in pending' : InOrder(p)'
  BY OrderKept DEF LedgersAgree
<1>2. \A p \in settled \cup recovered : terminal'[p] = terminal[p]
  BY DEF LedgersAgree, RowsOnlyAdded, TerminalCompleted, Terminated, RolloutTypeOK
<1>3. \A p \in settled' : TerminalCompleted(p)'
  BY <1>2 DEF LedgersAgree, TerminalCompleted, Terminated
<1>4. \A p \in recovered' : Terminated(p)' /\ terminal'[p].status = "failed"
  BY <1>2 DEF LedgersAgree, Terminated
<1> QED
  BY <1>1, <1>3, <1>4 DEF LedgersAgree

-----------------------------------------------------------------------------
(* The steps.  Each adds rows, moves one call, and keeps the invariant.    *)

LEMMA InitRollout == Init => RolloutInv
<1> SUFFICES ASSUME Init PROVE RolloutInv
  OBVIOUS
<1>1. RolloutTypeOK
  BY RolloutAssumption DEF Init, RolloutTypeOK, Artifacts
<1> QED
  BY <1>1 DEF Init, RolloutInv, TerminalsAgree, Terminated, CallsAgree, RecoveriesAgree, LedgersAgree

\* The grant, its reservations and another writer of the selector.
LEMMA LedgerSteps ==
  ASSUME RolloutInv,
         \/ RegisterGrant \/ \E v \in 1..MaxRevision : Revoke(v)
         \/ \E a \in Edits : Edit(a)
         \/ \E p \in Plans : ReserveChild(p)
         \/ UNCHANGED vars
  PROVE  RolloutInv' /\ RowsOnlyAdded
<1> USE RolloutAssumption DEF ledgerVars, workerVars, improvementVars
<1>1. /\ UNCHANGED <<claimed, terminal, evidence, recovery, improvementVars, run, rec, faults>>
      /\ reserved \subseteq reserved' /\ reserved' \subseteq Plans
  BY DEF RegisterGrant, Revoke, Edit, ReserveChild, vars, RolloutInv, RolloutTypeOK
<1>2. RowsOnlyAdded
  BY <1>1 DEF RowsOnlyAdded
<1>3. revision' \in 0..MaxRevision /\ revoked' \subseteq 1..revision' /\ selector' \in Artifacts
  BY DEF RegisterGrant, Revoke, Edit, ReserveChild, vars, RolloutInv, RolloutTypeOK, Artifacts
<1>4. RolloutTypeOK'
  BY <1>1, <1>3 DEF RolloutInv, RolloutTypeOK
<1>5. CallsAgree' /\ RecoveriesAgree' /\ TerminalsAgree' /\ LedgersAgree'
  BY <1>1 DEF RolloutInv, CallsAgree, CallAgrees, RecoveriesAgree, RecoveryAgrees, TerminalsAgree, Terminated,
              LedgersAgree, InOrder, StageSettled, TerminalCompleted
<1> QED
  BY <1>2, <1>4, <1>5 DEF RolloutInv

\* A step of an execute_reserved call that writes no row, or ends the call.
LEMMA QuietCallSteps ==
  ASSUME RolloutInv, NEW r \in Runtimes,
         UNCHANGED <<ledgerVars, workerVars, improvementVars, rec, faults>>,
         run' \in [Runtimes -> Calls \cup {None}],
         \A s \in Runtimes \ {r} : run'[s] = run[s],
         run'[r] # None => CallAgrees(run[r])'
  PROVE  RolloutInv' /\ RowsOnlyAdded
<1> USE DEF ledgerVars, workerVars, improvementVars
<1>1. RowsOnlyAdded
  BY DEF RowsOnlyAdded
<1>2. RolloutTypeOK'
  BY DEF RolloutInv, RolloutTypeOK
<1>3. CallsAgree'
  BY <1>1, CallsKept DEF RolloutInv
<1>4. RecoveriesAgree' /\ TerminalsAgree' /\ LedgersAgree'
  BY DEF RolloutInv, RecoveriesAgree, RecoveryAgrees, TerminalsAgree, Terminated,
         LedgersAgree, InOrder, StageSettled, TerminalCompleted
<1> QED
  BY <1>1, <1>2, <1>3, <1>4 DEF RolloutInv

LEMMA QuietRecoverySteps ==
  ASSUME RolloutInv, NEW r \in Runtimes,
         UNCHANGED <<ledgerVars, workerVars, improvementVars, run, faults>>,
         rec' \in [Runtimes -> Recoveries \cup {None}],
         \A s \in Runtimes \ {r} : rec'[s] = rec[s],
         rec'[r] # None => RecoveryAgrees(rec[r])'
  PROVE  RolloutInv' /\ RowsOnlyAdded
<1> USE DEF ledgerVars, workerVars, improvementVars
<1>1. RowsOnlyAdded
  BY DEF RowsOnlyAdded
<1>2. RolloutTypeOK'
  BY DEF RolloutInv, RolloutTypeOK
<1>3. RecoveriesAgree'
  BY <1>1, RecoveriesKept DEF RolloutInv
<1>4. CallsAgree' /\ TerminalsAgree' /\ LedgersAgree'
  BY DEF RolloutInv, CallsAgree, CallAgrees, TerminalsAgree, Terminated,
         LedgersAgree, InOrder, StageSettled, TerminalCompleted
<1> QED
  BY <1>1, <1>2, <1>3, <1>4 DEF RolloutInv

\* The first half of execute_reserved: status, claim, evidence, verification.
LEMMA ExecuteSteps ==
  ASSUME RolloutInv, NEW r \in Runtimes,
         \/ \E p \in Plans : CheckStatus(r, p)
         \/ ClaimEffect(r) \/ AssertEffectCurrent(r) \/ RunPlan(r) \/ Verify(r)
  PROVE  RolloutInv' /\ RowsOnlyAdded
<1> DEFINE Goal == RolloutInv' /\ RowsOnlyAdded
           p == run[r].plan
<1> USE DEF ledgerVars, workerVars, improvementVars
<1>a. run \in [Runtimes -> Calls \cup {None}] /\ (run[r] # None => run[r] \in Calls /\ CallAgrees(run[r]))
  BY DEF RolloutInv, RolloutTypeOK, CallsAgree
<1>b. run[r] # None => p \in Plans
  BY <1>a DEF Calls
<1>1. ASSUME NEW q \in Plans, CheckStatus(r, q)
      PROVE  Goal
  <2> DEFINE c == [plan |-> q, at |-> "checked", accepted |-> FALSE]
  <2>1. c \in Calls
    BY DEF Calls
  <2>2. /\ q \in reserved /\ run' = [run EXCEPT ![r] = c]
        /\ UNCHANGED <<ledgerVars, workerVars, improvementVars, rec, faults>>
    BY <1>1 DEF CheckStatus
  <2>3. /\ run' \in [Runtimes -> Calls \cup {None}] /\ run'[r] = c
        /\ \A s \in Runtimes \ {r} : run'[s] = run[s]
    BY <1>a, <2>1, <2>2, CallSteps
  <2>4. CallAgrees(run[r])'
    BY <2>2, <2>3 DEF CallAgrees
  <2> QED
    BY <2>2, <2>3, <2>4, QuietCallSteps
<1>2. ASSUME Raise(r), UNCHANGED <<ledgerVars, workerVars, improvementVars, rec, faults>>
      PROVE  Goal
  BY <1>a, <1>2, CallSteps, QuietCallSteps
<1> HIDE DEF p
<1>3. ASSUME ClaimEffect(r)
      PROVE  Goal
  <2>1. CASE CurrentGrant(p) /\ p \notin claimed
    <3>1. /\ claimed' = claimed \cup {p} /\ Advance(r, "claimed") /\ run[r] # None /\ run[r].at = "checked"
          /\ UNCHANGED <<revision, revoked, reserved, terminal, workerVars, improvementVars, rec, faults>>
      BY <1>3, <2>1 DEF ClaimEffect, Executing, p
    <3>2. /\ run' \in [Runtimes -> Calls \cup {None}]
          /\ run'[r].at = "claimed" /\ run'[r].plan = p /\ \A s \in Runtimes \ {r} : run'[s] = run[s]
      BY <1>a, <3>1, CallSteps DEF p
    <3>3. RowsOnlyAdded
      BY <3>1 DEF RowsOnlyAdded
    <3>4. p \in reserved
      BY <1>a, <3>1 DEF CallAgrees, p
    <3>5. RolloutTypeOK'
      BY <3>1, <3>2, <3>4 DEF RolloutInv, RolloutTypeOK
    <3>6. CallAgrees(run[r])'
      BY <3>1, <3>2, <3>4 DEF CallAgrees
    <3>7. CallsAgree'
      BY <3>2, <3>3, <3>6, CallsKept DEF RolloutInv
    <3>8. RecoveriesAgree' /\ TerminalsAgree' /\ LedgersAgree'
      BY <3>1 DEF RolloutInv, RecoveriesAgree, RecoveryAgrees, TerminalsAgree, Terminated,
                  LedgersAgree, InOrder, StageSettled, TerminalCompleted
    <3> QED
      BY <3>3, <3>5, <3>7, <3>8 DEF RolloutInv
  <2>2. CASE ~(CurrentGrant(p) /\ p \notin claimed)
    BY <1>2, <1>3, <2>2 DEF ClaimEffect, p
  <2> QED
    BY <2>1, <2>2
<1>4. ASSUME AssertEffectCurrent(r)
      PROVE  Goal
  <2>1. CASE CurrentGrant(run[r].plan)
    <3>1. /\ Advance(r, "current") /\ run[r] # None /\ run[r].at = "claimed"
          /\ UNCHANGED <<ledgerVars, workerVars, improvementVars, rec, faults>>
      BY <1>4, <2>1 DEF AssertEffectCurrent, Executing
    <3>2. /\ run' \in [Runtimes -> Calls \cup {None}]
          /\ run'[r].at = "current" /\ run'[r].plan = p /\ \A s \in Runtimes \ {r} : run'[s] = run[s]
      BY <1>a, <3>1, CallSteps DEF p
    <3>3. CallAgrees(run[r])'
      BY <1>a, <3>1, <3>2 DEF CallAgrees, p
    <3> QED
      BY <3>1, <3>2, <3>3, QuietCallSteps
  <2>2. CASE ~CurrentGrant(run[r].plan)
    BY <1>2, <1>4, <2>2 DEF AssertEffectCurrent
  <2> QED
    BY <2>1, <2>2
<1>5. ASSUME RunPlan(r)
      PROVE  Goal
  <2>0. run[r] # None /\ run[r].at = "current" /\ p \in Plans /\ p \in claimed /\ p \in reserved
    BY <1>a, <1>b, <1>5 DEF RunPlan, Executing, CallAgrees, p
  <2>1. CASE evidence[p] # None
    BY <1>2, <1>5, <2>1 DEF RunPlan, p
  <2>2. CASE evidence[p] = None
    <3>1. /\ Advance(r, "executed") /\ UNCHANGED <<ledgerVars, recovery, improvementVars, rec, faults>>
          /\ \E e \in {"completed", "recovery-required"} : evidence' = [evidence EXCEPT ![p] = e]
          /\ selector' \in {selector, ExpectedAfter(p)}
      BY <1>5, <2>2 DEF RunPlan, p
    <3>2. /\ run' \in [Runtimes -> Calls \cup {None}]
          /\ run'[r].at = "executed" /\ run'[r].plan = p /\ \A s \in Runtimes \ {r} : run'[s] = run[s]
      BY <1>a, <2>0, <3>1, CallSteps DEF p
    <3>3. /\ evidence'[p] \in {"completed", "recovery-required"} /\ evidence'[p] # None
          /\ \A q \in Plans \ {p} : evidence'[q] = evidence[q]
          /\ evidence' \in [Plans -> {"completed", "recovery-required", None}]
      BY <2>0, <3>1, RolloutSentinel DEF RolloutInv, RolloutTypeOK
    <3>4. RowsOnlyAdded
      BY <2>2, <3>1, <3>3 DEF RowsOnlyAdded
    <3>5. ExpectedAfter(p) \in Artifacts
      BY <2>0, RolloutAssumption DEF ExpectedAfter, ExpectedBefore, Artifacts
    <3>6. RolloutTypeOK'
      BY <3>1, <3>2, <3>3, <3>5 DEF RolloutInv, RolloutTypeOK
    <3>7. CallAgrees(run[r])'
      BY <2>0, <3>1, <3>2, <3>3 DEF CallAgrees
    <3>8. CallsAgree'
      BY <3>2, <3>4, <3>7, CallsKept DEF RolloutInv
    <3>9. RecoveriesAgree'
      BY <3>1 DEF RolloutInv, RecoveriesAgree, RecoveryAgrees
    <3>10. TerminalsAgree'
      BY <3>1, <3>4, TerminalsKept DEF RolloutInv
    <3>11. LedgersAgree'
      BY <2>0, <3>1, <3>3, <3>4, LedgersKept DEF RolloutInv, LedgersAgree
    <3> QED
      BY <3>4, <3>6, <3>8, <3>9, <3>10, <3>11 DEF RolloutInv
  <2> QED
    BY <2>1, <2>2
<1>6. ASSUME Verify(r)
      PROVE  Goal
  <2>1. PICK ok \in BOOLEAN :
          /\ ok => evidence[p] = "completed" /\ selector = ExpectedAfter(p)
          /\ run' = [run EXCEPT ![r].at = "verified", ![r].accepted = ok]
    BY <1>6 DEF Verify, p
  <2>2. /\ run[r] # None /\ run[r].at = "executed"
        /\ UNCHANGED <<ledgerVars, workerVars, improvementVars, rec, faults>>
    BY <1>6 DEF Verify, Executing
  <2> DEFINE c == [run[r] EXCEPT !.at = "verified", !.accepted = ok]
  <2>3. run[r] \in Calls
    BY <1>a, <2>2
  <2>4. c \in Calls /\ c.at = "verified" /\ c.plan = p /\ c.accepted = ok
    BY <2>3 DEF Calls, p
  <2>5. run' = [run EXCEPT ![r] = c]
    BY <2>1, <2>3 DEF Calls
  <2> HIDE DEF c
  <2>6. /\ run' \in [Runtimes -> Calls \cup {None}] /\ run'[r] = c
        /\ \A s \in Runtimes \ {r} : run'[s] = run[s]
    BY <1>a, <2>4, <2>5, CallSteps
  <2>7. CallAgrees(run[r])'
    BY <1>a, <2>1, <2>2, <2>4, <2>6 DEF CallAgrees, p
  <2> QED
    BY <2>2, <2>6, <2>7, QuietCallSteps
<1> HIDE DEF Goal
<1>7. Goal
  BY <1>1, <1>3, <1>4, <1>5, <1>6
<1> QED
  BY <1>7 DEF Goal

\* A settlement is inserted behind its prepared receipt and a completed terminal.
LEMMA FinalizedSettles ==
  ASSUME RolloutInv, NEW p \in Plans, Finalized(p)
  PROVE  /\ settled \subseteq settled' /\ settled' \subseteq pending
         /\ \A q \in settled' \ settled : TerminalCompleted(q)
BY DEF Finalized, RolloutInv, RolloutTypeOK

\* The second half of execute_reserved: prepared receipt, terminal, settlement.
LEMMA SettleSteps ==
  ASSUME RolloutInv, NEW r \in Runtimes, Prepare(r) \/ RecordTerminal(r) \/ FinalizePrepared(r)
  PROVE  RolloutInv' /\ RowsOnlyAdded
<1> DEFINE Goal == RolloutInv' /\ RowsOnlyAdded
           p == run[r].plan
<1> USE DEF ledgerVars, workerVars, improvementVars
<1>a. run \in [Runtimes -> Calls \cup {None}] /\ run[r] # None /\ run[r] \in Calls /\ CallAgrees(run[r])
  BY DEF RolloutInv, RolloutTypeOK, CallsAgree, Prepare, RecordTerminal, FinalizePrepared, Executing
<1>b. p \in Plans
  BY <1>a DEF Calls
<1>c. run[r].at # "checked" => p \in claimed
  BY <1>a DEF CallAgrees
<1> HIDE DEF p
<1>2. ASSUME Raise(r), UNCHANGED <<ledgerVars, workerVars, improvementVars, rec, faults>>
      PROVE  Goal
  BY <1>a, <1>2, CallSteps, QuietCallSteps
<1>3. ASSUME Prepare(r)
      PROVE  Goal
  <2> DEFINE ok == (evidence[p] = "completed" => run[r].accepted) /\ InOrder(p)
  <2>1. CASE ok
    <3>1. /\ pending' = pending \cup {p} /\ Advance(r, "prepared") /\ run[r].at = "verified"
          /\ UNCHANGED <<ledgerVars, workerVars, settled, recovered, rec, faults>>
      BY <1>3, <2>1 DEF Prepare, Executing, p
    <3>2. /\ run' \in [Runtimes -> Calls \cup {None}]
          /\ run'[r].at = "prepared" /\ run'[r].plan = p /\ run'[r].accepted = run[r].accepted
          /\ \A s \in Runtimes \ {r} : run'[s] = run[s]
      BY <1>a, <3>1, CallSteps DEF p
    <3>3. RowsOnlyAdded
      BY <3>1 DEF RowsOnlyAdded
    <3>4. RolloutTypeOK'
      BY <1>b, <3>1, <3>2 DEF RolloutInv, RolloutTypeOK
    <3>5. evidence[p] # None /\ evidence[p] \in {"completed", "recovery-required", None}
      BY <1>a, <1>b, <3>1 DEF CallAgrees, p, RolloutInv, RolloutTypeOK
    <3>6. CallAgrees(run[r])'
      BY <1>a, <2>1, <3>1, <3>2, <3>5 DEF CallAgrees, p
    <3>7. CallsAgree'
      BY <3>2, <3>3, <3>6, CallsKept DEF RolloutInv
    <3>8. RecoveriesAgree' /\ TerminalsAgree'
      BY <3>1 DEF RolloutInv, RecoveriesAgree, RecoveryAgrees, TerminalsAgree, Terminated
    <3>9. LedgersAgree'
      BY <2>1, <3>1, <3>3, LedgersKept DEF RolloutInv, LedgersAgree
    <3> QED
      BY <3>3, <3>4, <3>7, <3>8, <3>9 DEF RolloutInv
  <2>2. CASE ~ok
    BY <1>2, <1>3, <2>2 DEF Prepare, p
  <2> QED
    BY <2>1, <2>2
<1>4. ASSUME RecordTerminal(r)
      PROVE  Goal
  <2>1. CASE ~Terminated(p)
    <3>1. PICK u \in 1..Plan[p].cost :
               terminal' = [terminal EXCEPT ![p] =
                   [status |-> IF run[r].accepted THEN "completed" ELSE "failed",
                    by |-> "readback", used |-> u]]
      BY <1>4, <2>1 DEF RecordTerminal, p
    <3>2. /\ Advance(r, "terminal") /\ run[r].at = "prepared"
          /\ UNCHANGED <<revision, revoked, reserved, claimed, workerVars, improvementVars, rec, faults>>
      BY <1>4, <2>1 DEF RecordTerminal, Executing, p
    <3>3. /\ run' \in [Runtimes -> Calls \cup {None}]
          /\ run'[r].at = "terminal" /\ run'[r].plan = p /\ run'[r].accepted = run[r].accepted
          /\ \A s \in Runtimes \ {r} : run'[s] = run[s]
      BY <1>a, <3>2, CallSteps DEF p
    <3> DEFINE t == [status |-> IF run[r].accepted THEN "completed" ELSE "failed",
                     by |-> "readback", used |-> u]
    <3>4. u \in Nat
      BY <1>b, <3>1, RolloutAssumption
    <3>5. /\ t \in Terminals /\ t.by = "readback"
          /\ t.status = IF run[r].accepted THEN "completed" ELSE "failed"
      BY <3>4 DEF Terminals
    <3>6. terminal' = [terminal EXCEPT ![p] = t]
      BY <3>1
    <3> HIDE DEF t
    <3>7. /\ terminal'[p] = t /\ \A q \in Plans \ {p} : terminal'[q] = terminal[q]
          /\ terminal' \in [Plans -> Terminals \cup {None}]
      BY <1>b, <3>5, <3>6 DEF RolloutInv, RolloutTypeOK
    <3>8. RowsOnlyAdded
      BY <2>1, <3>2, <3>7 DEF RowsOnlyAdded, Terminated
    <3>9. RolloutTypeOK'
      BY <3>2, <3>3, <3>7 DEF RolloutInv, RolloutTypeOK
    <3>10. CallAgrees(run[r])'
      BY <1>a, <3>2, <3>3 DEF CallAgrees, p
    <3>11. CallsAgree'
      BY <3>3, <3>8, <3>10, CallsKept DEF RolloutInv
    <3>12. RecoveriesAgree'
      BY <3>2 DEF RolloutInv, RecoveriesAgree, RecoveryAgrees
    <3>13. /\ p \in claimed
           /\ run[r].accepted => evidence[p] = "completed"
           /\ ~run[r].accepted => evidence[p] = "recovery-required"
      BY <1>a, <1>c, <3>2 DEF CallAgrees, p
    <3>14. TerminalsAgree'
      <4>1. ASSUME NEW q \in Plans \ {p}, Terminated(q)'
            PROVE  Terminated(q) /\ terminal'[q] = terminal[q]
        BY <3>7, <4>1 DEF Terminated
      <4> QED
        BY <3>2, <3>5, <3>7, <3>13, <4>1 DEF RolloutInv, TerminalsAgree
    <3>15. LedgersAgree'
      BY <3>2, <3>8, LedgersKept DEF RolloutInv, LedgersAgree
    <3> QED
      BY <3>8, <3>9, <3>11, <3>12, <3>14, <3>15 DEF RolloutInv
  <2>2. CASE Terminated(p)
    BY <1>2, <1>4, <2>2 DEF RecordTerminal, p
  <2> QED
    BY <2>1, <2>2
<1>5. ASSUME FinalizePrepared(r)
      PROVE  Goal
  <2>1. /\ Finalized(p) /\ Raise(r) /\ UNCHANGED <<ledgerVars, workerVars, pending, recovered, rec, faults>>
    BY <1>5 DEF FinalizePrepared, p
  <2>2. /\ settled \subseteq settled' /\ settled' \subseteq pending
        /\ \A q \in settled' \ settled : TerminalCompleted(q)
    BY <1>b, <2>1, FinalizedSettles
  <2>3. /\ run' \in [Runtimes -> Calls \cup {None}] /\ run'[r] = None
        /\ \A s \in Runtimes \ {r} : run'[s] = run[s]
    BY <1>a, <2>1, CallSteps
  <2>4. RowsOnlyAdded
    BY <2>1, <2>2 DEF RowsOnlyAdded
  <2>5. RolloutTypeOK'
    BY <2>1, <2>2, <2>3 DEF RolloutInv, RolloutTypeOK
  <2>6. CallsAgree'
    BY <2>3, <2>4, CallsKept DEF RolloutInv
  <2>7. RecoveriesAgree' /\ TerminalsAgree'
    BY <2>1 DEF RolloutInv, RecoveriesAgree, RecoveryAgrees, TerminalsAgree, Terminated
  <2>8. LedgersAgree'
    BY <2>1, <2>2, <2>4, LedgersKept DEF RolloutInv, LedgersAgree, TerminalCompleted, Terminated
  <2> QED
    BY <2>4, <2>5, <2>6, <2>7, <2>8 DEF RolloutInv
<1> HIDE DEF Goal
<1>6. Goal
  BY <1>3, <1>4, <1>5
<1> QED
  BY <1>6 DEF Goal

\* A recovery call starts.
LEMMA EnterSteps ==
  ASSUME RolloutInv, NEW r \in Runtimes, NEW p \in Plans, RecoverFromDurable(r, p) \/ RecoverUnsettled(r, p)
  PROVE  RolloutInv' /\ RowsOnlyAdded
<1>1. /\ p \in claimed /\ UNCHANGED <<ledgerVars, workerVars, improvementVars, run, faults>>
      /\ \E place \in {"loaded", "failed", "finalize"}, by \in {"readback", "recovery"} :
           EnterRecovery(r, p, place, by)
  <2>1. CASE RecoverUnsettled(r, p)
    BY <2>1 DEF RecoverUnsettled
  <2>2. CASE RecoverFromDurable(r, p)
    <3>1. Terminated(p) => terminal[p].by \in {"readback", "recovery"}
      BY DEF RolloutInv, RolloutTypeOK, Terminals, Terminated
    <3> QED
      BY <2>2, <3>1 DEF RecoverFromDurable
  <2> QED
    BY <2>1, <2>2
<1>2. rec \in [Runtimes -> Recoveries \cup {None}]
  BY DEF RolloutInv, RolloutTypeOK
<1>3. /\ rec' \in [Runtimes -> Recoveries \cup {None}] /\ rec'[r].plan = p
      /\ rec'[r].at \in {"loaded", "failed", "finalize"} /\ \A s \in Runtimes \ {r} : rec'[s] = rec[s]
  BY <1>1, <1>2, RecoveryCallSteps
<1>4. RecoveryAgrees(rec[r])'
  BY <1>1, <1>3 DEF RecoveryAgrees, ledgerVars
<1> QED
  BY <1>1, <1>3, <1>4, QuietRecoverySteps

\* A recovery call goes on: transition, terminal, receipt, settlement.
LEMMA RecoverSteps ==
  ASSUME RolloutInv, NEW r \in Runtimes, Recover(r)
  PROVE  RolloutInv' /\ RowsOnlyAdded
<1> DEFINE Goal == RolloutInv' /\ RowsOnlyAdded
           p == rec[r].plan
<1> USE DEF ledgerVars, workerVars, improvementVars
<1>a. /\ rec \in [Runtimes -> Recoveries \cup {None}] /\ rec[r] # None /\ rec[r] \in Recoveries
      /\ RecoveryAgrees(rec[r])
  BY DEF RolloutInv, RolloutTypeOK, RecoveriesAgree, Recover, AssertClaimedRecovery, Reverse,
         RecordRecoveryTerminal, RecordRecovery, RecoverFinalize, Recovering
<1>b. p \in Plans /\ p \in claimed
  BY <1>a DEF Recoveries, RecoveryAgrees
<1> HIDE DEF p
<1>2. ASSUME EndRecovery(r), UNCHANGED <<ledgerVars, workerVars, improvementVars, run, faults>>
      PROVE  Goal
  BY <1>a, <1>2, RecoveryCallSteps, QuietRecoverySteps
<1>3. ASSUME NEW place \in {"asserted", "reversed", "failed"}, ContinueRecovery(r, place),
             UNCHANGED <<ledgerVars, workerVars, improvementVars, run, faults>>,
             place = "reversed" => recovery[p] # None
      PROVE  Goal
  <2>1. /\ rec' \in [Runtimes -> Recoveries \cup {None}] /\ rec'[r].plan = p /\ rec'[r].at = place
        /\ \A s \in Runtimes \ {r} : rec'[s] = rec[s]
    BY <1>a, <1>3, RecoveryCallSteps DEF p
  <2>2. RecoveryAgrees(rec[r])'
    BY <1>b, <1>3, <2>1 DEF RecoveryAgrees
  <2> QED
    BY <1>3, <2>1, <2>2, QuietRecoverySteps
<1>4. ASSUME AssertClaimedRecovery(r)
      PROVE  Goal
  BY <1>2, <1>3, <1>4 DEF AssertClaimedRecovery
<1>5. ASSUME Reverse(r)
      PROVE  Goal
  <2>1. CASE recovery[p] # None
    BY <1>3, <1>5, <2>1 DEF Reverse, p
  <2>2. CASE recovery[p] = None /\ ~(evidence[p] # None /\ selector = ExpectedAfter(p))
    BY <1>2, <1>5, <2>2 DEF Reverse, p
  <2>3. CASE recovery[p] = None /\ evidence[p] # None /\ selector = ExpectedAfter(p)
    <3>1. /\ \E k \in {"reversed", "kept"} : recovery' = [recovery EXCEPT ![p] = k]
          /\ selector' = RecoveryAfter(p) /\ ContinueRecovery(r, "reversed")
          /\ UNCHANGED <<ledgerVars, evidence, improvementVars, run, faults>>
      BY <1>5, <2>3 DEF Reverse, p
    <3>2. /\ rec' \in [Runtimes -> Recoveries \cup {None}] /\ rec'[r].plan = p /\ rec'[r].at = "reversed"
          /\ \A s \in Runtimes \ {r} : rec'[s] = rec[s]
      BY <1>a, <3>1, RecoveryCallSteps DEF p
    <3>3. /\ recovery'[p] # None /\ \A q \in Plans \ {p} : recovery'[q] = recovery[q]
          /\ recovery' \in [Plans -> {"kept", "reversed", None}]
      BY <1>b, <3>1, RolloutSentinel DEF RolloutInv, RolloutTypeOK
    <3>4. RowsOnlyAdded
      BY <2>3, <3>1, <3>3 DEF RowsOnlyAdded
    <3>5. RecoveryAfter(p) \in Artifacts
      BY <1>b DEF RecoveryAfter, ExpectedAfter, ExpectedBefore, Artifacts
    <3>6. RolloutTypeOK'
      BY <3>1, <3>2, <3>3, <3>5 DEF RolloutInv, RolloutTypeOK
    <3>7. RecoveryAgrees(rec[r])'
      BY <1>b, <3>1, <3>2, <3>3 DEF RecoveryAgrees
    <3>8. RecoveriesAgree'
      BY <3>2, <3>4, <3>7, RecoveriesKept DEF RolloutInv
    <3>9. CallsAgree'
      BY <3>1 DEF RolloutInv, CallsAgree, CallAgrees
    <3>10. TerminalsAgree'
      BY <3>1, <3>4, TerminalsKept DEF RolloutInv
    <3>11. LedgersAgree'
      BY <2>3, <3>1, <3>3, <3>4, LedgersKept DEF RolloutInv, LedgersAgree
    <3> QED
      BY <3>4, <3>6, <3>8, <3>9, <3>10, <3>11 DEF RolloutInv
  <2> QED
    BY <2>1, <2>2, <2>3
<1>6. ASSUME RecordRecoveryTerminal(r)
      PROVE  Goal
  <2> DEFINE mine == [status |-> "failed", by |-> "recovery", used |-> 0]
  <2>1. CASE terminal[p] \in {None, mine}
    <3>1. /\ terminal' = [terminal EXCEPT ![p] = mine] /\ ContinueRecovery(r, "failed")
          /\ rec[r].at = "reversed"
          /\ UNCHANGED <<revision, revoked, reserved, claimed, workerVars, improvementVars, run, faults>>
      BY <1>6, <2>1 DEF RecordRecoveryTerminal, Recovering, p
    <3>2. /\ rec' \in [Runtimes -> Recoveries \cup {None}] /\ rec'[r].plan = p /\ rec'[r].at = "failed"
          /\ \A s \in Runtimes \ {r} : rec'[s] = rec[s]
      BY <1>a, <3>1, RecoveryCallSteps DEF p
    <3>3. mine \in Terminals /\ mine.status = "failed" /\ mine.by = "recovery"
      BY DEF Terminals
    <3> HIDE DEF mine
    <3>4. /\ terminal'[p] = mine /\ \A q \in Plans \ {p} : terminal'[q] = terminal[q]
          /\ terminal' \in [Plans -> Terminals \cup {None}]
      BY <1>b, <3>1, <3>3 DEF RolloutInv, RolloutTypeOK
    <3>5. RowsOnlyAdded
      BY <2>1, <3>1, <3>4 DEF RowsOnlyAdded
    <3>6. RolloutTypeOK'
      BY <3>1, <3>2, <3>4 DEF RolloutInv, RolloutTypeOK
    <3>7. RecoveryAgrees(rec[r])'
      BY <1>b, <3>1, <3>2 DEF RecoveryAgrees
    <3>8. RecoveriesAgree'
      BY <3>2, <3>5, <3>7, RecoveriesKept DEF RolloutInv
    <3>9. CallsAgree'
      BY <3>1 DEF RolloutInv, CallsAgree, CallAgrees
    <3>10. recovery[p] # None
      BY <1>a, <3>1 DEF RecoveryAgrees, p
    <3>11. TerminalsAgree'
      <4>1. ASSUME NEW q \in Plans \ {p}, Terminated(q)'
            PROVE  Terminated(q) /\ terminal'[q] = terminal[q]
        BY <3>4, <4>1 DEF Terminated
      <4> QED
        BY <1>b, <3>1, <3>3, <3>4, <3>10, <4>1 DEF RolloutInv, TerminalsAgree
    <3>12. LedgersAgree'
      BY <3>1, <3>5, LedgersKept DEF RolloutInv, LedgersAgree
    <3> QED
      BY <3>5, <3>6, <3>8, <3>9, <3>11, <3>12 DEF RolloutInv
  <2>2. CASE terminal[p] \notin {None, mine}
    BY <1>2, <1>6, <2>2 DEF RecordRecoveryTerminal, p
  <2> QED
    BY <2>1, <2>2
<1>7. ASSUME RecordRecovery(r)
      PROVE  Goal
  <2>1. /\ recovered' \in {recovered, recovered \cup {p}}
        /\ recovered' # recovered => Terminated(p) /\ terminal[p].status = "failed"
        /\ EndRecovery(r) /\ UNCHANGED <<ledgerVars, workerVars, pending, settled, run, faults>>
    BY <1>7 DEF RecordRecovery, p
  <2>2. /\ rec' \in [Runtimes -> Recoveries \cup {None}] /\ rec'[r] = None
        /\ \A s \in Runtimes \ {r} : rec'[s] = rec[s]
    BY <1>a, <2>1, RecoveryCallSteps
  <2>3. RowsOnlyAdded
    BY <2>1 DEF RowsOnlyAdded
  <2>4. RolloutTypeOK'
    BY <1>b, <2>1, <2>2 DEF RolloutInv, RolloutTypeOK
  <2>5. RecoveriesAgree'
    BY <2>2, <2>3, RecoveriesKept DEF RolloutInv
  <2>6. CallsAgree' /\ TerminalsAgree'
    BY <2>1 DEF RolloutInv, CallsAgree, CallAgrees, TerminalsAgree, Terminated
  <2>7. \A q \in recovered' \ recovered : Terminated(q)' /\ terminal'[q].status = "failed"
    BY <2>1 DEF Terminated
  <2>8. LedgersAgree'
    BY <2>1, <2>3, <2>7, LedgersKept DEF RolloutInv, LedgersAgree
  <2> QED
    BY <2>3, <2>4, <2>5, <2>6, <2>8 DEF RolloutInv
<1>8. ASSUME RecoverFinalize(r)
      PROVE  Goal
  <2>1. /\ Finalized(p) /\ EndRecovery(r) /\ UNCHANGED <<ledgerVars, workerVars, pending, recovered, run, faults>>
    BY <1>8 DEF RecoverFinalize, p
  <2>2. /\ settled \subseteq settled' /\ settled' \subseteq pending
        /\ \A q \in settled' \ settled : TerminalCompleted(q)
    BY <1>b, <2>1, FinalizedSettles
  <2>3. /\ rec' \in [Runtimes -> Recoveries \cup {None}] /\ rec'[r] = None
        /\ \A s \in Runtimes \ {r} : rec'[s] = rec[s]
    BY <1>a, <2>1, RecoveryCallSteps
  <2>4. RowsOnlyAdded
    BY <2>1, <2>2 DEF RowsOnlyAdded
  <2>5. RolloutTypeOK'
    BY <2>1, <2>2, <2>3 DEF RolloutInv, RolloutTypeOK
  <2>6. RecoveriesAgree'
    BY <2>3, <2>4, RecoveriesKept DEF RolloutInv
  <2>7. CallsAgree' /\ TerminalsAgree'
    BY <2>1 DEF RolloutInv, CallsAgree, CallAgrees, TerminalsAgree, Terminated
  <2>8. LedgersAgree'
    BY <2>1, <2>2, <2>4, LedgersKept DEF RolloutInv, LedgersAgree, TerminalCompleted, Terminated
  <2> QED
    BY <2>4, <2>5, <2>6, <2>7, <2>8 DEF RolloutInv
<1> HIDE DEF Goal
<1>9. Goal
  BY <1>4, <1>5, <1>6, <1>7, <1>8 DEF Recover
<1> QED
  BY <1>9 DEF Goal

\* A crash or a failed call forgets the calls and keeps every row.
LEMMA FaultStep ==
  ASSUME RolloutInv, NEW r \in Runtimes, Fault(r)
  PROVE  RolloutInv' /\ RowsOnlyAdded
<1> USE DEF ledgerVars, workerVars, improvementVars
<1>1. UNCHANGED <<ledgerVars, workerVars, improvementVars>> /\ faults' \in 0..MaxFaults
  BY RolloutAssumption DEF Fault, RolloutInv, RolloutTypeOK
<1>2. /\ run' \in [Runtimes -> Calls \cup {None}] /\ rec' \in [Runtimes -> Recoveries \cup {None}]
      /\ \A s \in Runtimes : (run'[s] = None \/ run'[s] = run[s]) /\ (rec'[s] = None \/ rec'[s] = rec[s])
  BY DEF Fault, Crash, FailCall, RolloutInv, RolloutTypeOK
<1>3. RowsOnlyAdded
  BY <1>1 DEF RowsOnlyAdded
<1>4. RolloutTypeOK'
  BY <1>1, <1>2 DEF RolloutInv, RolloutTypeOK
<1>5. CallsAgree' /\ RecoveriesAgree'
  BY <1>1, <1>2 DEF RolloutInv, CallsAgree, CallAgrees, RecoveriesAgree, RecoveryAgrees
<1>6. TerminalsAgree' /\ LedgersAgree'
  BY <1>1 DEF RolloutInv, TerminalsAgree, Terminated, LedgersAgree, InOrder, StageSettled, TerminalCompleted
<1> QED
  BY <1>3, <1>4, <1>5, <1>6 DEF RolloutInv

LEMMA NextKeepsRollout ==
  ASSUME RolloutInv, [Next]_vars
  PROVE  RolloutInv' /\ RowsOnlyAdded
BY LedgerSteps, ExecuteSteps, SettleSteps, EnterSteps, RecoverSteps, FaultStep DEF Next, Execute

-----------------------------------------------------------------------------
(* Settlements *)

\* The inductive invariant of the rollout.
THEOREM RolloutStaysSound == Spec => []RolloutInv
BY InitRollout, NextKeepsRollout, PTL DEF Spec

\* Evidence, transitions, terminals, receipts and settlements are never taken
\* back or changed: whatever was read about them before a crash, or by another
\* process, is still so.
THEOREM LedgersOnlyGrow == Spec => [][RowsOnlyAdded]_vars
<1>1. RolloutInv /\ [Next]_vars => [RowsOnlyAdded]_vars
  BY NextKeepsRollout
<1> QED
  BY <1>1, RolloutStaysSound, PTL DEF Spec

\* The three ledgers agree about every settlement, for any number of processes
\* that execute and recover the same plans: finalize_prepared_typed_rollout needs
\* the prepared receipt, which had the order, and a terminal that only the
\* read-back of completed evidence writes.
THEOREM SettlementsAreProven == Spec => []SettledIsProven
<1>1. ASSUME RolloutInv PROVE SettledIsProven
  <2>1. ASSUME NEW p \in settled
        PROVE  /\ p \in claimed /\ p \notin recovered /\ evidence[p] = "completed"
               /\ Terminated(p) /\ terminal[p].status = "completed" /\ InOrder(p)
    <3>1. p \in Plans /\ p \in pending
      BY <1>1 DEF RolloutInv, RolloutTypeOK
    <3>2. TerminalCompleted(p) /\ InOrder(p) /\ (p \in recovered => terminal[p].status = "failed")
      BY <1>1, <3>1 DEF RolloutInv, LedgersAgree
    <3> QED
      BY <1>1, <3>1, <3>2 DEF RolloutInv, TerminalsAgree, TerminalCompleted
  <2> QED
    BY <2>1 DEF SettledIsProven
<1> QED
  BY <1>1, RolloutStaysSound, PTL

-----------------------------------------------------------------------------
(* The selector *)

\* The plans of one candidate, with at most one activation: they name the same
\* two artifacts, and nobody else selects the candidate's.
OneCandidate ==
  /\ \A p, q \in Plans : Plan[p].artifact = Plan[q].artifact /\ Plan[p].lkg = Plan[q].lkg
  /\ \A p \in Plans : Plan[p].artifact # Plan[p].lkg /\ Plan[p].artifact \notin Edits \cup {Initial}
  /\ \A p, q \in Plans : Plan[p].stage = "activation" /\ Plan[q].stage = "activation" => p = q

\* A rollback acts only on a candidate that was activated.
RollbackFollows ==
  \A p, q \in Plans :
    Plan[p].stage = "activation" /\ Plan[q].stage = "rollback" /\ evidence[q] = "completed"
    => evidence[p] # None

SelectionInv == StandsWhileSelected /\ RollbackFollows

\* What is left to look at in a step that moves neither evidence nor transitions
\* nor the selector to the candidate.
LEMMA SelectionKept ==
  ASSUME RolloutInv, RolloutInv', RowsOnlyAdded, SelectionInv,
         UNCHANGED <<evidence, recovery>>,
         selector' = selector \/ \A p \in Plans : selector' # Plan[p].artifact
  PROVE  SelectionInv'
<1>1. ASSUME NEW p \in Plans, recovery[p] = None, evidence[p] = "completed"
      PROVE  p \notin recovered'
  BY <1>1, RolloutSentinel DEF RolloutInv, RolloutTypeOK, Terminals, LedgersAgree, TerminalsAgree, Terminated
<1>2. StandsWhileSelected'
  BY <1>1 DEF SelectionInv, StandsWhileSelected, RowsOnlyAdded
<1> QED
  BY <1>2 DEF SelectionInv, RollbackFollows

\* _run_plan: the activation selects the candidate once, the rollback takes it
\* back, no other stage moves the selector.
LEMMA RunPlanKeepsSelection ==
  ASSUME OneCandidate, RolloutInv, RolloutInv', RowsOnlyAdded, SelectionInv, NEW r \in Runtimes, RunPlan(r)
  PROVE  SelectionInv'
<1> DEFINE p == run[r].plan
<1>1. run[r] # None /\ p \in Plans /\ p \in claimed
  BY DEF RolloutInv, RolloutTypeOK, CallsAgree, CallAgrees, Calls, RunPlan, Executing
<1>2. UNCHANGED <<claimed, recovery, recovered>>
  BY DEF RunPlan, ledgerVars, improvementVars
<1> HIDE DEF p
<1>3. CASE evidence[p] # None
  BY <1>2, <1>3, SelectionKept DEF RunPlan, p
<1>4. CASE evidence[p] = None /\ selector # ExpectedBefore(p)
  <2>1. evidence' = [evidence EXCEPT ![p] = "recovery-required"] /\ selector' = selector
    BY <1>4 DEF RunPlan, p
  <2>2. evidence'[p] = "recovery-required" /\ \A q \in Plans \ {p} : evidence'[q] = evidence[q]
    BY <1>1, <2>1 DEF RolloutInv, RolloutTypeOK
  <2>3. StandsWhileSelected'
    BY <1>2, <1>4, <2>1, <2>2, RolloutSentinel DEF SelectionInv, StandsWhileSelected
  <2>4. RollbackFollows'
    BY <2>2, RolloutSentinel DEF SelectionInv, RollbackFollows
  <2> QED
    BY <2>3, <2>4 DEF SelectionInv
<1>5. CASE evidence[p] = None /\ selector = ExpectedBefore(p)
  <2>1. evidence' = [evidence EXCEPT ![p] = "completed"] /\ selector' = ExpectedAfter(p)
    BY <1>5 DEF RunPlan, p
  <2>2. /\ evidence'[p] = "completed" /\ evidence'[p] # None
        /\ \A q \in Plans \ {p} : evidence'[q] = evidence[q]
    BY <1>1, <2>1, RolloutSentinel DEF RolloutInv, RolloutTypeOK
  <2>3. CASE Plan[p].stage = "activation"
    <3>1. recovery[p] = None /\ p \notin recovered
      BY <1>1, <1>5, RolloutSentinel
      DEF RolloutInv, RolloutTypeOK, Terminals, LedgersAgree, TerminalsAgree, Terminated
    <3>2. \A q \in Plans : Plan[q].stage = "rollback" => evidence'[q] # "completed"
      BY <1>1, <1>5, <2>2, <2>3 DEF SelectionInv, RollbackFollows
    <3>3. StandsWhileSelected'
      BY <1>1, <1>2, <2>2, <2>3, <3>1, <3>2 DEF OneCandidate, StandsWhileSelected
    <3>4. RollbackFollows'
      BY <3>2 DEF RollbackFollows
    <3> QED
      BY <3>3, <3>4 DEF SelectionInv
  <2>4. CASE Plan[p].stage = "rollback"
    <3>1. selector' = Plan[p].lkg /\ selector = Plan[p].artifact
      BY <1>5, <2>1, <2>4 DEF ExpectedAfter, ExpectedBefore
    <3>2. \A q \in Plans : selector' # Plan[q].artifact
      BY <1>1, <3>1 DEF OneCandidate
    <3>3. \A q \in Plans : Plan[q].stage = "activation" => evidence[q] = "completed"
      BY <1>1, <3>1 DEF SelectionInv, StandsWhileSelected, OneCandidate
    <3>4. RollbackFollows'
      BY <2>2, <3>3, RolloutSentinel DEF RollbackFollows
    <3> QED
      BY <3>2, <3>4 DEF SelectionInv, StandsWhileSelected
  <2>5. CASE Plan[p].stage \notin {"activation", "rollback"}
    <3>1. selector' = Plan[p].lkg
      BY <2>1, <2>5 DEF ExpectedAfter, ExpectedBefore
    <3>2. \A q \in Plans : selector' # Plan[q].artifact
      BY <1>1, <3>1 DEF OneCandidate
    <3>3. RollbackFollows'
      BY <2>2, <2>5 DEF SelectionInv, RollbackFollows
    <3> QED
      BY <3>2, <3>3 DEF SelectionInv, StandsWhileSelected
  <2> QED
    BY <2>3, <2>4, <2>5
<1> QED
  BY <1>3, <1>4, <1>5

\* recover_unsettled_activation: whatever its stage, the selector is not left at
\* the candidate by the transition of the activation, nor moved to it by another.
LEMMA ReverseKeepsSelection ==
  ASSUME OneCandidate, RolloutInv, RolloutInv', RowsOnlyAdded, SelectionInv, NEW r \in Runtimes, Reverse(r)
  PROVE  SelectionInv'
<1> DEFINE p == rec[r].plan
<1>1. rec[r] # None /\ p \in Plans
  BY DEF RolloutInv, RolloutTypeOK, Recoveries, Reverse, Recovering
<1>2. UNCHANGED <<claimed, evidence, recovered>>
  BY DEF Reverse, ledgerVars, improvementVars
<1> HIDE DEF p
<1>3. CASE recovery[p] # None \/ ~(evidence[p] # None /\ selector = ExpectedAfter(p))
  BY <1>2, <1>3, SelectionKept DEF Reverse, p
<1>4. CASE recovery[p] = None /\ evidence[p] # None /\ selector = ExpectedAfter(p)
  <2>1. selector' = RecoveryAfter(p) /\ \A q \in Plans \ {p} : recovery'[q] = recovery[q]
    BY <1>1, <1>4 DEF Reverse, p, RolloutInv, RolloutTypeOK
  <2>2. RollbackFollows'
    BY <1>2 DEF SelectionInv, RollbackFollows
  <2>3. CASE Plan[p].stage = "activation"
    <3>1. selector' = Plan[p].lkg
      BY <2>1, <2>3 DEF RecoveryAfter, ExpectedBefore
    <3>2. \A q \in Plans : selector' # Plan[q].artifact
      BY <1>1, <3>1 DEF OneCandidate
    <3> QED
      BY <2>2, <3>2 DEF SelectionInv, StandsWhileSelected
  <2>4. CASE Plan[p].stage # "activation"
    <3>1. selector' = selector
      BY <1>4, <2>1, <2>4 DEF RecoveryAfter
    <3> QED
      BY <1>2, <2>1, <2>2, <2>4, <3>1 DEF SelectionInv, StandsWhileSelected
  <2> QED
    BY <2>3, <2>4
<1> QED
  BY <1>3, <1>4

\* The selector leaves the candidate only by the reversal of its activation, by a
\* rollback, or by another writer, and each leaves its mark.
LEMMA TakenBackKept ==
  ASSUME OneCandidate, RolloutInv, TakenBackOnRecord, [Next]_vars
  PROVE  TakenBackOnRecord'
<1>1. CASE UNCHANGED <<evidence, recovery, selector>>
  BY <1>1 DEF TakenBackOnRecord
<1>2. ASSUME NEW a \in Edits, Edit(a)
      PROVE  TakenBackOnRecord'
  BY <1>2 DEF Edit, TakenBackOnRecord
<1>3. ASSUME NEW r \in Runtimes, RunPlan(r)
      PROVE  TakenBackOnRecord'
  <2> DEFINE p == run[r].plan
  <2>1. p \in Plans /\ recovery' = recovery
    BY <1>3 DEF RolloutInv, RolloutTypeOK, Calls, RunPlan, Executing
  <2> HIDE DEF p
  <2>2. CASE evidence' = evidence /\ selector' = selector
    BY <2>1, <2>2 DEF TakenBackOnRecord
  <2>3. CASE evidence' = [evidence EXCEPT ![p] = "recovery-required"] /\ selector' = selector /\ evidence[p] = None
    BY <2>1, <2>3, RolloutSentinel DEF RolloutInv, RolloutTypeOK, TakenBackOnRecord
  <2>4. CASE /\ evidence' = [evidence EXCEPT ![p] = "completed"]
             /\ selector = ExpectedBefore(p) /\ selector' = ExpectedAfter(p)
    <3>1. evidence'[p] = "completed" /\ \A q \in Plans \ {p} : evidence'[q] = evidence[q]
      BY <2>1, <2>4 DEF RolloutInv, RolloutTypeOK
    <3>2. CASE Plan[p].stage = "rollback"
      BY <2>1, <3>1, <3>2 DEF TakenBackOnRecord
    <3>3. CASE Plan[p].stage = "activation"
      BY <2>1, <2>4, <3>1, <3>3 DEF OneCandidate, ExpectedAfter, TakenBackOnRecord
    <3>4. CASE Plan[p].stage \notin {"activation", "rollback"}
      BY <2>1, <2>4, <3>1, <3>4 DEF ExpectedAfter, TakenBackOnRecord
    <3> QED
      BY <3>2, <3>3, <3>4
  <2> QED
    BY <1>3, <2>2, <2>3, <2>4 DEF RunPlan, p
<1>4. ASSUME NEW r \in Runtimes, Reverse(r)
      PROVE  TakenBackOnRecord'
  <2> DEFINE p == rec[r].plan
  <2>1. p \in Plans /\ evidence' = evidence
    BY <1>4 DEF RolloutInv, RolloutTypeOK, Recoveries, Reverse, Recovering
  <2> HIDE DEF p
  <2>2. CASE UNCHANGED <<recovery, selector>>
    BY <2>1, <2>2 DEF TakenBackOnRecord
  <2>3. CASE /\ recovery[p] = None /\ selector = ExpectedAfter(p) /\ selector' = RecoveryAfter(p)
             /\ recovery' = [recovery EXCEPT ![p] = IF Plan[p].stage = "activation" THEN "reversed" ELSE "kept"]
    <3>1. /\ recovery'[p] = (IF Plan[p].stage = "activation" THEN "reversed" ELSE "kept")
          /\ \A q \in Plans \ {p} : recovery'[q] = recovery[q]
      BY <2>1, <2>3 DEF RolloutInv, RolloutTypeOK
    <3>2. CASE Plan[p].stage = "activation"
      BY <2>1, <3>1, <3>2 DEF OneCandidate, TakenBackOnRecord
    <3>3. CASE Plan[p].stage # "activation"
      BY <2>1, <2>3, <3>1, <3>3 DEF RecoveryAfter, TakenBackOnRecord
    <3> QED
      BY <3>2, <3>3
  <2> QED
    BY <1>4, <2>2, <2>3 DEF Reverse, p
<1>5. \/ UNCHANGED <<evidence, recovery, selector>> \/ \E a \in Edits : Edit(a)
      \/ \E r \in Runtimes : RunPlan(r) \/ Reverse(r)
  BY DEF Next, Execute, Recover, RegisterGrant, Revoke, ReserveChild, ClaimEffect, AssertEffectCurrent,
         Verify, Prepare, RecordTerminal, FinalizePrepared, AssertClaimedRecovery, RecordRecoveryTerminal,
         RecordRecovery, RecoverFinalize, Fault, CheckStatus, RecoverFromDurable, RecoverUnsettled,
         vars, workerVars
<1> QED
  BY <1>1, <1>2, <1>3, <1>4, <1>5

\* The candidate is selected only while its activation stands and leaves the
\* selector only on the record, for any number of runtimes and of repeated, crashed
\* or concurrent recoveries.
THEOREM SelectionIsAccounted ==
  ASSUME OneCandidate
  PROVE  Spec => []SelectedIsAccounted
<1>1. Init => SelectionInv
  BY RolloutSentinel DEF Init, OneCandidate, SelectionInv, StandsWhileSelected, RollbackFollows
<1>2. ASSUME RolloutInv, RolloutInv', RowsOnlyAdded, SelectionInv, [Next]_vars
      PROVE  SelectionInv'
  <2>1. ASSUME UNCHANGED <<evidence, recovery, selector>>
        PROVE  SelectionInv'
    BY <1>2, <2>1, SelectionKept
  <2>2. ASSUME NEW a \in Edits, Edit(a)
        PROVE  SelectionInv'
    <3>1. UNCHANGED <<evidence, recovery>> /\ \A p \in Plans : selector' # Plan[p].artifact
      BY <2>2 DEF Edit, OneCandidate
    <3> QED
      BY <1>2, <3>1, SelectionKept
  <2>3. \/ UNCHANGED <<evidence, recovery, selector>> \/ \E a \in Edits : Edit(a)
        \/ \E r \in Runtimes : RunPlan(r) \/ Reverse(r)
    BY <1>2 DEF Next, Execute, Recover, RegisterGrant, Revoke, ReserveChild, ClaimEffect, AssertEffectCurrent,
                Verify, Prepare, RecordTerminal, FinalizePrepared, AssertClaimedRecovery, RecordRecoveryTerminal,
                RecordRecovery, RecoverFinalize, Fault, CheckStatus, RecoverFromDurable, RecoverUnsettled,
                vars, workerVars
  <2> QED
    BY <1>2, <2>1, <2>2, <2>3, RunPlanKeepsSelection, ReverseKeepsSelection
<1>3. Init => TakenBackOnRecord
  BY RolloutSentinel DEF Init, TakenBackOnRecord
<1>4. SelectionInv /\ TakenBackOnRecord => SelectedIsAccounted
  BY DEF SelectionInv, SelectedIsAccounted
<1> QED
  BY <1>1, <1>2, <1>3, <1>4, TakenBackKept, RolloutStaysSound, NextKeepsRollout, PTL DEF Spec

-----------------------------------------------------------------------------
(* The budget of the grant *)

\* The charged units are finitely many, so that they can be counted, and within
\* the grant; so are the reservations in flight.
BudgetInv == IsFiniteSet(ChargedUnits(reserved)) /\ BudgetHolds

\* A step that is not a reservation charges no plan more than before and puts
\* none back in flight.
LEMMA ChargesOnlyFall ==
  ASSUME RolloutInv, RolloutInv', RowsOnlyAdded, [Next]_vars, ~ \E p \in Plans : ReserveChild(p)
  PROVE  /\ reserved' = reserved
         /\ \A p \in Plans : /\ terminal[p] # None => terminal'[p] # None
                             /\ Charge(p)' \in Nat /\ Charge(p) \in Nat /\ Charge(p)' <= Charge(p)
<1>1. reserved' = reserved
  BY DEF Next, Execute, Recover, RegisterGrant, Revoke, Edit, ClaimEffect, AssertEffectCurrent, RunPlan, Reverse,
         Verify, Prepare, RecordTerminal, FinalizePrepared, AssertClaimedRecovery, RecordRecoveryTerminal,
         RecordRecovery, RecoverFinalize, Fault, CheckStatus, RecoverFromDurable, RecoverUnsettled,
         vars, ledgerVars
<1>2. ASSUME NEW p \in Plans
      PROVE  /\ terminal[p] # None => terminal'[p] # None
             /\ Charge(p)' \in Nat /\ Charge(p) \in Nat /\ Charge(p)' <= Charge(p)
  <2>1. /\ Plan[p].cost \in Nat
        /\ terminal[p] # None => terminal[p].used \in Nat
        /\ terminal'[p] # None => terminal'[p].used \in Nat
    BY <1>2, RolloutAssumption DEF RolloutInv, RolloutTypeOK, Terminals
  <2>2. CASE terminal[p] # None
    BY <1>2, <2>1, <2>2 DEF RowsOnlyAdded, Charge, Terminated
  <2>3. CASE terminal[p] = None /\ terminal'[p] = None
    BY <2>1, <2>3 DEF Charge, Terminated
  <2>4. CASE terminal[p] = None /\ terminal'[p] # None
    <3>1. PICK r \in Runtimes : RecordTerminal(r) \/ RecordRecoveryTerminal(r)
      BY <2>4 DEF Next, Execute, Recover, RegisterGrant, Revoke, Edit, ReserveChild, ClaimEffect,
                  AssertEffectCurrent, RunPlan, Reverse, Verify, Prepare, FinalizePrepared,
                  AssertClaimedRecovery, RecordRecovery, RecoverFinalize, Fault, CheckStatus,
                  RecoverFromDurable, RecoverUnsettled, vars, ledgerVars
    <3>2. CASE RecordTerminal(r)
      <4> DEFINE q == run[r].plan
      <4>1. PICK u \in 1..Plan[q].cost :
                 terminal' = [terminal EXCEPT ![q] =
                   [status |-> IF run[r].accepted THEN "completed" ELSE "failed",
                    by |-> "readback", used |-> u]]
        BY <2>4, <3>2 DEF RecordTerminal
      <4>2. p = q /\ terminal'[p].used = u
        BY <1>2, <2>4, <4>1 DEF RolloutInv, RolloutTypeOK
      <4> QED
        BY <2>1, <2>4, <4>1, <4>2 DEF Charge, Terminated
    <3>3. CASE RecordRecoveryTerminal(r)
      <4> DEFINE q == rec[r].plan
      <4>1. terminal' = [terminal EXCEPT ![q] = [status |-> "failed", by |-> "recovery", used |-> 0]]
        BY <2>4, <3>3 DEF RecordRecoveryTerminal
      <4>2. p = q /\ terminal'[p].used = 0
        BY <1>2, <2>4, <4>1 DEF RolloutInv, RolloutTypeOK
      <4> QED
        BY <2>1, <2>4, <4>1, <4>2 DEF Charge, Terminated
    <3> QED
      BY <3>1, <3>2, <3>3
  <2> QED
    BY <2>2, <2>3, <2>4
<1> QED
  BY <1>1, <1>2

\* The units of a reservation are as many as it costs and come on top of the others.
LEMMA UnitsOfReservation ==
  ASSUME NEW p, NEW c \in Nat, NEW U, IsFiniteSet(U)
  PROVE  /\ IsFiniteSet(U \cup ({p} \X (1..c)))
         /\ Cardinality(U \cup ({p} \X (1..c))) <= Cardinality(U) + c
<1> DEFINE N == {p} \X (1..c)
<1>1. IsFiniteSet({p}) /\ Cardinality({p}) = 1
  BY FS_Singleton
<1>2. IsFiniteSet(1..c) /\ Cardinality(1..c) = c
  BY FS_Interval
<1>a. IsFiniteSet(N) /\ Cardinality(N) = Cardinality({p}) * Cardinality(1..c)
  BY <1>1, <1>2, FS_Product, Zenon
<1> HIDE DEF N
<1>3. IsFiniteSet(N) /\ Cardinality(N) = c
  BY <1>1, <1>2, <1>a
<1>4. IsFiniteSet(U \cup N) /\ Cardinality(U \cup N) = Cardinality(U) + Cardinality(N) - Cardinality(U \cap N)
  BY <1>3, FS_Union
<1>5. IsFiniteSet(U \cap N)
  BY FS_Intersection
<1>6. Cardinality(U \cap N) \in Nat /\ Cardinality(U) \in Nat
  BY <1>5, FS_CardinalityType
<1> QED
  BY <1>3, <1>4, <1>6 DEF N

\* reserve_child spends what the grant has left and no more.
LEMMA ReserveKeepsBudget ==
  ASSUME RolloutInv, RolloutInv', BudgetInv, NEW p \in Plans, ReserveChild(p)
  PROVE  BudgetInv'
<1> DEFINE U == ChargedUnits(reserved)
           c == Charge(p)
<1>1. /\ p \notin reserved /\ reserved' = reserved \cup {p} /\ terminal' = terminal
      /\ Charged(reserved) + Plan[p].cost <= Budget /\ Cardinality(InFlight) + 1 <= Concurrency
  BY DEF ReserveChild, Affordable
<1>2. Plan[p].cost \in Nat /\ Budget \in Nat /\ Concurrency \in Nat /\ IsFiniteSet(reserved) /\ IsFiniteSet(U)
  <2>1. IsFiniteSet(reserved)
    BY RolloutAssumption, FS_Subset DEF RolloutInv, RolloutTypeOK
  <2> QED
    BY <2>1, RolloutAssumption DEF BudgetInv
<1>3. c \in Nat /\ c <= Plan[p].cost
  <2>1. terminal[p] = None
    \* A plan without a reservation has no claim, and so no terminal.
    BY <1>1 DEF RolloutInv, RolloutTypeOK, TerminalsAgree, Terminated
  <2> QED
    BY <1>2, <2>1 DEF Charge, Terminated
<1>4. ChargedUnits(reserved)' = U \cup ({p} \X (1..c))
  BY <1>1 DEF ChargedUnits, Charge, Terminated
<1> HIDE DEF U, c
<1>5. IsFiniteSet(ChargedUnits(reserved)') /\ Cardinality(ChargedUnits(reserved)') <= Cardinality(U) + c
  <2>1. /\ IsFiniteSet(U \cup ({p} \X (1..c)))
        /\ Cardinality(U \cup ({p} \X (1..c))) <= Cardinality(U) + c
    BY <1>2, <1>3, UnitsOfReservation, Zenon
  <2> QED
    BY <1>4, <2>1, Zenon
<1>6. Cardinality(U) \in Nat /\ Cardinality(ChargedUnits(reserved)') \in Nat
  BY <1>2, <1>5, FS_CardinalityType
<1>7. Cardinality(ChargedUnits(reserved)') <= Budget
  BY <1>1, <1>2, <1>3, <1>5, <1>6 DEF Charged, U
<1>8. Cardinality(InFlight') <= Concurrency
  <2>1. InFlight \subseteq reserved /\ InFlight' \subseteq InFlight \cup {p}
    BY <1>1 DEF InFlight, Terminated
  <2>2. IsFiniteSet(InFlight)
    BY <1>2, <2>1, FS_Subset
  <2>3. /\ IsFiniteSet(InFlight \cup {p}) /\ Cardinality(InFlight) \in Nat
        /\ Cardinality(InFlight \cup {p}) \in {Cardinality(InFlight), Cardinality(InFlight) + 1}
    BY <2>2, FS_AddElement, FS_CardinalityType
  <2>4. Cardinality(InFlight') <= Cardinality(InFlight \cup {p}) /\ IsFiniteSet(InFlight')
    BY <2>1, <2>3, FS_Subset
  <2>5. Cardinality(InFlight') \in Nat
    BY <2>4, FS_CardinalityType
  <2> QED
    BY <1>1, <1>2, <2>3, <2>4, <2>5
<1> QED
  BY <1>5, <1>7, <1>8 DEF BudgetInv, BudgetHolds, Charged

\* Every other step leaves units out or leaves them as they are.
LEMMA OthersKeepBudget ==
  ASSUME RolloutInv, RolloutInv', RowsOnlyAdded, BudgetInv, [Next]_vars, ~ \E p \in Plans : ReserveChild(p)
  PROVE  BudgetInv'
<1>1. /\ reserved' = reserved /\ reserved \subseteq Plans
      /\ \A p \in Plans : /\ terminal[p] # None => terminal'[p] # None
                          /\ Charge(p)' \in Nat /\ Charge(p) \in Nat /\ Charge(p)' <= Charge(p)
  BY ChargesOnlyFall DEF RolloutInv, RolloutTypeOK
<1>2. ChargedUnits(reserved)' \subseteq ChargedUnits(reserved)
  <2>1. ASSUME NEW p \in reserved PROVE (1..Charge(p)') \subseteq (1..Charge(p))
    BY <1>1, <2>1
  <2> QED
    BY <1>1, <2>1 DEF ChargedUnits
<1>3. InFlight' \subseteq InFlight /\ InFlight \subseteq reserved
  BY <1>1 DEF InFlight, Terminated
<1>4. IsFiniteSet(InFlight)
  BY <1>1, <1>3, RolloutAssumption, FS_Subset
<1>5. /\ IsFiniteSet(ChargedUnits(reserved)')
      /\ Cardinality(ChargedUnits(reserved)') <= Cardinality(ChargedUnits(reserved))
  BY <1>2, FS_Subset DEF BudgetInv
<1>6. IsFiniteSet(InFlight') /\ Cardinality(InFlight') <= Cardinality(InFlight)
  BY <1>3, <1>4, FS_Subset
<1>7. /\ Cardinality(InFlight') \in Nat /\ Cardinality(InFlight) \in Nat
      /\ Cardinality(ChargedUnits(reserved)) \in Nat /\ Cardinality(ChargedUnits(reserved)') \in Nat
  BY <1>4, <1>5, <1>6, FS_CardinalityType DEF BudgetInv
<1> QED
  BY <1>5, <1>6, <1>7, RolloutAssumption DEF BudgetInv, BudgetHolds, Charged

\* The grant is never overdrawn and never runs more than it allows at once, for
\* any number of plans, revisions and runtimes: reserve_child counts every earlier
\* reservation in full, and record_terminal and record_recovery_terminal only
\* lower what a plan is charged.
THEOREM GrantIsNeverOverdrawn == Spec => []BudgetHolds
<1>1. Init => BudgetInv
  <2> SUFFICES ASSUME Init PROVE BudgetInv
    OBVIOUS
  <2>1. ChargedUnits(reserved) = {} /\ InFlight = {}
    BY DEF Init, ChargedUnits, InFlight
  <2> QED
    BY <2>1, FS_EmptySet, RolloutAssumption DEF BudgetInv, BudgetHolds, Charged
<1>2. ASSUME RolloutInv, RolloutInv', RowsOnlyAdded, BudgetInv, [Next]_vars
      PROVE  BudgetInv'
  BY <1>2, ReserveKeepsBudget, OthersKeepBudget
<1>3. BudgetInv => BudgetHolds
  BY DEF BudgetInv
<1> QED
  BY <1>1, <1>2, <1>3, RolloutStaysSound, NextKeepsRollout, PTL DEF Spec
=============================================================================
