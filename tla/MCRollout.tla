----------------------------- MODULE MCRollout -----------------------------
(* Instances of Rollout: plans of one candidate, a plan's name telling its *)
(* stage; the plans of Later belong to the grant's second revision.        *)
(* The shadow reserves two units and may use one, every other stage one.   *)
EXTENDS Rollout, TLC

CONSTANT Later

StageOf(p) ==
  CASE p \in {"shadow1", "shadow2"} -> "shadow"
    [] p = "canary1" -> "canary"
    [] p \in {"activation1", "activation2"} -> "activation"
    [] p = "rollback1" -> "rollback"

PlanOf == [p \in Plans |->
  [stage |-> StageOf(p), candidate |-> "c", artifact |-> "art", lkg |-> "lkg",
   revision |-> IF p \in Later THEN 2 ELSE 1, cost |-> IF StageOf(p) = "shadow" THEN 2 ELSE 1]]

\* The bounds of the run.  They leave out only what nobody has to do, so that the
\* fairness is that of FairSpec.  A revocation and another writer of the selector
\* each come alone; a second revision of the grant comes with a fault or without.
Complications == {x \in {"revocation", "edit", "revision or fault"} :
  CASE x = "revocation" -> revoked # {}
    [] x = "edit" -> selector \in Edits
    [] x = "revision or fault" -> revision > 1 \/ faults > 0}

\* The rollback is reserved once the activation is settled; an activation may come
\* before its shadow and its canary.
RollbackComesLast ==
  \A p \in Plans : Plan[p].stage = "rollback" /\ p \in reserved'
                  => StageSettled(Plan[p].candidate, "activation")

\* A stage without an effect is recovered from the durable rows only.
EffectlessFromDurable ==
  \A r \in Runtimes, p \in Plans :
    RecoverUnsettled(r, p) /\ Plan[p].stage \in {"shadow", "canary"} => RecoverFromDurable(r, p)

RolloutNext ==
  /\ Next
  /\ Cardinality(Complications') <= 1
  /\ RollbackComesLast
  /\ EffectlessFromDurable

RolloutSpec == Init /\ [][RolloutNext]_vars /\ Fairness
=============================================================================
