----------------------------- MODULE JobPromise -----------------------------
(***************************************************************************)
(* What the local runtime promises the submitter of a job, without leases, *)
(* fencing tokens, clocks, workers or an outbox:                           *)
(*                                                                         *)
(*   - a job may be attempted again only as long as no effect of it was    *)
(*     committed; after the first commit it can only end;                  *)
(*   - an end is known (completed, failed, quarantined) and then final, or *)
(*     ambiguous, and then a later verdict makes it completed or failed;   *)
(*   - after its end no further effect of the job is committed.            *)
(***************************************************************************)
CONSTANTS Jobs, Effects

VARIABLES
  phase,      \* where each job stands
  committed   \* the effects committed for each job

Phases == {"absent", "open", "committed", "ambiguous", "completed", "failed", "quarantined"}

\* The moves of one job that do not commit an effect.
Moves ==
  { <<"absent", "open">>,
    <<"open", "completed">>, <<"open", "failed">>, <<"open", "quarantined">>,
    <<"committed", "ambiguous">>, <<"committed", "completed">>, <<"committed", "failed">>,
    <<"ambiguous", "completed">>, <<"ambiguous", "failed">> }

PromiseInit ==
  /\ phase = [j \in Jobs |-> "absent"]
  /\ committed = [j \in Jobs |-> {}]

\* One transaction may move several jobs (a sweep does).
Move ==
  /\ phase' \in [Jobs -> Phases]
  /\ \A j \in Jobs : phase'[j] = phase[j] \/ <<phase[j], phase'[j]>> \in Moves
  /\ UNCHANGED committed

\* An effect belongs to one job only.
Commit(j, k) ==
  /\ phase[j] \in {"open", "committed"}
  /\ \A i \in Jobs : k \notin committed[i]
  /\ phase' = [phase EXCEPT ![j] = "committed"]
  /\ committed' = [committed EXCEPT ![j] = @ \cup {k}]

PromiseNext == Move \/ \E j \in Jobs, k \in Effects : Commit(j, k)

PromiseSpec == PromiseInit /\ [][PromiseNext]_<<phase, committed>>
=============================================================================
