---------------------------- MODULE MCWorkerTick ----------------------------
(* Small instances of WorkerTick for TLC. *)
EXTENDS WorkerTick, TLC

CONSTANTS Second   \* a job that comes once a worker died, if there are several

Retried == {[max |-> 2, available |-> 0, timeout |-> None]}

\* The bound of the runs.  Nobody has to enqueue anything, so the fairness is
\* that of FairSpec.
Scope ==
  Second \in Jobs /\ state[Second] = "absent" /\ state'[Second] # "absent" => alive # Workers

WorkersNext == WorkerNext /\ Scope

WorkersSpec ==
  WorkerInit /\ [][WorkersNext]_workerVars /\ WF_workerVars(RecoverExpired(now) /\ UNCHANGED tickVars)
=============================================================================
