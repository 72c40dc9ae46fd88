---------------------------- MODULE MCBoundJobs ----------------------------
(* Small instances of BoundJobs for TLC. *)
EXTENDS BoundJobs, TLC

CONSTANTS w1, w2, r1, s2, c1, onStep, onWork

Retried == {[max |-> 2, available |-> 0, timeout |-> None]}

\* One job bound to a step that depends on another, one to a Work that may.
Bindings ==
  (onStep :> [work |-> w1, revision |-> 1, run |-> r1, step |-> s2, config |-> c1]) @@
  (onWork :> [work |-> w1, revision |-> 2, run |-> r1, step |-> None, config |-> c1])

\* The bound of the run: the steps, the second Work and the second configuration
\* come one at a time, the job bound to the Work comes without steps, the Run is
\* that of the first Work, and that Work is completed only by itself.
HasSteps == \E s \in Steps : step[s] # None
OtherConfig == config \ {c1} # {}
Scope ==
  /\ run[r1] # None => run[r1].work = w1
  /\ HasSteps =>
       /\ work[w1] \in [state : {"ready", "blocked"}, revision : 1..2, evidence : {FALSE}]
       /\ work[w2] = None /\ ~OtherConfig /\ state[onWork] = "absent"
  /\ work[w2] # None =>
       /\ work[w1] # None /\ ~work[w1].evidence
       /\ work[w2].revision <= 2 /\ ~OtherConfig

StoresNext == BoundNext /\ Scope'

StoresSpec == BoundInit /\ [][StoresNext]_boundVars
=============================================================================
