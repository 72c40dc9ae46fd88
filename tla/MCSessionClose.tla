--------------------------- MODULE MCSessionClose ---------------------------
(* A small instance of SessionClose for TLC: two processes, one projection, *)
(* two events and two context manifests.                                    *)
EXTENDS SessionClose, TLC

\* A session that goes on behind a checkpoint, with a second event or manifest, has
\* no work job and no fault.  No action that is to be fair is cut off.
Scope ==
  tail = 2 \/ manifest = 2 =>
    /\ job["work"].state = "absent" /\ faults = 0
    /\ [covered |-> 1, manifest |-> 1] \in checkpoint

ScopedSpec == Init /\ [][Next /\ Scope']_vars /\ Fairness
=============================================================================
