--------------------------- MODULE MCLocalRuntime ---------------------------
(* Small instances of LocalRuntime for TLC. *)
EXTENDS LocalRuntime, TLC

Req(max, a, t) == [max |-> max, available |-> a, timeout |-> t]

OneShot == {Req(1, 0, None)}
\* The jobs without a timeout and those available later come from schedule_once.
TimedRetry == {Req(2, 0, 2)}

Symmetry == Permutations(Jobs) \cup Permutations(Effects) \cup Permutations(Workers)
=============================================================================
