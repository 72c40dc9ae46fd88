--------------------------- MODULE MCUnitTestLoop ---------------------------
(* Small instances of the unit-test loop for TLC. *)
EXTENDS UnitTestLoop, TLC

CONSTANTS MaxEvents   \* bound: edits, pauses and cancels, and faults together

Events == edits + controls + faults

\* One event at any point of the first session; those after it are edits of test
\* files before the second, which alone may be a resumed one.
Scope ==
  /\ Events' # Events =>
       /\ Events' <= MaxEvents /\ starts <= 1
       /\ Events > 0 => pc = "idle" /\ edits' # edits /\ world' = world
  /\ resume' => starts' > 1

LoopNext == Next /\ Scope

LoopSpec == Init /\ [][LoopNext]_vars /\ WF_vars(SessionStep)
=============================================================================
