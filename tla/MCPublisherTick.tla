-------------------------- MODULE MCPublisherTick ---------------------------
(* Small instances of PublisherTick for TLC. *)
EXTENDS PublisherTick, TLC

Timed == {[max |-> 1, available |-> 0, timeout |-> 1]}
=============================================================================
