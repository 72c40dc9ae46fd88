--------------------------- MODULE MCClientSpool ---------------------------
(* Small instances of ClientSpool for TLC. *)
EXTENDS ClientSpool, TLC

CONSTANTS d1, d2, s1, Second

OneSession == (d1 :> s1) @@ (d2 :> s1)

\* The bound of the run: the second drainer starts a batch only once every hook
\* returned and before the first failed attempt is on file; it may still be at
\* work when that one is recorded.
Scope ==
  at[Second] = "idle" /\ at'[Second] # "idle" =>
    /\ staged = Deliveries
    /\ \A d \in Deliveries, f \in Failures : disk[Attempt(d, f)] = Nil

ScopedNext == SpoolNext /\ Scope

ScopedSpec ==
  /\ SpoolInit /\ [][ScopedNext]_spoolVars
  /\ WF_spoolVars(Write)
  /\ \A p \in Drainers : WF_spoolVars(DrainStep(p) /\ Scope)
=============================================================================
