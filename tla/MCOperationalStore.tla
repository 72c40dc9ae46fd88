------------------------- MODULE MCOperationalStore -------------------------
(* Small instances of OperationalStore for TLC. *)
EXTENDS OperationalStore, TLC

CONSTANTS MaxRunRevision   \* bound: revisions of a Work that has a Run

\* The bound of the runs: several Works and their graph, or one Work and its Runs.
Scope ==
  (\E r \in Runs : run[r] # None) =>
    /\ Cardinality({w \in Works : work[w] # None}) = 1
    /\ \A w \in Works : work[w] # None => work[w].revision <= MaxRunRevision

StoreNext == AuthNext /\ Scope'

StoreSpec == AuthInit /\ [][StoreNext]_authVars

Symmetry == Permutations(Works) \cup Permutations(Configs) \cup Permutations(Steps)
=============================================================================
