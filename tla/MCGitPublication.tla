-------------------------- MODULE MCGitPublication --------------------------
(* Small instances of GitPublication for TLC.                              *)
EXTENDS GitPublication, TLC

OneShot == {[max |-> 1, available |-> 0, timeout |-> None]}

\* Every plan publishes the first commit.
FirstCommit == [j \in Jobs |-> 1]

\* The bound of the run: source and remote move by two commits together, and by
\* a third one after the push.  One caller lives, but need not go on.
Scope ==
  /\ alive # {}
  /\ \/ local + remote <= 2
     \/ local + remote = 3 /\ \E j \in Jobs : pushed[j] > 0

ScopedNext == PublicationNext /\ Scope'

ScopedSpec == PublicationInit /\ [][ScopedNext]_gitVars

Symmetry == Permutations(Workers)
=============================================================================
