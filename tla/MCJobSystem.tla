---------------------------- MODULE MCJobSystem ----------------------------
(* Small instances of JobSystem.                                           *)
EXTENDS JobHistory, TLC

\* Forms that end without a generation, within one and within two, and one that the
\* optimiser rejects (a single individual per generation).
NoGeneration == [pop |-> 2, evals |-> 0, dev |-> 1]
OneGeneration == [pop |-> 2, evals |-> 2, dev |-> 1]
TwoGenerations == [pop |-> 2, evals |-> 3, dev |-> 1]
Rejected == [pop |-> 1, evals |-> 2, dev |-> 1]

ShortForms == {NoGeneration}
LongForms == {TwoGenerations}
AllForms == {NoGeneration, OneGeneration, TwoGenerations, Rejected}

Symmetry == Permutations(Client)
FullSymmetry ==
  Permutations(Client) \cup Permutations(Job) \cup Permutations(JobName)
=============================================================================
