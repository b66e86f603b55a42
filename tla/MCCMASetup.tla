----------------------------- MODULE MCCMASetup -----------------------------
(* Small instances of CMASetup.                                            *)
EXTENDS CMASetup, TLC

\* (int)(4 + 3 ln n), by dimension; 0 stands for no dimension
Lambdas == [n \in 0..3 |-> IF n <= 1 THEN 4 ELSE IF n = 2 THEN 6 ELSE 7]
Symmetry == Permutations(Object)

\* Several dimensions are explored with one object in use; several objects with
\* one dimension and without a typicalX, which is another way to give xmean.
OneObject == parameters = sp /\ \A o \in Object \ {sp} : heap[o] = NewParameters
OneDimension == {N, xmean, LBound, startsigma.len} \subseteq {Null, 0, 1}
\* The dead end of a dimension locked at 0 is entered and not followed.
Bound ==
  /\ OneObject \/ (OneDimension /\ typicalX = Null)
  /\ lockDimension = 1 => N > 0
=============================================================================
