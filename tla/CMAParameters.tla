---------------------------- MODULE CMAParameters ----------------------------
(***************************************************************************)
(* The strategy parameters of CMA-ES (class cma.CMAParameters): what a new *)
(* object holds, how missing values are supplemented from the dimension,   *)
(* and what the consistency check demands.                                 *)
(***************************************************************************)
EXTENDS Integers

CONSTANTS
  Size,           \* dimensions and array lengths a caller may use
  Number,         \* numbers a caller may pass for lambda or mu
  DefaultLambda   \* (int)(4 + 3 ln n) for a dimension n

ASSUME ParametersAssumption ==
  /\ Size \subseteq Nat /\ 1 \in Size /\ Number \subseteq Int
  /\ \A n \in Size : DefaultLambda[n] \in Nat /\ DefaultLambda[n] > 1
----------------------------------------------------------------------------
(* A learning rate is not positive (so, unset), in its range, or above     *)
(* one.  ccov, damps and mucov are left out: unset, they are supplemented  *)
(* to values that pass the check; the setters of damps and mucov are       *)
(* guarded as that of cs, setCcov is not guarded, as setCc.                *)
Rate == {"low", "ok", "high"}
RateName == {"cs", "cc"}
Null == -1

(* weights is the length of the array, or Null.                            *)
Parameters == [lambda : Int, mu : Int, weights : Int,
               rate : [RateName -> Rate],
               supplemented : {0, 1}, locked : {0, 1}]

NewParameters == [lambda |-> 0, mu |-> 0, weights |-> Null,
                  rate |-> [r \in RateName |-> "low"],
                  supplemented |-> 0, locked |-> 0]

Given(x, default) == IF x <= 0 THEN default ELSE x

(* Supplementation starts by locking the object.                           *)
Lock(p) == [p EXCEPT !.supplemented = 1, !.locked = 1]

(* One weight for each parent.  The assertion that the object is not locked*)
(* is left out; it would fail here whenever assertions are enabled.        *)
SetWeights(p) ==
  IF p.weights > 0 THEN p ELSE [p EXCEPT !.weights = p.mu]

SupplementRates(p) ==
  [p EXCEPT !.rate = [r \in RateName |-> IF @[r] = "low" THEN "ok" ELSE @[r]]]

\* Mutant: mu is supplemented before lambda is.
SupplementMuFirst(p, n) ==
  SupplementRates(SetWeights([Lock(p) EXCEPT
    !.lambda = Given(p.lambda, DefaultLambda[n]),
    !.mu = Given(p.mu, p.lambda \div 2)]))

(* supplementRemainders up to its check: each value that was not given is  *)
(* derived from those before it.                                           *)
Supplement(p, n) ==
  LET lambda == Given(p.lambda, DefaultLambda[n])
  IN  SupplementRates(SetWeights([Lock(p) EXCEPT
        !.lambda = lambda, !.mu = Given(p.mu, lambda \div 2)]))

(* check() finds nothing wrong with the structure of the population...     *)
SoundPopulation(p) ==
  p.lambda > 1 /\ p.mu \in 1..p.lambda /\ p.weights = p.mu

\* Mutant: the check does not compare mu with lambda.
CheckIgnoresLambda(p) ==
  /\ p.lambda > 1 /\ p.mu >= 1 /\ p.weights = p.mu
  /\ p.rate["cs"] = "ok" /\ p.rate["cc"] = "ok"

(* ... nor with the rates.                                                 *)
Sound(p) ==
  /\ SoundPopulation(p)
  /\ p.rate["cs"] = "ok" /\ p.rate["cc"] = "ok"
=============================================================================
