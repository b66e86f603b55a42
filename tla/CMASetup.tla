------------------------------ MODULE CMASetup ------------------------------
(***************************************************************************)
(* A CMAEvolutionStrategy object from its construction to the end of a     *)
(* successful init(), with the CMAParameters objects it may refer to: the  *)
(* setters in any order, a properties file, and init() with each of its    *)
(* exits, after which the caller may correct the settings and try again.   *)
(* A call that only throws changes nothing and is not an action.           *)
(*                                                                         *)
(* An array is its length, Null when absent; of standard deviations it     *)
(* also matters whether all are positive; a scale is 1 when positive, else *)
(* 0.                                                                      *)
(***************************************************************************)
EXTENDS CMAParameters

CONSTANT Object      \* CMAParameters objects

ASSUME ObjectAssumption == Object # {}

VARIABLES
  state,           \* -1 until init() has succeeded, then 0
  N,               \* the dimension; 0 when unknown
  lockDimension,
  xmean, typicalX, LBound,
  startsigma, sigma,
  heap,            \* the CMAParameters objects
  parameters, sp,  \* the public field and its private alias
  fit,             \* length of the fitness arrays
  rejected         \* history: objects the check in init() has refused

arrays == <<xmean, typicalX, LBound, startsigma, sigma>>
objects == <<heap, parameters, sp, rejected>>
vars == <<state, N, lockDimension, arrays, objects, fit>>
----------------------------------------------------------------------------
NoDeviations == [len |-> Null, scale |-> 0]
Deviations == [len : Size, scale : {0, 1}] \cup {NoDeviations}

(* setDimension, also as the other setters call it.                        *)
MaySetDimension(n) == lockDimension = 0 \/ N = n

\* Mutant: an array setter adopts the length of its argument unasked.
Reshape(len) == N' = len /\ lockDimension' = 1

(* What the array setters do with the dimension: fix it, or insist on it.  *)
(* An array without elements locks the dimension at 0, and init() can no   *)
(* longer succeed.                                                         *)
Adopt(len) ==
  /\ N = len \/ (N = 0 /\ lockDimension = 0)
  /\ N' = len /\ lockDimension' = 1

SetDimension(n) ==
  /\ state < 0 /\ MaySetDimension(n)
  /\ N' = n
  /\ UNCHANGED <<state, lockDimension, arrays, objects, fit>>

(* A single value leaves the dimension open ("late binding").              *)
SetTypicalX(len) ==
  /\ state < 0
  /\ IF len = 1 THEN UNCHANGED <<N, lockDimension>> ELSE Adopt(len)
  /\ typicalX' = len
  /\ UNCHANGED <<state, xmean, LBound, startsigma, sigma, objects, fit>>

SetInitialStandardDeviations(len, scale) ==
  /\ state < 0
  /\ IF len = 1 THEN UNCHANGED <<N, lockDimension>> ELSE Adopt(len)
  /\ startsigma' = [len |-> len, scale |-> scale]
  /\ UNCHANGED <<state, xmean, typicalX, LBound, sigma, objects, fit>>

SetInitialX(len) ==
  /\ state < 0
  /\ IF len = 1 THEN UNCHANGED <<N, lockDimension>> ELSE Adopt(len)
  /\ xmean' = len
  /\ UNCHANGED <<state, typicalX, LBound, startsigma, sigma, objects, fit>>

(* setInitialX(l, u) with numbers needs the dimension, with arrays sets it.*)
SetInitialXWithin ==
  /\ state < 0 /\ N >= 1
  /\ xmean' = N /\ lockDimension' = 1
  /\ UNCHANGED <<state, N, typicalX, LBound, startsigma, sigma, objects, fit>>

SetInitialXBetween(len) ==
  /\ state < 0 /\ MaySetDimension(len)
  /\ N' = len /\ xmean' = len /\ lockDimension' = 1
  /\ UNCHANGED <<state, typicalX, LBound, startsigma, sigma, objects, fit>>
----------------------------------------------------------------------------
(* The setters of the object the caller sees as cma.parameters.            *)
Update(o, p) ==
  /\ heap' = [heap EXCEPT ![o] = p]
  /\ UNCHANGED <<state, N, lockDimension, arrays, parameters, sp, rejected, fit>>

SetPopulationSize(k) ==
  /\ heap[parameters].locked = 0
  /\ Update(parameters, [heap[parameters] EXCEPT !.lambda = k])

SetMu(k) ==
  /\ heap[parameters].locked = 0
  /\ Update(parameters, [heap[parameters] EXCEPT !.mu = k])

SetCs(v) ==
  /\ heap[parameters].locked = 0
  /\ Update(parameters, [heap[parameters] EXCEPT !.rate["cs"] = v])

(* setCc does not look at the lock.                                        *)
SetCc(v) == Update(parameters, [heap[parameters] EXCEPT !.rate["cc"] = v])

(* The public field is assigned another object, a new or an old one.       *)
AssignParameters(o) ==
  /\ o # parameters
  /\ parameters' = o
  /\ UNCHANGED <<state, N, lockDimension, arrays, heap, sp, rejected, fit>>

(* readProperties before init(), for a file that gives initialX and the    *)
(* deviations one value, then dimension and populationSize, applied in     *)
(* this order: a setter that throws leaves the earlier ones done.  The     *)
(* population size goes to the alias.                                      *)
ReadProperties(n, k) ==
  /\ state < 0
  /\ xmean' = 1 /\ startsigma' = [len |-> 1, scale |-> 1]
  /\ IF MaySetDimension(n)
     THEN /\ N' = n
          /\ heap' = IF heap[sp].locked = 1 THEN heap
                     ELSE [heap EXCEPT ![sp].lambda = k]
     ELSE UNCHANGED <<N, heap>>
  /\ UNCHANGED <<state, lockDimension, typicalX, LBound, sigma, parameters,
                 sp, rejected, fit>>
----------------------------------------------------------------------------
(* init().  It takes the parameters object of the moment and supplements   *)
(* it unless that was done before.                                         *)
Ready == IF heap[parameters].supplemented = 1 THEN heap[parameters]
         ELSE Supplement(heap[parameters], N)
Refused == heap[parameters].supplemented = 0 /\ ~Sound(Ready)
Fits(len) == len \in {1, N}

Begin ==
  /\ state < 0 /\ N > 0
  /\ heap' = [heap EXCEPT ![parameters] = [Ready EXCEPT !.locked = 1]]
  /\ sp' = parameters
  /\ UNCHANGED <<N, lockDimension, parameters>>

(* The check refuses the parameters; they stay supplemented and locked.    *)
InitRefuses ==
  /\ Begin /\ Refused
  /\ rejected' = rejected \cup {parameters}
  /\ UNCHANGED <<state, arrays, fit>>

Prepare == Begin /\ ~Refused /\ UNCHANGED rejected

(* Boundaries left by an earlier init() do not fit a new dimension.        *)
InitWrongBounds ==
  /\ Prepare /\ LBound # Null /\ ~Fits(LBound)
  /\ UNCHANGED <<state, arrays, fit>>

Bounded == Prepare /\ (LBound = Null \/ Fits(LBound)) /\ LBound' = N

(* sigma of one value, of an array, or what an earlier init() left (the    *)
(* branch with "assert false").                                            *)
Scale == IF Fits(startsigma.len) THEN startsigma.scale ELSE sigma

(* The largest of an array of deviations may be positive and the smallest  *)
(* not.                                                                    *)
InitNoDeviations ==
  /\ Bounded /\ (startsigma.len = Null \/ Scale = 0)
  /\ sigma' \in CASE startsigma.len = 1 -> {0}
               [] startsigma.len # 1 /\ startsigma.len = N -> {0, 1}
               [] OTHER -> {sigma}
  /\ UNCHANGED <<state, xmean, typicalX, startsigma, fit>>

\* Mutant: the array a single value is expanded to has an element too many.
ExpandTooFar(len) == IF len = 1 THEN N + 1 ELSE len

Expand(len) == IF len = 1 THEN N ELSE len

Scaled ==
  /\ Bounded /\ startsigma.len # Null /\ Scale = 1
  /\ sigma' = 1
  /\ startsigma' = [startsigma EXCEPT !.len = Expand(@)]

(* No usable initial point: expandToDimension throws, or there is none.    *)
InitNoPoint ==
  /\ Scaled
  /\ \/ typicalX # Null /\ ~Fits(typicalX) /\ UNCHANGED typicalX
     \/ /\ typicalX # Null => Fits(typicalX)
        /\ \/ xmean # Null /\ ~Fits(xmean)
           \/ xmean = Null /\ typicalX = Null
        /\ typicalX' = Expand(typicalX)
  /\ UNCHANGED <<state, xmean, fit>>

InitSucceeds ==
  /\ Scaled
  /\ typicalX # Null => Fits(typicalX)
  /\ xmean # Null => Fits(xmean)
  /\ {xmean, typicalX} # {Null}
  /\ typicalX' = Expand(typicalX)
  /\ xmean' = N
  /\ fit' = Ready.lambda
  /\ state' = 0

Initialize ==
  InitRefuses \/ InitWrongBounds \/ InitNoDeviations \/ InitNoPoint
    \/ InitSucceeds
----------------------------------------------------------------------------
Init ==
  /\ state = -1 /\ N = 0 /\ lockDimension = 0
  /\ xmean = Null /\ typicalX = Null /\ LBound = Null
  /\ startsigma = NoDeviations /\ sigma = 0
  /\ heap = [o \in Object |-> NewParameters]
  /\ sp \in Object /\ parameters = sp
  /\ fit = 0 /\ rejected = {}

Next ==
  \/ \E n \in Size : SetDimension(n)
  \/ \E len \in Size : SetTypicalX(len)
  \/ \E len \in Size, b \in {0, 1} : SetInitialStandardDeviations(len, b)
  \/ \E len \in Size : SetInitialX(len)
  \/ SetInitialXWithin
  \/ \E len \in Size : SetInitialXBetween(len)
  \/ \E k \in Number : SetPopulationSize(k)
  \/ \E k \in Number : SetMu(k)
  \/ \E v \in Rate : SetCs(v)
  \/ \E v \in Rate : SetCc(v)
  \/ \E o \in Object : AssignParameters(o)
  \/ \E n \in Size, k \in Number : ReadProperties(n, k)
  \/ Initialize

Spec == Init /\ [][Next]_vars
----------------------------------------------------------------------------
TypeOK ==
  /\ state \in {-1, 0}
  /\ N \in Size \cup {0}
  /\ lockDimension \in {0, 1}
  /\ {xmean, typicalX, LBound} \subseteq Size \cup {Null}
  /\ startsigma \in Deviations
  /\ sigma \in {0, 1}
  /\ heap \in [Object -> Parameters]
  /\ {parameters, sp} \subseteq Object
  /\ fit \in Int
  /\ rejected \subseteq Object

(* Whatever setters were called in whatever order, and however often       *)
(* init() failed in between, an initialised strategy has every array of    *)
(* its dimension, positive deviations, and fitness arrays of the size of a *)
(* population that can no longer change (CMAEvolutionStrategy 593-760).    *)
ReadyArrays ==
  state >= 0 =>
    /\ N > 0 /\ xmean = N /\ LBound = N /\ typicalX \in {Null, N}
    /\ startsigma = [len |-> N, scale |-> 1] /\ sigma = 1
    /\ fit = heap[sp].lambda /\ heap[sp].locked = 1

(* An initialised strategy runs on a population the check accepts, unless  *)
(* the check refused it once and init() was called again (CMAParameters    *)
(* 88-108, 156-213; CMAEvolutionStrategy 609-613).                         *)
SoundUnlessRefused ==
  state >= 0 /\ sp \notin rejected => SoundPopulation(heap[sp])

(* "supplements those parameters that were not explicitly given ... and    *)
(* does a respective consistency checking via method check()"              *)
(* (CMAParameters 29-34): so init() succeeds on sound populations only.    *)
SoundWhenReady == state >= 0 => SoundPopulation(heap[sp])

(* "Parameters cannot be changed after CMAEvolutionStrategy method init()  *)
(* was called." (CMAParameters 35-36)                                      *)
FrozenWhenReady == [][state >= 0 => heap'[sp] = heap[sp]]_vars

(* The check refuses only what the caller brought in: settings that are    *)
(* each admissible, or absent, are supplemented to parameters that pass,   *)
(* because each default is derived after the values it depends on          *)
(* (CMAParameters 22-34, 156-213).                                         *)
Admissible(p, n) ==
  /\ p.lambda # 1
  /\ p.mu <= Given(p.lambda, DefaultLambda[n])
  /\ p.rate["cs"] # "high" /\ p.rate["cc"] # "high"

RefusesOnlyBadValues ==
  [][\A o \in rejected' \ rejected : ~Admissible(heap[o], N)]_vars
=============================================================================
