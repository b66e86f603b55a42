--------------------------- MODULE CMASetup_proofs ---------------------------
(***************************************************************************)
(* What CMASetup guarantees of every sequence of settings and of failed    *)
(* and repeated calls of init(), for every set of dimensions, numbers and  *)
(* parameters objects.                                                     *)
(***************************************************************************)
EXTENDS CMASetup, TLAPS

USE DEF Null

(* A parameters object with one field changed is one.                      *)
LEMMA ChangeOne ==
  ASSUME NEW p \in Parameters
  PROVE  /\ \A i \in Int : /\ [p EXCEPT !.lambda = i] \in Parameters
                           /\ [p EXCEPT !.mu = i] \in Parameters
                           /\ [p EXCEPT !.weights = i] \in Parameters
         /\ \A b \in {0, 1} : /\ [p EXCEPT !.supplemented = b] \in Parameters
                              /\ [p EXCEPT !.locked = b] \in Parameters
         /\ \A f \in [RateName -> Rate] : [p EXCEPT !.rate = f] \in Parameters
<1>1. \A i \in Int : [p EXCEPT !.lambda = i] \in Parameters
  BY DEF Parameters
<1>2. \A i \in Int : [p EXCEPT !.mu = i] \in Parameters
  BY DEF Parameters
<1>3. \A i \in Int : [p EXCEPT !.weights = i] \in Parameters
  BY DEF Parameters
<1>4. \A b \in {0, 1} : [p EXCEPT !.supplemented = b] \in Parameters
  BY DEF Parameters
<1>5. \A b \in {0, 1} : [p EXCEPT !.locked = b] \in Parameters
  BY DEF Parameters
<1>6. \A f \in [RateName -> Rate] : [p EXCEPT !.rate = f] \in Parameters
  BY DEF Parameters
<1> QED BY <1>1, <1>2, <1>3, <1>4, <1>5, <1>6

LEMMA LockType ==
  ASSUME NEW p \in Parameters
  PROVE  /\ Lock(p) \in Parameters
         /\ Lock(p).supplemented = 1 /\ Lock(p).locked = 1
<1>1. [p EXCEPT !.supplemented = 1] \in Parameters
  BY ChangeOne
<1>2. [[p EXCEPT !.supplemented = 1] EXCEPT !.locked = 1] \in Parameters
  BY <1>1, ChangeOne, Zenon
<1>3. Lock(p) = [[p EXCEPT !.supplemented = 1] EXCEPT !.locked = 1]
  BY DEF Lock
<1>4. Lock(p).supplemented = 1 /\ Lock(p).locked = 1
  BY DEF Lock, Parameters
<1> QED BY <1>2, <1>3, <1>4, Zenon

LEMMA SetWeightsType ==
  ASSUME NEW p \in Parameters, p.supplemented = 1, p.locked = 1
  PROVE  /\ SetWeights(p) \in Parameters
         /\ SetWeights(p).supplemented = 1 /\ SetWeights(p).locked = 1
<1>1. CASE p.weights > 0
  BY <1>1 DEF SetWeights
<1>2. CASE ~(p.weights > 0)
  <2>1. SetWeights(p) = [p EXCEPT !.weights = p.mu]
    BY <1>2 DEF SetWeights
  <2>2. [p EXCEPT !.weights = p.mu] \in Parameters
    BY ChangeOne DEF Parameters
  <2>3. SetWeights(p).supplemented = 1 /\ SetWeights(p).locked = 1
    BY <2>1 DEF Parameters
  <2> QED BY <2>1, <2>2, <2>3
<1> QED BY <1>1, <1>2

(* Supplementing gives a parameters object, locked and supplemented.       *)
LEMMA SupplementType ==
  ASSUME NEW p \in Parameters, NEW n \in Size
  PROVE  /\ Supplement(p, n) \in Parameters
         /\ Supplement(p, n).supplemented = 1
         /\ Supplement(p, n).locked = 1
<1> DEFINE lambda == Given(p.lambda, DefaultLambda[n])
           mu == Given(p.mu, lambda \div 2)
           q == [Lock(p) EXCEPT !.lambda = lambda, !.mu = mu]
           w == SetWeights(q)
<1>1. lambda \in Int /\ mu \in Int
  BY ParametersAssumption DEF Parameters, Given
<1> HIDE DEF lambda, mu
<1>2. q \in Parameters /\ q.supplemented = 1 /\ q.locked = 1
  <2>1. [Lock(p) EXCEPT !.lambda = lambda] \in Parameters
    BY <1>1, LockType, ChangeOne, Zenon
  <2>2. [[Lock(p) EXCEPT !.lambda = lambda] EXCEPT !.mu = mu] \in Parameters
    BY <1>1, <2>1, ChangeOne, Zenon
  <2>3. q = [[Lock(p) EXCEPT !.lambda = lambda] EXCEPT !.mu = mu]
    OBVIOUS
  <2>4. q.supplemented = 1 /\ q.locked = 1
    BY LockType DEF Parameters
  <2> QED BY <2>2, <2>3, <2>4, Zenon
<1> HIDE DEF q
<1>3. w \in Parameters /\ w.supplemented = 1 /\ w.locked = 1
  BY <1>2, SetWeightsType, Zenon
<1> HIDE DEF w
<1>4. SupplementRates(w) \in Parameters
  BY <1>3, SMT DEF SupplementRates, Parameters, Rate
<1>5. /\ SupplementRates(w).supplemented = 1
      /\ SupplementRates(w).locked = 1
  BY <1>3, SMT DEF SupplementRates, Parameters
<1>6. Supplement(p, n) = SupplementRates(w)
  BY DEF Supplement, w, q, mu, lambda
<1> QED BY <1>4, <1>5, <1>6
----------------------------------------------------------------------------
(* Type correctness.                                                       *)

LEMMA ReadyType ==
  ASSUME TypeOK, N > 0
  PROVE  Ready \in Parameters /\ Ready.supplemented = 1
<1>1. N \in Size /\ heap[parameters] \in Parameters
  BY DEF TypeOK
<1>2. CASE heap[parameters].supplemented = 1
  BY <1>1, <1>2 DEF Ready
<1>3. CASE heap[parameters].supplemented # 1
  BY <1>1, <1>3, SupplementType DEF Ready
<1> QED BY <1>2, <1>3

LEMMA BeginType ==
  ASSUME TypeOK, Begin
  PROVE  /\ heap' \in [Object -> Parameters] /\ sp' = parameters
         /\ heap'[parameters].locked = 1
         /\ heap'[parameters].supplemented = 1
         /\ heap'[parameters].lambda = Ready.lambda
         /\ heap'[parameters].mu = Ready.mu
         /\ heap'[parameters].weights = Ready.weights
         /\ \A o \in Object \ {parameters} : heap'[o] = heap[o]
<1> DEFINE p == [Ready EXCEPT !.locked = 1]
<1>1. Ready \in Parameters /\ Ready.supplemented = 1
  BY ReadyType DEF Begin
<1>2. heap' = [heap EXCEPT ![parameters] = p] /\ sp' = parameters
  BY DEF Begin
<1>3. p \in Parameters
  BY <1>1, ChangeOne
<1>4. /\ p.locked = 1 /\ p.supplemented = 1 /\ p.lambda = Ready.lambda
      /\ p.mu = Ready.mu /\ p.weights = Ready.weights
  BY <1>1 DEF Parameters
<1>5. heap \in [Object -> Parameters] /\ parameters \in Object
  BY DEF TypeOK
<1> HIDE DEF p
<1>6. /\ heap' \in [Object -> Parameters] /\ heap'[parameters] = p
      /\ \A o \in Object \ {parameters} : heap'[o] = heap[o]
  BY <1>2, <1>3, <1>5
<1> QED BY <1>2, <1>4, <1>6

LEMMA UpdateType ==
  ASSUME TypeOK, NEW o \in Object, NEW p \in Parameters,
         heap' = [heap EXCEPT ![o] = p]
  PROVE  /\ heap' \in [Object -> Parameters]
         /\ heap'[o] = p /\ \A q \in Object \ {o} : heap'[q] = heap[q]
  BY DEF TypeOK

(* What a setter makes of a parameters object.                             *)
LEMMA SetterTypes ==
  ASSUME NEW p \in Parameters
  PROVE  /\ \A k \in Number : /\ [p EXCEPT !.lambda = k] \in Parameters
                              /\ [p EXCEPT !.mu = k] \in Parameters
         /\ \A r \in RateName, v \in Rate :
              [p EXCEPT !.rate[r] = v] \in Parameters
<1>1. \A k \in Number : /\ [p EXCEPT !.lambda = k] \in Parameters
                        /\ [p EXCEPT !.mu = k] \in Parameters
  BY ChangeOne, ParametersAssumption
<1>2. ASSUME NEW r \in RateName, NEW v \in Rate
      PROVE  [p EXCEPT !.rate[r] = v] \in Parameters
  <2>1. p.rate \in [RateName -> Rate]
    BY DEF Parameters
  <2>2. [p.rate EXCEPT ![r] = v] \in [RateName -> Rate]
    BY <2>1
  <2>3. [p EXCEPT !.rate = [p.rate EXCEPT ![r] = v]] \in Parameters
    BY <2>2, ChangeOne
  <2>4. [p EXCEPT !.rate[r] = v] = [p EXCEPT !.rate = [p.rate EXCEPT ![r] = v]]
    OBVIOUS
  <2> QED BY <2>3, <2>4, Zenon
<1> QED BY <1>1, <1>2

LEMMA InitType == Init => TypeOK
<1>1. NewParameters \in Parameters
  BY DEF NewParameters, Parameters, Rate
<1>2. NoDeviations \in Deviations
  BY DEF NoDeviations, Deviations
<1> SUFFICES ASSUME Init PROVE TypeOK
  OBVIOUS
<1>3. heap \in [Object -> Parameters] /\ startsigma \in Deviations
  BY <1>1, <1>2 DEF Init
<1>4. /\ state \in {-1, 0} /\ N \in Size \cup {0} /\ lockDimension \in {0, 1}
      /\ {xmean, typicalX, LBound} \subseteq Size \cup {Null}
      /\ sigma \in {0, 1} /\ fit \in Int
  BY DEF Init
<1>5. {parameters, sp} \subseteq Object /\ rejected \subseteq Object
  BY DEF Init
<1> QED BY <1>3, <1>4, <1>5 DEF TypeOK

LEMMA ArraySettersType ==
  ASSUME TypeOK,
         \/ \E n \in Size : SetDimension(n)
         \/ \E len \in Size : SetTypicalX(len)
         \/ \E len \in Size, b \in {0, 1} :
              SetInitialStandardDeviations(len, b)
         \/ \E len \in Size : SetInitialX(len)
         \/ SetInitialXWithin
         \/ \E len \in Size : SetInitialXBetween(len)
  PROVE  TypeOK'
<1>1. CASE \E n \in Size : SetDimension(n)
  BY <1>1 DEF SetDimension, TypeOK, arrays, objects
<1>2. CASE \E len \in Size : SetTypicalX(len)
  BY <1>2 DEF SetTypicalX, Adopt, TypeOK, objects
<1>3. CASE \E len \in Size, b \in {0, 1} :
            SetInitialStandardDeviations(len, b)
  BY <1>3
  DEF SetInitialStandardDeviations, Adopt, TypeOK, objects, Deviations
<1>4. CASE \E len \in Size : SetInitialX(len)
  BY <1>4 DEF SetInitialX, Adopt, TypeOK, objects
<1>5. CASE SetInitialXWithin
  BY <1>5, ParametersAssumption DEF SetInitialXWithin, TypeOK, objects
<1>6. CASE \E len \in Size : SetInitialXBetween(len)
  BY <1>6 DEF SetInitialXBetween, TypeOK, objects
<1> QED BY <1>1, <1>2, <1>3, <1>4, <1>5, <1>6

LEMMA UpdateKeepsType ==
  ASSUME TypeOK, NEW p \in Parameters, Update(parameters, p)
  PROVE  TypeOK'
<1>1. parameters \in Object
  BY DEF TypeOK
<1>2. heap' \in [Object -> Parameters]
  BY <1>1, UpdateType DEF Update
<1> QED BY <1>2 DEF Update, TypeOK, arrays

LEMMA ParameterSettersType ==
  ASSUME TypeOK,
         \/ \E k \in Number : SetPopulationSize(k)
         \/ \E k \in Number : SetMu(k)
         \/ \E v \in Rate : SetCs(v)
         \/ \E v \in Rate : SetCc(v)
  PROVE  TypeOK'
<1>1. heap[parameters] \in Parameters /\ {"cs", "cc"} = RateName
  BY DEF TypeOK, RateName
<1>2. CASE \E k \in Number : SetPopulationSize(k)
  BY <1>1, <1>2, SetterTypes, UpdateKeepsType DEF SetPopulationSize
<1>3. CASE \E k \in Number : SetMu(k)
  BY <1>1, <1>3, SetterTypes, UpdateKeepsType DEF SetMu
<1>4. CASE \E v \in Rate : SetCs(v)
  BY <1>1, <1>4, SetterTypes, UpdateKeepsType DEF SetCs
<1>5. CASE \E v \in Rate : SetCc(v)
  BY <1>1, <1>5, SetterTypes, UpdateKeepsType DEF SetCc
<1> QED BY <1>2, <1>3, <1>4, <1>5

LEMMA ReadPropertiesType ==
  ASSUME TypeOK, NEW n \in Size, NEW k \in Number, ReadProperties(n, k)
  PROVE  TypeOK'
<1>1. heap[sp] \in Parameters /\ sp \in Object
  BY DEF TypeOK
<1>2. heap' = [heap EXCEPT ![sp] = [heap[sp] EXCEPT !.lambda = k]]
        => heap' \in [Object -> Parameters]
  BY <1>1, SetterTypes, UpdateType
<1>3. heap' = [heap EXCEPT ![sp].lambda = k]
        => heap' = [heap EXCEPT ![sp] = [heap[sp] EXCEPT !.lambda = k]]
  OBVIOUS
<1>4. heap' \in [Object -> Parameters]
  BY <1>2, <1>3 DEF ReadProperties, TypeOK
<1> QED BY <1>4, ParametersAssumption
    DEF ReadProperties, TypeOK, Deviations

LEMMA InitializeType ==
  ASSUME TypeOK, Initialize
  PROVE  TypeOK'
<1>1. /\ heap' \in [Object -> Parameters] /\ sp' \in Object
      /\ parameters' \in Object /\ N' \in Size \cup {0}
      /\ lockDimension' \in {0, 1} /\ N \in Size /\ Ready.lambda \in Int
  <2>1. Begin
    BY DEF Initialize, InitRefuses, InitWrongBounds, InitNoDeviations,
       InitNoPoint, InitSucceeds, Scaled, Bounded, Prepare
  <2>2. Ready \in Parameters
    BY <2>1, ReadyType DEF Begin
  <2> QED BY <2>1, <2>2, BeginType DEF Begin, TypeOK, Parameters
<1>2. CASE InitRefuses
  BY <1>1, <1>2 DEF InitRefuses, arrays, TypeOK
<1>3. CASE InitWrongBounds
  BY <1>1, <1>3 DEF InitWrongBounds, Prepare, arrays, TypeOK
<1>4. CASE InitNoDeviations
  BY <1>1, <1>4 DEF InitNoDeviations, Bounded, Prepare, TypeOK
<1>5. CASE InitNoPoint
  BY <1>1, <1>5 DEF InitNoPoint, Scaled, Bounded, Prepare, TypeOK, Expand,
     Deviations, NoDeviations
<1>6. CASE InitSucceeds
  BY <1>1, <1>6 DEF InitSucceeds, Scaled, Bounded, Prepare, TypeOK, Expand,
     Deviations, NoDeviations
<1> QED BY <1>2, <1>3, <1>4, <1>5, <1>6 DEF Initialize

LEMMA NextType == TypeOK /\ [Next]_vars => TypeOK'
<1> SUFFICES ASSUME TypeOK, [Next]_vars PROVE TypeOK'
  OBVIOUS
<1>1. CASE UNCHANGED vars
  BY <1>1 DEF vars, arrays, objects, TypeOK
<1>2. CASE \E o \in Object : AssignParameters(o)
  BY <1>2 DEF AssignParameters, arrays, TypeOK
<1> QED BY <1>1, <1>2, ArraySettersType, ParameterSettersType,
           ReadPropertiesType, InitializeType DEF Next

(* Every variable of a strategy being set up always has its type: no call  *)
(* of a setter, of readProperties or of init(), successful or not, leaves  *)
(* a dimension or an array of a length that no caller gave (CMASetup).     *)
THEOREM TypeCorrect == Spec => []TypeOK
  BY InitType, NextType, PTL DEF Spec
----------------------------------------------------------------------------
(* The arrays of an initialised strategy.                                  *)

(* Before init() succeeds an array is absent, has one element, or has the  *)
(* length of a dimension that is locked - or the length a failed init()    *)
(* gave it, which the boundaries then have too, so that no later init()    *)
(* gets past them with another dimension.                                  *)
Settled(len) == len \in {Null, 1} \/ (lockDimension = 1 /\ len = N)

ArraysInv ==
  state < 0 =>
    /\ Settled(xmean)
    /\ Settled(typicalX) \/ typicalX = LBound
    /\ Settled(startsigma.len) \/ startsigma.len = LBound

(* A supplemented object is locked, and has a sound population unless the  *)
(* check has refused it.                                                   *)
ObjectsInv ==
  /\ \A o \in Object : heap[o].supplemented = 1 =>
       /\ heap[o].locked = 1
       /\ o \in rejected \/ SoundPopulation(heap[o])
  /\ state >= 0 => heap[sp].supplemented = 1

SetupInv == TypeOK /\ ArraysInv /\ ObjectsInv /\ ReadyArrays

LEMMA InitSetup == Init => SetupInv
<1> SUFFICES ASSUME Init PROVE SetupInv
  OBVIOUS
<1>1. TypeOK
  BY InitType
<1>2. ArraysInv /\ ReadyArrays
  BY DEF Init, ArraysInv, ReadyArrays, Settled, NoDeviations
<1>3. ObjectsInv
  BY DEF Init, ObjectsInv, NewParameters
<1> QED BY <1>1, <1>2, <1>3 DEF SetupInv

LEMMA ArraySettersKeep ==
  ASSUME SetupInv,
         \/ \E n \in Size : SetDimension(n)
         \/ \E len \in Size : SetTypicalX(len)
         \/ \E len \in Size, b \in {0, 1} :
              SetInitialStandardDeviations(len, b)
         \/ \E len \in Size : SetInitialX(len)
         \/ SetInitialXWithin
         \/ \E len \in Size : SetInitialXBetween(len)
  PROVE  ArraysInv' /\ state' < 0 /\ UNCHANGED objects
<1>0. ArraysInv /\ state \in Int /\ N \in Nat /\ Size \subseteq Nat
  BY ParametersAssumption DEF SetupInv, TypeOK
<1> USE <1>0 DEF ArraysInv, Settled
<1>1. CASE \E n \in Size : SetDimension(n)
  BY <1>1 DEF SetDimension, MaySetDimension, arrays
<1>2. CASE \E len \in Size : SetTypicalX(len)
  BY <1>2 DEF SetTypicalX, Adopt
<1>3. CASE \E len \in Size, b \in {0, 1} :
            SetInitialStandardDeviations(len, b)
  <2>1. PICK len \in Size, b \in {0, 1} :
               SetInitialStandardDeviations(len, b)
    BY <1>3
  <2>2. startsigma'.len = len
    BY <2>1 DEF SetInitialStandardDeviations
  <2>3. /\ UNCHANGED <<state, xmean, typicalX, LBound, objects>> /\ state < 0
        /\ \/ len = 1 /\ UNCHANGED <<N, lockDimension>>
           \/ /\ N = len \/ lockDimension = 0
              /\ N' = len /\ lockDimension' = 1
    BY <2>1 DEF SetInitialStandardDeviations, Adopt
  <2>4. Settled(xmean)' /\ (Settled(typicalX) \/ typicalX = LBound)'
    BY <2>3
  <2>5. Settled(startsigma.len)'
    BY <2>2, <2>3
  <2> QED BY <2>3, <2>4, <2>5
<1>4. CASE \E len \in Size : SetInitialX(len)
  BY <1>4 DEF SetInitialX, Adopt
<1>5. CASE SetInitialXWithin
  BY <1>5 DEF SetInitialXWithin
<1>6. CASE \E len \in Size : SetInitialXBetween(len)
  BY <1>6 DEF SetInitialXBetween, MaySetDimension
<1> QED BY <1>1, <1>2, <1>3, <1>4, <1>5, <1>6

(* A failed init() leaves the arrays settled or as long as the boundaries; *)
(* a successful one leaves them all of the dimension.                      *)
LEMMA InitializeArrays ==
  ASSUME SetupInv, Initialize
  PROVE  ArraysInv' /\ ReadyArrays'
<1>1. /\ Begin /\ state < 0 /\ N > 0 /\ N' = N
      /\ lockDimension' = lockDimension
  BY DEF Initialize, InitRefuses, InitWrongBounds, InitNoDeviations,
     InitNoPoint, InitSucceeds, Scaled, Bounded, Prepare, Begin
<1>2. TypeOK /\ ArraysInv
  BY DEF SetupInv
<1>3. CASE InitRefuses
  BY <1>1, <1>2, <1>3
  DEF InitRefuses, arrays, ArraysInv, ReadyArrays, Settled, TypeOK
<1>4. CASE InitWrongBounds
  BY <1>1, <1>2, <1>4
  DEF InitWrongBounds, arrays, ArraysInv, ReadyArrays, Settled, TypeOK
<1>5. CASE InitNoDeviations
  BY <1>1, <1>2, <1>5 DEF InitNoDeviations, Bounded, ArraysInv, ReadyArrays,
     Settled, Fits, TypeOK
<1>6. Scaled => /\ LBound' = N /\ sigma' = 1
                /\ startsigma' = [len |-> N, scale |-> 1]
  <2> SUFFICES ASSUME Scaled
               PROVE  /\ LBound' = N /\ sigma' = 1
                      /\ startsigma' = [len |-> N, scale |-> 1]
    OBVIOUS
  <2>1. LBound' = N /\ (LBound = Null \/ Fits(LBound)) /\ sigma' = 1
    BY DEF Scaled, Bounded
  <2>2. Fits(startsigma.len)
    BY <1>1, <1>2, <2>1 DEF Scaled, ArraysInv, Settled, Fits
  <2>3. startsigma.scale = 1
    BY <2>2 DEF Scaled, Scale
  <2>4. startsigma = [len |-> startsigma.len, scale |-> 1]
    BY <1>2, <2>3 DEF TypeOK, Deviations, NoDeviations
  <2>5. startsigma' = [startsigma EXCEPT !.len = N]
    BY <2>2 DEF Scaled, Fits, Expand
  <2>6. startsigma' = [len |-> N, scale |-> 1]
    BY <2>4, <2>5
  <2> QED BY <2>1, <2>6
<1>7. CASE InitNoPoint
  <2>1. LBound' = N /\ startsigma'.len = N
    BY <1>6, <1>7 DEF InitNoPoint
  <2>4. /\ Settled(typicalX) \/ typicalX = LBound
        /\ LBound = Null \/ Fits(LBound)
    BY <1>1, <1>2, <1>7 DEF InitNoPoint, Scaled, Bounded, ArraysInv
  <2>5. typicalX = Null \/ Fits(typicalX)
    BY <2>4 DEF Settled, Fits
  <2>6. typicalX' \in {Null, N}
    BY <1>7, <2>5 DEF InitNoPoint, Fits, Expand
  <2> QED BY <1>1, <1>2, <1>7, <2>1, <2>6
      DEF InitNoPoint, ArraysInv, ReadyArrays, Settled, TypeOK
<1>8. CASE InitSucceeds
  <2>1. /\ state' = 0 /\ xmean' = N /\ fit' = Ready.lambda
        /\ typicalX' \in {Null, N}
    BY <1>8 DEF InitSucceeds, Fits, Expand
  <2>2. sp' = parameters /\ heap'[sp'].lambda = Ready.lambda
        /\ heap'[sp'].locked = 1
    BY <1>1, <1>2, BeginType
  <2>3. Scaled
    BY <1>8 DEF InitSucceeds
  <2> QED BY <1>1, <1>6, <2>1, <2>2, <2>3 DEF ArraysInv, ReadyArrays
<1> QED BY <1>3, <1>4, <1>5, <1>7, <1>8 DEF Initialize

LEMMA InitializeObjects ==
  ASSUME SetupInv, Initialize
  PROVE  ObjectsInv'
<1>1. /\ Begin
      /\ \/ Refused /\ rejected' = rejected \cup {parameters} /\ state' = state
         \/ ~Refused /\ rejected' = rejected
  BY DEF Initialize, InitRefuses, InitWrongBounds, InitNoDeviations,
     InitNoPoint, InitSucceeds, Scaled, Bounded, Prepare
<1>2. TypeOK /\ ObjectsInv
  BY DEF SetupInv
<1>3. /\ sp' = parameters /\ parameters \in Object
      /\ heap'[parameters].locked = 1 /\ heap'[parameters].supplemented = 1
      /\ heap'[parameters].lambda = Ready.lambda
      /\ heap'[parameters].mu = Ready.mu
      /\ heap'[parameters].weights = Ready.weights
      /\ \A o \in Object \ {parameters} : heap'[o] = heap[o]
  BY <1>1, <1>2, BeginType DEF TypeOK
<1>4. parameters \in rejected' \/ SoundPopulation(Ready)
  <2>1. CASE Refused
    BY <1>1, <2>1
  <2>2. CASE ~Refused /\ heap[parameters].supplemented = 1
    BY <1>1, <1>2, <1>3, <2>2 DEF ObjectsInv, Ready
  <2>3. CASE ~Refused /\ heap[parameters].supplemented # 1
    <3>1. heap[parameters] \in Parameters
      BY <1>2 DEF TypeOK
    <3>2. heap[parameters].supplemented = 0
      BY <2>3, <3>1 DEF Parameters
    <3> QED BY <2>3, <3>2 DEF Refused, Sound
  <2> QED BY <2>1, <2>2, <2>3
<1>5. parameters \in rejected' \/ SoundPopulation(heap'[parameters])
  BY <1>3, <1>4 DEF SoundPopulation
<1>6. ASSUME NEW o \in Object, heap'[o].supplemented = 1
      PROVE  heap'[o].locked = 1 /\ (o \in rejected' \/ SoundPopulation(heap'[o]))
  <2>1. CASE o = parameters
    BY <1>3, <1>5, <2>1
  <2>2. CASE o # parameters
    <3>1. heap'[o] = heap[o] /\ rejected \subseteq rejected'
      BY <1>1, <1>3, <2>2
    <3> QED BY <1>2, <1>6, <3>1 DEF ObjectsInv
  <2> QED BY <2>1, <2>2
<1> QED BY <1>3, <1>6 DEF ObjectsInv

(* A setter of the parameters changes no locked object but in its rates.   *)
SamePopulation(p, q) ==
  /\ p.supplemented = q.supplemented /\ p.locked = q.locked
  /\ p.lambda = q.lambda /\ p.mu = q.mu /\ p.weights = q.weights

LEMMA SetterEffects ==
  ASSUME NEW p \in Parameters
  PROVE  /\ \A k \in Number :
              /\ [p EXCEPT !.lambda = k].supplemented = p.supplemented
              /\ [p EXCEPT !.lambda = k].locked = p.locked
              /\ [p EXCEPT !.mu = k].supplemented = p.supplemented
              /\ [p EXCEPT !.mu = k].locked = p.locked
         /\ \A v \in Rate : /\ SamePopulation([p EXCEPT !.rate["cs"] = v], p)
                            /\ SamePopulation([p EXCEPT !.rate["cc"] = v], p)
  BY DEF Parameters, SamePopulation

LEMMA ParametersSettersKeep ==
  ASSUME SetupInv,
         \/ \E k \in Number : SetPopulationSize(k)
         \/ \E k \in Number : SetMu(k)
         \/ \E v \in Rate : SetCs(v)
         \/ \E v \in Rate : SetCc(v)
         \/ \E n \in Size, k \in Number : ReadProperties(n, k)
  PROVE  \A o \in Object :
           \/ SamePopulation(heap'[o], heap[o])
           \/ heap[o].locked = 0 /\ heap'[o].supplemented = heap[o].supplemented
<1>1. /\ heap \in [Object -> Parameters] /\ parameters \in Object
      /\ sp \in Object
  BY DEF SetupInv, TypeOK
<1>2. CASE \E k \in Number : SetPopulationSize(k)
  BY <1>1, <1>2, SetterEffects DEF SetPopulationSize, Update, SamePopulation
<1>3. CASE \E k \in Number : SetMu(k)
  BY <1>1, <1>3, SetterEffects DEF SetMu, Update, SamePopulation
<1>4. CASE \E v \in Rate : SetCs(v)
  BY <1>1, <1>4, SetterEffects DEF SetCs, Update, SamePopulation
<1>5. CASE \E v \in Rate : SetCc(v)
  BY <1>1, <1>5, SetterEffects DEF SetCc, Update, SamePopulation
<1>6. CASE \E n \in Size, k \in Number : ReadProperties(n, k)
  <2>1. heap[sp].locked \in {0, 1}
    BY <1>1 DEF Parameters
  <2>2. PICK n \in Size, k \in Number : ReadProperties(n, k)
    BY <1>6
  <2> DEFINE p == [heap[sp] EXCEPT !.lambda = k]
  <2>3. heap' = heap
          \/ (heap[sp].locked = 0 /\ heap' = [heap EXCEPT ![sp] = p])
    BY <2>1, <2>2 DEF ReadProperties
  <2>4. p.supplemented = heap[sp].supplemented
    BY <1>1, SetterEffects
  <2> HIDE DEF p
  <2> QED BY <1>1, <2>3, <2>4 DEF SamePopulation
<1> QED BY <1>2, <1>3, <1>4, <1>5, <1>6

LEMMA NextSetup == SetupInv /\ [Next]_vars => SetupInv'
<1> SUFFICES ASSUME SetupInv, [Next]_vars PROVE SetupInv'
  OBVIOUS
<1>1. TypeOK /\ TypeOK'
  BY NextType DEF SetupInv
<1>2. CASE UNCHANGED vars
  BY <1>2 DEF vars, arrays, objects, SetupInv, TypeOK, ArraysInv, Settled,
     ObjectsInv, ReadyArrays, SoundPopulation
<1>3. CASE \/ \E n \in Size : SetDimension(n)
           \/ \E len \in Size : SetTypicalX(len)
           \/ \E len \in Size, b \in {0, 1} :
                SetInitialStandardDeviations(len, b)
           \/ \E len \in Size : SetInitialX(len)
           \/ SetInitialXWithin
           \/ \E len \in Size : SetInitialXBetween(len)
  <2>1. ArraysInv' /\ state' < 0 /\ UNCHANGED objects
    BY <1>3, ArraySettersKeep
  <2>2. ObjectsInv'
    BY <1>1, <2>1 DEF SetupInv, TypeOK, ObjectsInv, objects, SoundPopulation
  <2>3. ReadyArrays'
    BY <1>1, <2>1 DEF ReadyArrays, TypeOK
  <2> QED BY <1>1, <2>1, <2>2, <2>3 DEF SetupInv
<1>4. CASE \/ \E k \in Number : SetPopulationSize(k)
           \/ \E k \in Number : SetMu(k)
           \/ \E v \in Rate : SetCs(v)
           \/ \E v \in Rate : SetCc(v)
           \/ \E n \in Size, k \in Number : ReadProperties(n, k)
  <2>1. \A o \in Object :
          \/ SamePopulation(heap'[o], heap[o])
          \/ heap[o].locked = 0 /\ heap'[o].supplemented = heap[o].supplemented
    BY <1>4, ParametersSettersKeep
  <2>2. /\ UNCHANGED <<sp, rejected, state>>
        /\ \/ UNCHANGED <<N, lockDimension, arrays, fit>>
           \/ /\ state < 0 /\ UNCHANGED <<lockDimension, typicalX, LBound>>
              /\ xmean' = 1 /\ startsigma'.len = 1
              /\ N' = N \/ lockDimension = 0
    BY <1>4 DEF SetPopulationSize, SetMu, SetCs, SetCc, Update,
       ReadProperties, MaySetDimension
  <2>3. ArraysInv'
    BY <1>1, <2>2 DEF SetupInv, ArraysInv, Settled, arrays
  <2>4. ObjectsInv'
    BY <1>1, <2>1, <2>2
    DEF SetupInv, TypeOK, ObjectsInv, SamePopulation, SoundPopulation
  <2>5. ReadyArrays'
    BY <1>1, <2>1, <2>2
    DEF SetupInv, TypeOK, ReadyArrays, SamePopulation, arrays
  <2> QED BY <1>1, <2>3, <2>4, <2>5 DEF SetupInv
<1>5. CASE \E o \in Object : AssignParameters(o)
  BY <1>1, <1>5 DEF AssignParameters, arrays, SetupInv, ArraysInv, Settled,
     ObjectsInv, ReadyArrays, SoundPopulation
<1>6. CASE Initialize
  BY <1>1, <1>6, InitializeArrays, InitializeObjects DEF SetupInv
<1> QED BY <1>2, <1>3, <1>4, <1>5, <1>6 DEF Next

THEOREM SetupInvariant == Spec => []SetupInv
  BY InitSetup, NextSetup, PTL DEF Spec

(* An initialised strategy has every array of its dimension, positive      *)
(* deviations and fitness arrays of its population size, whatever setters  *)
(* were called in whatever order and however often init() failed before    *)
(* (CMAEvolutionStrategy 575-760, 2015-2150).                              *)
THEOREM ArraysReady == Spec => []ReadyArrays
  BY SetupInvariant, PTL DEF SetupInv

(* An initialised strategy whose parameters the check never refused has a  *)
(* population the check accepts (CMAParameters 88-109, 156-213).           *)
THEOREM PopulationSound == Spec => []SoundUnlessRefused
<1>1. SetupInv => SoundUnlessRefused
  BY DEF SetupInv, TypeOK, ObjectsInv, SoundUnlessRefused
<1> QED BY <1>1, SetupInvariant, PTL
----------------------------------------------------------------------------
(* What the check refuses.                                                 *)

(* Only supplementing sets the weights, and it supplements at once.        *)
WeightsInv == \A o \in Object : heap[o].supplemented = 0 =>
                                  heap[o].weights = Null

RefusalInv == TypeOK /\ WeightsInv

(* What is derived from admissible settings passes the check: the default  *)
(* of mu is half of a lambda above one, and there is a weight for each     *)
(* parent.                                                                 *)
LEMMA AdmissiblePasses ==
  ASSUME NEW p \in Parameters, NEW n \in Size, p.weights = Null,
         Admissible(p, n)
  PROVE  Sound(Supplement(p, n))
<1> DEFINE lambda == Given(p.lambda, DefaultLambda[n])
           mu == Given(p.mu, lambda \div 2)
           q == [Lock(p) EXCEPT !.lambda = lambda, !.mu = mu]
           w == SetWeights(q)
<1>1. /\ p.lambda \in Int /\ p.mu \in Int /\ p.lambda # 1 /\ p.mu <= lambda
      /\ DefaultLambda[n] \in Nat /\ DefaultLambda[n] > 1
  BY ParametersAssumption DEF Parameters, Admissible
<1>2. lambda \in Int /\ lambda > 1
  BY <1>1 DEF Given
<1> HIDE DEF lambda
<1>3. mu \in 1..lambda
  BY <1>1, <1>2 DEF Given
<1> HIDE DEF mu
<1>4. /\ Lock(p) \in Parameters /\ Lock(p).rate = p.rate
      /\ Lock(p).weights = Null
  BY LockType DEF Lock, Parameters
<1>5. /\ q.lambda = lambda /\ q.mu = mu /\ q.rate = p.rate
      /\ q.weights = Null /\ q \in Parameters
  <2>1. q = [[Lock(p) EXCEPT !.lambda = lambda] EXCEPT !.mu = mu]
    OBVIOUS
  <2>2. [Lock(p) EXCEPT !.lambda = lambda] \in Parameters
    BY <1>2, <1>4, ChangeOne, Zenon
  <2>3. mu \in Int
    BY <1>2, <1>3
  <2>4. q \in Parameters
    BY <2>1, <2>2, <2>3, ChangeOne, Zenon
  <2> QED BY <1>4, <2>4 DEF Parameters
<1> HIDE DEF q
<1>6. /\ w.lambda = lambda /\ w.mu = mu /\ w.rate = p.rate
      /\ w.weights = mu
  BY <1>5 DEF SetWeights, Parameters
<1>7. w = [w EXCEPT !.rate = @] /\ DOMAIN w = DOMAIN q
  BY <1>5 DEF SetWeights, Parameters
<1> HIDE DEF w
<1>8. Supplement(p, n) = SupplementRates(w)
  BY DEF Supplement, w, q, mu, lambda
<1>9. /\ SupplementRates(w).lambda = lambda /\ SupplementRates(w).mu = mu
      /\ SupplementRates(w).weights = mu
  BY <1>6 DEF SupplementRates
<1>10. /\ SupplementRates(w).rate["cs"] = "ok"
       /\ SupplementRates(w).rate["cc"] = "ok"
  <2>1. SupplementRates(w).rate =
          [r \in RateName |-> IF w.rate[r] = "low" THEN "ok" ELSE w.rate[r]]
    BY <1>5, <1>7 DEF SupplementRates, Parameters
  <2>2. \A r \in RateName : p.rate[r] \in Rate
    BY DEF Parameters
  <2> QED BY <1>6, <2>1, <2>2 DEF Admissible, RateName, Rate
<1> QED BY <1>2, <1>3, <1>8, <1>9, <1>10 DEF Sound, SoundPopulation

LEMMA SetterWeights ==
  ASSUME NEW p \in Parameters
  PROVE  /\ \A k \in Number :
              /\ [p EXCEPT !.lambda = k].weights = p.weights
              /\ [p EXCEPT !.mu = k].weights = p.weights
              /\ [p EXCEPT !.lambda = k].supplemented = p.supplemented
              /\ [p EXCEPT !.mu = k].supplemented = p.supplemented
         /\ \A r \in RateName, v \in Rate :
              /\ [p EXCEPT !.rate[r] = v].weights = p.weights
              /\ [p EXCEPT !.rate[r] = v].supplemented = p.supplemented
  BY DEF Parameters

LEMMA SettersKeepWeights ==
  ASSUME TypeOK,
         \/ \E k \in Number : SetPopulationSize(k)
         \/ \E k \in Number : SetMu(k)
         \/ \E v \in Rate : SetCs(v)
         \/ \E v \in Rate : SetCc(v)
         \/ \E n \in Size, k \in Number : ReadProperties(n, k)
  PROVE  /\ UNCHANGED rejected
         /\ \A o \in Object : /\ heap'[o].weights = heap[o].weights
                              /\ heap'[o].supplemented = heap[o].supplemented
<1>1. /\ heap \in [Object -> Parameters] /\ parameters \in Object
      /\ sp \in Object /\ RateName = {"cs", "cc"}
  BY DEF TypeOK, RateName
<1>2. UNCHANGED rejected
  BY DEF SetPopulationSize, SetMu, SetCs, SetCc, Update, ReadProperties
<1>3. heap' = heap \/ \E o \in Object, p \in Parameters :
        /\ heap' = [heap EXCEPT ![o] = p]
        /\ p.weights = heap[o].weights
        /\ p.supplemented = heap[o].supplemented
  <2> DEFINE Changed(o, p) ==
               /\ heap' = [heap EXCEPT ![o] = p]
               /\ p.weights = heap[o].weights
               /\ p.supplemented = heap[o].supplemented
  <2>1. CASE \E k \in Number : SetPopulationSize(k)
    <3>1. PICK k \in Number : SetPopulationSize(k)
      BY <2>1
    <3>2. Changed(parameters, [heap[parameters] EXCEPT !.lambda = k])
      BY <1>1, <3>1, SetterWeights DEF SetPopulationSize, Update
    <3> QED BY <1>1, <3>2, SetterTypes
  <2>2. CASE \E k \in Number : SetMu(k)
    <3>1. PICK k \in Number : SetMu(k)
      BY <2>2
    <3>2. Changed(parameters, [heap[parameters] EXCEPT !.mu = k])
      BY <1>1, <3>1, SetterWeights DEF SetMu, Update
    <3> QED BY <1>1, <3>2, SetterTypes
  <2>3. CASE \E v \in Rate : SetCs(v)
    <3>1. PICK v \in Rate : SetCs(v)
      BY <2>3
    <3>2. Changed(parameters, [heap[parameters] EXCEPT !.rate["cs"] = v])
      BY <1>1, <3>1, SetterWeights DEF SetCs, Update
    <3> QED BY <1>1, <3>2, SetterTypes
  <2>4. CASE \E v \in Rate : SetCc(v)
    <3>1. PICK v \in Rate : SetCc(v)
      BY <2>4
    <3>2. Changed(parameters, [heap[parameters] EXCEPT !.rate["cc"] = v])
      BY <1>1, <3>1, SetterWeights DEF SetCc, Update
    <3> QED BY <1>1, <3>2, SetterTypes
  <2>5. CASE \E n \in Size, k \in Number : ReadProperties(n, k)
    <3>1. PICK n \in Size, k \in Number : ReadProperties(n, k)
      BY <2>5
    <3>2. heap' = heap
            \/ heap' = [heap EXCEPT ![sp] = [heap[sp] EXCEPT !.lambda = k]]
      BY <3>1 DEF ReadProperties
    <3>3. heap' = heap \/ Changed(sp, [heap[sp] EXCEPT !.lambda = k])
      BY <1>1, <3>2, SetterWeights
    <3> QED BY <1>1, <3>3, SetterTypes
  <2> QED BY <2>1, <2>2, <2>3, <2>4, <2>5
<1> QED BY <1>1, <1>2, <1>3

LEMMA NextWeights ==
  ASSUME RefusalInv, [Next]_vars
  PROVE  /\ RefusalInv'
         /\ \A o \in rejected' \ rejected : ~Admissible(heap[o], N)
<1>1. TypeOK /\ TypeOK' /\ WeightsInv
  BY NextType DEF RefusalInv
<1>2. CASE UNCHANGED <<heap, rejected>>
  BY <1>1, <1>2 DEF RefusalInv, WeightsInv
<1>3. CASE \/ \E k \in Number : SetPopulationSize(k)
           \/ \E k \in Number : SetMu(k)
           \/ \E v \in Rate : SetCs(v)
           \/ \E v \in Rate : SetCc(v)
           \/ \E n \in Size, k \in Number : ReadProperties(n, k)
  BY <1>1, <1>3, SettersKeepWeights DEF RefusalInv, WeightsInv
<1>4. CASE Initialize
  <2>1. /\ Begin /\ N > 0
        /\ \/ Refused /\ rejected' = rejected \cup {parameters}
           \/ rejected' = rejected
    BY <1>4 DEF Initialize, InitRefuses, InitWrongBounds, InitNoDeviations,
       InitNoPoint, InitSucceeds, Scaled, Bounded, Prepare, Begin
  <2>2. WeightsInv'
    BY <1>1, <2>1, BeginType DEF WeightsInv
  <2>3. Refused => ~Admissible(heap[parameters], N)
    BY <1>1, <2>1, AdmissiblePasses DEF Refused, Ready, WeightsInv, TypeOK
  <2> QED BY <1>1, <2>1, <2>2, <2>3 DEF RefusalInv
<1>5. CASE \E o \in Object : AssignParameters(o)
  BY <1>2, <1>5 DEF AssignParameters
<1>6. CASE \/ \E n \in Size : SetDimension(n)
           \/ \E len \in Size : SetTypicalX(len)
           \/ \E len \in Size, b \in {0, 1} :
                SetInitialStandardDeviations(len, b)
           \/ \E len \in Size : SetInitialX(len)
           \/ SetInitialXWithin
           \/ \E len \in Size : SetInitialXBetween(len)
  BY <1>2, <1>6 DEF SetDimension, SetTypicalX, SetInitialStandardDeviations,
     SetInitialX, SetInitialXWithin, SetInitialXBetween, objects
<1>7. CASE UNCHANGED vars
  BY <1>2, <1>7 DEF vars, objects
<1> QED BY <1>3, <1>4, <1>5, <1>6, <1>7 DEF Next

(* The check of init() refuses an object only for a value that the caller  *)
(* set: what is left unset is derived, in the order of the dependencies,   *)
(* to values that pass (CMAParameters 156-213).                            *)
THEOREM OnlyBadValuesRefused == Spec => RefusesOnlyBadValues
<1>1. Init => RefusalInv
  BY InitType DEF Init, NewParameters, RefusalInv, WeightsInv
<1>2. RefusalInv /\ [Next]_vars => RefusalInv'
  BY NextWeights
<1>3. RefusalInv /\ [Next]_vars
        => [\A o \in rejected' \ rejected : ~Admissible(heap[o], N)]_vars
  BY NextWeights
<1> QED BY <1>1, <1>2, <1>3, PTL DEF Spec, RefusesOnlyBadValues
=============================================================================
