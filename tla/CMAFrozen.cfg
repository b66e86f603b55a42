SPECIFICATION Spec
CONSTANTS
  Size = {0, 1, 2, 3}
  Number = {0, 1, 9}
  DefaultLambda <- Lambdas
  Object = {p1}
PROPERTY FrozenWhenReady
