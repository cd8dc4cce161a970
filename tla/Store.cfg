SPECIFICATION Spec
CONSTANTS
  Objects = {o1, o2, o3}
  Values = {v1, v2}
  None = None
INVARIANTS
  TypeOK
  Durable
  LeftOpenOnlyUnderTheBox
  IdsAreTrue
PROPERTIES
  OneStoreAtATime
