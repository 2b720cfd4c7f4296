SPECIFICATION Spec
CONSTANTS
  Keys = {x, y, z, w}
  Values = {a, b}
  NoValue = NoValue
  Capacity = 3
  Nodes = {n1, n2, n3, n4}
  Nil = Nil
INVARIANTS ListMatchesMap
PROPERTY ImplementsLru
