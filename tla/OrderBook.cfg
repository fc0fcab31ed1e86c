CONSTANTS
  a = a
  b = b
  c = c
  o1 = o1
  o2 = o2
  NoID = NoID
  MaxSequence = 6
  ID = {a, b, c, NoID}
  Orders = {o1, o2}
  Archives <- MCArchives
SPECIFICATION Spec
INVARIANTS
  TypeOK
  NeverStuck
PROPERTIES
  NumbersNeverReissued
  ImplementsQueue
