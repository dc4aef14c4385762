\* Three writers, no cleaner, two crashes.
CONSTANTS
  Writers = {p1, p2, p3}
  Cleaners = {}
  Files = {f1, f2, f3, f4, f5}
  NoFile = NoFile
  MaxCrashes = 2
  MaxRefusals = 0
SPECIFICATION Spec
SYMMETRY StoreSymmetry
INVARIANTS TypeOK CurrentHasFile QuiescentExact
PROPERTIES ImplementsAtomic
\* Nobody has to store a document: with every name drawn, the system rests.
CHECK_DEADLOCK FALSE
