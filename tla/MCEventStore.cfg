\* Two writers load, change and save one account.
SPECIFICATION Spec
CONSTANTS
  w1 = w1
  w2 = w2
  Writer <- MCWriter
  Amount <- MCAmount
  SnapshotEvery = 2
  MaxVersion = 4
  MaxPending = 2
  MaxFaults = 1
SYMMETRY MCSymmetry
INVARIANTS
  TypeOK
  DerivedAgrees
  LoadedIsReplay
PROPERTIES
  EventsFollow
