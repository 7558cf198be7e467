SPECIFICATION FairSpec
CONSTANTS
  Keys = {k1, k2}
  Values = {v1, v2}
  Absent = Absent
  Error = Error
  MaxEntries = 2
INVARIANT
  TypeOK
PROPERTIES
  ImplementsAtomicLookup
  LookupEnds
