SPECIFICATION Spec
CONSTANTS
  Good = {s1, s2, s3}
  HeaderOnly = {h1}
  Corrupt = Corrupt
  MaxFaults = 3
INVARIANTS
  TypeOK
  OneFaultSafe
PROPERTIES
  ReadFaithful
  ImplementsRecord
