SPECIFICATION FairSpec
CONSTANTS
  Groups <- TwoGroups
  Numbers = {n1, n2}
  Strings = {s1}
  Addresses <- FarAddress
  Hosts = {h1}
  Nil = Nil
  Usual = n1
  Empty = Empty
  Missing = Missing
  MaxFailures = 1
  MaxCommands = 3
INVARIANTS
  TypeOK ShownIsStored StoredIsAsked
PROPERTIES
  Serves
CHECK_DEADLOCK FALSE
